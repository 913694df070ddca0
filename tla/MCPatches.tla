----------------------------- MODULE MCPatches -----------------------------
(***************************************************************************)
(* Instances of Patches for TLC.                                           *)
(***************************************************************************)
EXTENDS Patches, TLC

CONSTANTS ann, bob, review, deploy

(* One well-formed transformer of each kind, two that get in each other's  *)
(* way, and three that must be refused: an unknown kind, a missing text    *)
(* and a negative length.                                                  *)
Brief == [kind |-> "prepend_system_msg", args |-> [text |-> Text("be brief", 3)]]
Fast == [kind |-> "swap_model", args |-> [to |-> Text("fast", 1)]]

Truncate(n) ==
  [kind |-> "truncate_field",
   args |-> [field |-> Text("system_prompt", 3), max_chars |-> Number(n)]]

Proposed ==
  {Brief, Fast, Truncate(2), Truncate(-1),
   [kind |-> "swap_model", args |-> <<>>],
   [kind |-> "retry_harder", args |-> [text |-> Text("be brief", 3)]]}

(* A conversation, and a prompt longer than the limit beside something     *)
(* under "messages" that is no list                                        *)
Payloads2 ==
  {[messages |-> List(<<[kind |-> "user message"]>>), model |-> Text("large", 1)],
   [messages |-> Text("hello", 2), system_prompt |-> Text("old", 3)]}

Symmetry == Permutations(Agents) \cup Permutations(Signatures)
=============================================================================
