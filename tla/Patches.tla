------------------------------ MODULE Patches ------------------------------
(***************************************************************************)
(* Replay-time patches (patches.py): agents propose payload transformers   *)
(* for a signature, apply the ones find_applicable gives them when they    *)
(* work on a task of that signature, and record how it went; a promoter    *)
(* and an operator run beside them on the same table.                      *)
(*                                                                         *)
(* patches.py leaves the wiring to its callers: an agent here does what    *)
(* the docstrings of find_applicable and record_outcome say a caller does. *)
(* Between finding a patch and recording its outcome the patch may have    *)
(* been promoted or retired by somebody else.                              *)
(***************************************************************************)
EXTENDS Naturals, FiniteSets, Sequences, SequencesExt

CONSTANTS
  None,
  Agents,
  Signatures,
  Thresholds,   \* the thresholds that promoters are run with
  Transformers, \* the transformers that agents propose, malformed ones too
  Inputs,       \* the payloads of the tasks they work on
  MaxPatches,   \* bound: patches proposed
  MaxOutcomes   \* bound: outcomes recorded, of both kinds

ASSUME PatchesAssumption ==
  /\ None \notin Agents \cup Signatures
  /\ Thresholds \subseteq Nat \ {0}   \* promote_eligible refuses less than 1
  /\ MaxPatches \in Nat /\ MaxOutcomes \in Nat

INSTANCE Payloads WITH Missing <- None

VARIABLES
  patches,   \* the table: patch id -> row; None until inserted
  lastId,    \* the AUTOINCREMENT counter of patches
  agent,     \* the task an agent works on: see Resting
  outcomes   \* history: how often [patch, agent, success] was recorded

vars == <<patches, lastId, agent, outcomes>>

Ids == 1 .. MaxPatches
Status == {"candidate", "canonical", "retired"}

Row == [sig : Signatures, transformer : Transformers, status : Status, successes : Nat,
        failures : Nat, proposer : Agents, promoted : BOOLEAN]

ASSUME NullIsNoRow == None \notin Row

Exists(p) == patches[p] # None
Outcomes == [patch : Ids, agent : Agents, success : BOOLEAN]

(* The signature of the task, its payload as patched, the candidate among  *)
(* the patches that was applied last, and the patches whose outcome is yet *)
(* to be recorded                                                          *)
Resting == [sig |-> None, used |-> None, trial |-> None, todo |-> {}]

Init ==
  /\ patches = [p \in Ids |-> None]
  /\ lastId = 0
  /\ agent = [a \in Agents |-> Resting]
  /\ outcomes = [o \in Outcomes |-> 0]

-----------------------------------------------------------------------------
(* The transformer is tried on an empty payload; one that raises there     *)
(* never becomes a row.                                                    *)
Propose(a, s, tr) ==
  /\ lastId < MaxPatches
  /\ ApplyTransformer(<<>>, tr) # None
  /\ lastId' = lastId + 1
  /\ patches' = [patches EXCEPT ![lastId'] =
       [sig |-> s, transformer |-> tr, status |-> "candidate", successes |-> 0, failures |-> 0,
        proposer |-> a, promoted |-> FALSE]]
  /\ UNCHANGED <<agent, outcomes>>

ApplicableToAll(p, s, a) ==
  Exists(p) /\ patches[p].sig = s /\ patches[p].status # "retired"

(* The WHERE clause of find_applicable *)
Applicable(p, s, a) ==
  /\ Exists(p)
  /\ patches[p].sig = s
  /\ \/ patches[p].status = "canonical"
     \/ patches[p].status = "candidate" /\ patches[p].proposer = a

ByProposal(order) ==
  \A i, j \in DOMAIN order :
    i < j /\ patches[order[i]].proposer = patches[order[j]].proposer => order[i] < order[j]

(* ORDER BY canonical first, then proposed_at.  An agent proposes one      *)
(* patch after the other; proposed_at is read before the write lock, so    *)
(* those of different agents may be in another order than their ids.       *)
ApplyOrder(order) ==
  /\ \A i, j \in DOMAIN order :
       i < j /\ patches[order[j]].status = "canonical" => patches[order[i]].status = "canonical"
  /\ \A i, j \in DOMAIN order :
       i < j /\ patches[order[i]].status = patches[order[j]].status
             /\ patches[order[i]].proposer = patches[order[j]].proposer
         => order[i] < order[j]

(* "Apply in this order when composing transformers on a single payload" *)
Compose(payload, order) ==
  LET applied[n \in 0 .. Len(order)] ==   \* with the first n of them
        IF n = 0 THEN payload
                 ELSE ApplyTransformer(applied[n - 1], patches[order[n]].transformer)
  IN  applied[Len(order)]

Trial(order) ==
  LET candidates == {i \in DOMAIN order : patches[order[i]].status = "candidate"} IN
  IF candidates = {} THEN None ELSE order[Max(candidates)]

(* The agent takes a task of signature s and applies what it finds. *)
FindApplicable(a, s, input) ==
  LET found == {p \in Ids : Applicable(p, s, a)} IN
  /\ agent[a] = Resting
  /\ found # {}
  /\ \E order \in SetToSeqs(found) :
       /\ ApplyOrder(order)
       /\ agent' = [agent EXCEPT ![a] =
            [sig |-> s, todo |-> found, used |-> Compose(input, order), trial |-> Trial(order)]]
  /\ UNCHANGED <<patches, lastId, outcomes>>

CountedAlways(row, success) == [row EXCEPT !.successes = @ + 1]

(* n_successes = n_successes + 1, or n_failures: one column, read and      *)
(* written by one statement                                                *)
Counted(row, success) ==
  IF success THEN [row EXCEPT !.successes = @ + 1] ELSE [row EXCEPT !.failures = @ + 1]

Weight(p) == patches[p].successes + patches[p].failures

(* What an agent has in hand when the outcome of p has been recorded       *)
Recording(work, p) ==
  IF work.todo = {p} THEN Resting ELSE [work EXCEPT !.todo = work.todo \ {p}]

RecordOutcome(a, p, success) ==
  /\ p \in agent[a].todo
  /\ Weight(p) < MaxOutcomes
  /\ patches' = [patches EXCEPT ![p] = Counted(@, success)]
  /\ outcomes' = [outcomes EXCEPT ![[patch |-> p, agent |-> a, success |-> success]] = @ + 1]
  /\ agent' = [agent EXCEPT ![a] = Recording(@, p)]
  /\ UNCHANGED lastId

(* The agent dies, or its caller never gets to record. *)
Abandon(a) ==
  /\ agent[a] # Resting
  /\ agent' = [agent EXCEPT ![a] = Resting]
  /\ UNCHANGED <<patches, lastId, outcomes>>

PromotableFromAnyStatus(p, threshold) == Exists(p) /\ patches[p].successes >= threshold

(* The WHERE clause of promote_eligible *)
Promotable(p, threshold) ==
  Exists(p) /\ patches[p].status = "candidate" /\ patches[p].successes >= threshold

(* One UPDATE; it may find nothing to promote. *)
PromoteEligible(threshold) ==
  /\ patches' = [p \in Ids |->
       IF Promotable(p, threshold)
         THEN [patches[p] EXCEPT !.status = "canonical", !.promoted = TRUE]
         ELSE patches[p]]
  /\ UNCHANGED <<lastId, agent, outcomes>>

(* Any patch, in any status *)
Retire(p) ==
  /\ Exists(p)
  /\ patches' = [patches EXCEPT ![p].status = "retired"]
  /\ UNCHANGED <<lastId, agent, outcomes>>

AgentStep(a) ==
  \/ \E s \in Signatures, tr \in Transformers : Propose(a, s, tr)
  \/ \E s \in Signatures, input \in Inputs : FindApplicable(a, s, input)
  \/ \E p \in Ids, success \in BOOLEAN : RecordOutcome(a, p, success)
  \/ Abandon(a)

Next ==
  \/ \E a \in Agents : AgentStep(a)
  \/ \E threshold \in Thresholds : PromoteEligible(threshold)
  \/ \E p \in Ids : Retire(p)

Spec == Init /\ [][Next]_vars

-----------------------------------------------------------------------------
(* Rows are what the schema declares, ids are dense, and an agent holds    *)
(* patches of one signature.                                               *)
TypeOK ==
  /\ lastId \in 0 .. MaxPatches
  /\ patches \in [Ids -> Row \cup {None}]
  /\ \A p \in Ids : patches[p] \in IF p <= lastId THEN Row ELSE {None}
  /\ DOMAIN agent = Agents
  /\ \A a \in Agents :
       /\ DOMAIN agent[a] = DOMAIN Resting
       /\ \A p \in agent[a].todo : p \in 1 .. lastId /\ patches[p].sig = agent[a].sig
  /\ outcomes \in [Outcomes -> Nat]

(* "The experiment boundary": an agent that did not propose a patch has    *)
(* anything to do with it only once it has been promoted, however late the *)
(* outcome is recorded.                                                    *)
ExperimentBoundary ==
  \A p \in Ids, a \in Agents :
    Exists(p) /\ ~patches[p].promoted /\ a # patches[p].proposer
      => /\ p \notin agent[a].todo
         /\ \A success \in BOOLEAN :
              outcomes[[patch |-> p, agent |-> a, success |-> success]] = 0

(* "n_successes >= 3 on the proposing agent's replays": the successes that *)
(* made a patch canonical were the proposer's own.                         *)
PromotedOnOwnSuccesses ==
  \A p \in Ids :
    Exists(p) /\ patches[p].promoted
      => \E threshold \in Thresholds :
           outcomes[[patch |-> p, agent |-> patches[p].proposer, success |-> TRUE]] >= threshold

(* "Retired patches never apply": a promoter that comes late, or a success *)
(* recorded late, does not bring a retired patch back.                     *)
RetiredIsFinal ==
  [][\A p \in Ids : Exists(p) /\ patches[p].status = "retired"
       => patches'[p].status = "retired"]_vars

(* "A malformed candidate must never get promoted": a patch that got into  *)
(* the table raises on no payload, adds or changes one field at most, and  *)
(* removes none, although it was tried on an empty payload only.           *)
NoPoisonedRow ==
  \A p \in Ids, x \in Inputs \cup ({agent[a].used : a \in Agents} \ {None}) :
    Exists(p) =>
      LET y == ApplyTransformer(x, patches[p].transformer)
          diff == PayloadDiff(y, x) IN
      /\ y # None
      /\ diff.removed = {}
      /\ Cardinality(diff.new \cup diff.changed) <= 1

(* What a transformer is there for shows in the payload.                   *)
InEffect(tr, payload) ==
  CASE tr.kind = "prepend_system_msg" ->
         IF Is("list", Get(payload, "messages"))
           THEN Head(payload["messages"].items) = SystemMessage(tr.args["text"])
           ELSE Get(payload, "system_prompt") = tr.args["text"]
    [] tr.kind = "truncate_field" ->
         LET v == Get(payload, tr.args["field"].of) IN
         IsText(v) => v.len <= tr.args["max_chars"].n
    [] tr.kind = "swap_model" -> Get(payload, "model") = tr.args["to"]

(* An experiment takes place: the candidate an agent applied last shows in *)
(* the payload it works with, whatever canonical patches apply to the same *)
(* task.  An earlier candidate of its own may be undone by that one, and   *)
(* is credited with the outcome all the same.                              *)
ExperimentInEffect ==
  \A a \in Agents : agent[a].trial # None =>
    InEffect(patches[agent[a].trial].transformer, agent[a].used)
=============================================================================
