------------------------------ MODULE Payloads ------------------------------
(***************************************************************************)
(* Task payloads and what patches do to them (apply_transformer in         *)
(* patches.py), and how two payloads are compared (compute_payload_diff in *)
(* diagnose.py).                                                           *)
(*                                                                         *)
(* A payload maps some fields to values.  Of a text the model keeps where  *)
(* it comes from and how long a prefix of it is left; of a list its items. *)
(***************************************************************************)
EXTENDS Integers, Sequences

CONSTANT Missing   \* Python's None: what dict.get returns, and a raised error

Text(of, len) == [kind |-> "text", of |-> of, len |-> len]
List(items) == [kind |-> "list", items |-> items]
Number(n) == [kind |-> "number", n |-> n]

Get(dict, key) == IF key \in DOMAIN dict THEN dict[key] ELSE Missing
Set(dict, key, value) ==
  [k \in DOMAIN dict \cup {key} |-> IF k = key THEN value ELSE dict[k]]

Is(kind, value) == value # Missing /\ value.kind = kind
IsText(value) == Is("text", value)
SystemMessage(text) == [kind |-> "system message", of |-> text]

-----------------------------------------------------------------------------
(* apply_transformer.  A transformer is [kind, args]; kind is Missing when *)
(* it is no string, args when it is no dict.                               *)
KnownKinds == {"prepend_system_msg", "truncate_field", "swap_model"}

(* What each branch requires of args before it looks at the payload; an    *)
(* unknown kind raises.                                                    *)
WellFormed(tr) ==
  /\ tr.kind \in KnownKinds
  /\ tr.args # Missing
  /\ CASE tr.kind = "prepend_system_msg" -> IsText(Get(tr.args, "text"))
       [] tr.kind = "truncate_field" ->
            /\ IsText(Get(tr.args, "field"))
            /\ Is("number", Get(tr.args, "max_chars"))
            /\ tr.args["max_chars"].n >= 0
       [] tr.kind = "swap_model" -> IsText(Get(tr.args, "to"))

(* Messages are prepended to; anything else under "messages" stays as it   *)
(* is and the text goes to system_prompt.                                  *)
Prepended(payload, text) ==
  LET messages == Get(payload, "messages") IN
  IF Is("list", messages)
    THEN Set(payload, "messages", List(<<SystemMessage(text)>> \o messages.items))
    ELSE Set(payload, "system_prompt", text)

Truncated(payload, field, max) ==
  LET v == Get(payload, field) IN
  IF IsText(v) /\ v.len > max THEN Set(payload, field, Text(v.of, max)) ELSE payload

Transformed(payload, tr) ==
  CASE tr.kind = "prepend_system_msg" -> Prepended(payload, tr.args["text"])
    [] tr.kind = "truncate_field" ->
         Truncated(payload, tr.args["field"].of, tr.args["max_chars"].n)
    [] tr.kind = "swap_model" -> Set(payload, "model", tr.args["to"])

CheckedWhenItFires(payload, tr) ==
  IF tr.kind = "truncate_field" /\ DOMAIN payload = {} THEN payload
  ELSE IF WellFormed(tr) THEN Transformed(payload, tr) ELSE Missing

ApplyTransformer(payload, tr) ==
  IF WellFormed(tr) THEN Transformed(payload, tr) ELSE Missing

-----------------------------------------------------------------------------
(* compute_payload_diff: the top-level fields; the sizes are left out.     *)
PayloadDiff(failed, success) ==
  [new |-> DOMAIN failed \ DOMAIN success,
   removed |-> DOMAIN success \ DOMAIN failed,
   changed |-> {k \in DOMAIN failed \cap DOMAIN success : failed[k] # success[k]}]
=============================================================================
