--------------------------- MODULE PatchesProofs ---------------------------
(***************************************************************************)
(* Theorems about Patches, for all sets of agents, signatures and          *)
(* thresholds.  Who may touch a patch and what promotes it does not depend *)
(* on what transformers do; that is what the second half is about.         *)
(***************************************************************************)
EXTENDS Patches, FiniteSetTheorems, TLAPS, WellFoundedInduction

Recorded(p, a, success) == outcomes[[patch |-> p, agent |-> a, success |-> success]]

(* Nobody has had to do with an id that no row has yet.                    *)
UnusedIsFresh ==
  \A p \in Ids, a \in Agents, success \in BOOLEAN :
    p > lastId => Recorded(p, a, success) = 0

(* The status alone does not say that a patch was ever promoted: a retired *)
(* one may have been either.  What a WHERE clause lets through does.       *)
CanonicalIsPromoted ==
  \A p \in Ids : p <= lastId /\ patches[p].status = "canonical" => patches[p].promoted

(* What promote_eligible compares with its threshold                       *)
CandidateCountsItsProposer ==
  \A p \in Ids :
    p <= lastId /\ ~patches[p].promoted
      => patches[p].successes = Recorded(p, patches[p].proposer, TRUE)

PatchesInv ==
  /\ TypeOK
  /\ UnusedIsFresh
  /\ CanonicalIsPromoted
  /\ CandidateCountsItsProposer
  /\ ExperimentBoundary
  /\ PromotedOnOwnSuccesses

LEMMA InitPatches == Init => PatchesInv
  <1> SUFFICES ASSUME Init PROVE PatchesInv
    OBVIOUS
  <1>1. TypeOK
    BY PatchesAssumption DEF Init, TypeOK, Ids, Resting, Outcomes
  <1>2. UnusedIsFresh
    BY DEF Init, UnusedIsFresh, Recorded, Outcomes
  <1>3. \A p \in Ids : ~Exists(p) /\ ~(p <= lastId)
    BY PatchesAssumption DEF Init, Exists, Ids
  <1> QED BY <1>1, <1>2, <1>3
          DEF PatchesInv, CanonicalIsPromoted, CandidateCountsItsProposer,
              ExperimentBoundary, PromotedOnOwnSuccesses

(* A row exists exactly for the ids given out.                             *)
LEMMA Given ==
  ASSUME TypeOK, NEW p \in Ids
  PROVE  /\ Exists(p) <=> p <= lastId
         /\ Exists(p) => patches[p] \in Row
  BY NullIsNoRow DEF TypeOK, Exists

-----------------------------------------------------------------------------
(* The actions, one by one.                                                *)

LEMMA ProposeKeeps ==
  ASSUME PatchesInv, NEW a \in Agents, NEW s \in Signatures, NEW tr \in Transformers,
         Propose(a, s, tr)
  PROVE  PatchesInv'
  <1> DEFINE q == lastId + 1
             row == [sig |-> s, transformer |-> tr, status |-> "candidate", successes |-> 0,
                     failures |-> 0, proposer |-> a, promoted |-> FALSE]
  <1>1. q \in Ids /\ lastId \in Nat /\ lastId' = q
    BY PatchesAssumption DEF Propose, Ids, PatchesInv, TypeOK
  <1>2. patches' = [patches EXCEPT ![q] = row]
    BY <1>1 DEF Propose
  <1>3. row \in Row
    BY DEF Row, Status
  <1>4. UNCHANGED <<agent, outcomes>>
    BY DEF Propose
  <1>5. /\ patches'[q] = row
        /\ \A p \in Ids : p # q => patches'[p] = patches[p]
    BY <1>1, <1>2 DEF PatchesInv, TypeOK
  <1>6. row.status = "candidate" /\ row.successes = 0 /\ ~row.promoted /\ row.proposer = a
    OBVIOUS
  <1> HIDE DEF row
  <1>7. TypeOK'
    <2>1. patches' \in [Ids -> Row \cup {None}]
      BY <1>2, <1>3 DEF PatchesInv, TypeOK
    <2>2. \A p \in Ids : patches'[p] \in IF p <= lastId' THEN Row ELSE {None}
      BY <1>1, <1>3, <1>5 DEF PatchesInv, TypeOK, Ids
    <2>3. ASSUME NEW b \in Agents, NEW p \in agent[b].todo
          PROVE  p \in 1 .. lastId' /\ patches'[p].sig = agent[b].sig
      BY <1>1, <1>5, PatchesAssumption DEF PatchesInv, TypeOK, Ids
    <2>4. lastId' \in 0 .. MaxPatches
      BY <1>1 DEF Ids
    <2>5. /\ DOMAIN agent' = Agents
          /\ \A b \in Agents : DOMAIN agent'[b] = DOMAIN Resting
          /\ outcomes' \in [Outcomes -> Nat]
      BY <1>4 DEF PatchesInv, TypeOK
    <2> QED BY <1>4, <2>1, <2>2, <2>3, <2>4, <2>5 DEF TypeOK
  <1>8. \A b \in Agents, success \in BOOLEAN :
          q \notin agent[b].todo /\ Recorded(q, b, success) = 0
    BY <1>1 DEF PatchesInv, TypeOK, UnusedIsFresh
  <1>9. \A p \in Ids : p <= lastId' => p = q \/ (p <= lastId /\ p # q)
    BY <1>1 DEF Ids
  <1>10. UnusedIsFresh'
    BY <1>1, <1>4 DEF PatchesInv, UnusedIsFresh, Recorded, Ids
  <1>11. CanonicalIsPromoted'
    BY <1>5, <1>6, <1>9 DEF PatchesInv, CanonicalIsPromoted
  <1>12. CandidateCountsItsProposer'
    BY <1>4, <1>5, <1>6, <1>8, <1>9
       DEF PatchesInv, CandidateCountsItsProposer, Recorded
  <1>13. ExperimentBoundary'
    BY <1>4, <1>5, <1>8 DEF PatchesInv, ExperimentBoundary, Recorded, Exists
  <1>14. PromotedOnOwnSuccesses'
    BY <1>4, <1>5, <1>6 DEF PatchesInv, PromotedOnOwnSuccesses, Exists
  <1> QED BY <1>7, <1>10, <1>11, <1>12, <1>13, <1>14 DEF PatchesInv

(* What find_applicable gives an agent is its own or was promoted.         *)
LEMMA FindKeeps ==
  ASSUME PatchesInv, NEW a \in Agents, NEW s \in Signatures, NEW input \in Inputs,
         FindApplicable(a, s, input)
  PROVE  PatchesInv'
  <1> DEFINE found == {p \in Ids : Applicable(p, s, a)}
  <1>1. UNCHANGED <<patches, lastId, outcomes>>
    BY DEF FindApplicable
  <1>2. PICK used, trial :
          agent' = [agent EXCEPT ![a] =
            [sig |-> s, todo |-> found, used |-> used, trial |-> trial]]
    BY DEF FindApplicable
  <1>3. ASSUME NEW p \in found
        PROVE  /\ p \in Ids /\ p <= lastId /\ patches[p].sig = s
               /\ patches[p].promoted \/ patches[p].proposer = a
    BY Given DEF Applicable, PatchesInv, CanonicalIsPromoted
  <1>4. /\ agent'[a].todo = found /\ agent'[a].sig = s
        /\ DOMAIN agent'[a] = DOMAIN Resting
        /\ \A b \in Agents : b # a => agent'[b] = agent[b]
        /\ DOMAIN agent' = Agents
    BY <1>2 DEF PatchesInv, TypeOK, Resting
  <1> HIDE DEF found
  <1>5. TypeOK'
    BY <1>1, <1>3, <1>4 DEF PatchesInv, TypeOK, Ids, Resting
  <1>6. ExperimentBoundary'
    BY <1>1, <1>3, <1>4 DEF PatchesInv, ExperimentBoundary, Exists
  <1> QED BY <1>1, <1>5, <1>6
          DEF PatchesInv, UnusedIsFresh, CanonicalIsPromoted, CandidateCountsItsProposer,
              PromotedOnOwnSuccesses, Recorded, Exists

(* An outcome is the proposer's or of a promoted patch, and is counted in  *)
(* the row and in the history alike.                                       *)
LEMMA RecordKeeps ==
  ASSUME PatchesInv, NEW a \in Agents, NEW p \in Ids, NEW success \in BOOLEAN,
         RecordOutcome(a, p, success)
  PROVE  PatchesInv'
  <1> DEFINE o == [patch |-> p, agent |-> a, success |-> success]
  <1>1. p \in agent[a].todo /\ UNCHANGED lastId
    BY DEF RecordOutcome
  <1>2. p <= lastId /\ Exists(p) /\ patches[p] \in Row /\ lastId \in Nat
    BY <1>1, Given DEF PatchesInv, TypeOK
  <1>3. patches[p].promoted \/ patches[p].proposer = a
    BY <1>1, <1>2 DEF PatchesInv, ExperimentBoundary
  <1>4. /\ patches' = [patches EXCEPT ![p] = Counted(patches[p], success)]
        /\ \A r \in Ids : r # p => patches'[r] = patches[r]
        /\ patches'[p] = Counted(patches[p], success)
    BY DEF RecordOutcome, PatchesInv, TypeOK
  <1>5. LET row == Counted(patches[p], success) IN
        /\ row \in Row
        /\ row.sig = patches[p].sig /\ row.status = patches[p].status
        /\ row.promoted = patches[p].promoted /\ row.proposer = patches[p].proposer
        /\ row.successes = patches[p].successes + (IF success THEN 1 ELSE 0)
    BY <1>2 DEF Counted, Row
  <1>6. /\ o \in Outcomes
        /\ outcomes' = [outcomes EXCEPT ![o] = outcomes[o] + 1]
        /\ outcomes \in [Outcomes -> Nat]
        /\ outcomes' \in [Outcomes -> Nat]
    <2>1. o \in Outcomes
      BY DEF Outcomes
    <2>2. outcomes' = [outcomes EXCEPT ![o] = outcomes[o] + 1]
      BY DEF RecordOutcome
    <2>3. outcomes \in [Outcomes -> Nat]
      BY DEF PatchesInv, TypeOK
    <2> HIDE DEF o
    <2> QED BY <2>1, <2>2, <2>3
  <1>7. \A r \in Ids, b \in Agents, c \in BOOLEAN :
          /\ Recorded(r, b, c) \in Nat
          /\ Recorded(r, b, c)' = Recorded(r, b, c)
                                   + (IF r = p /\ b = a /\ c = success THEN 1 ELSE 0)
    <2> SUFFICES ASSUME NEW r \in Ids, NEW b \in Agents, NEW c \in BOOLEAN
                 PROVE  /\ Recorded(r, b, c) \in Nat
                        /\ Recorded(r, b, c)' = Recorded(r, b, c)
                             + (IF r = p /\ b = a /\ c = success THEN 1 ELSE 0)
      OBVIOUS
    <2> DEFINE x == [patch |-> r, agent |-> b, success |-> c]
    <2>1. x \in Outcomes
      BY DEF Outcomes
    <2>2. x = o <=> r = p /\ b = a /\ c = success
      OBVIOUS
    <2>3. Recorded(r, b, c) = outcomes[x] /\ Recorded(r, b, c)' = outcomes'[x]
      BY DEF Recorded
    <2> HIDE DEF x, o
    <2> QED BY <1>6, <2>1, <2>2, <2>3
  <1>8. /\ DOMAIN agent' = Agents
        /\ \A b \in Agents :
             /\ DOMAIN agent'[b] = DOMAIN Resting
             /\ agent'[b].todo \subseteq agent[b].todo
             /\ agent'[b].todo # {} => agent'[b].sig = agent[b].sig
    <2>1. DOMAIN agent = Agents /\ \A b \in Agents : DOMAIN agent[b] = DOMAIN Resting
      BY DEF PatchesInv, TypeOK
    <2>2. CASE agent[a].todo = {p}
      <3>1. agent' = [agent EXCEPT ![a] = Resting]
        BY <2>2 DEF RecordOutcome, Recording
      <3>2. Resting.todo = {}
        BY DEF Resting
      <3> QED BY <2>1, <3>1, <3>2
    <2>3. CASE agent[a].todo # {p}
      <3>1. agent' = [agent EXCEPT ![a] =
                        [agent[a] EXCEPT !.todo = agent[a].todo \ {p}]]
        BY <2>3 DEF RecordOutcome, Recording
      <3> QED BY <2>1, <3>1 DEF Resting
    <2> QED BY <2>2, <2>3
  <1> HIDE DEF o
  <1>9. TypeOK'
    <2>1. patches' \in [Ids -> Row \cup {None}]
      BY <1>4, <1>5 DEF PatchesInv, TypeOK
    <2>2. \A r \in Ids : patches'[r] \in IF r <= lastId' THEN Row ELSE {None}
      BY <1>1, <1>2, <1>4, <1>5 DEF PatchesInv, TypeOK
    <2>3. ASSUME NEW b \in Agents, NEW r \in agent'[b].todo
          PROVE  r \in 1 .. lastId' /\ patches'[r].sig = agent'[b].sig
      BY <1>1, <1>4, <1>5, <1>8, PatchesAssumption DEF PatchesInv, TypeOK, Ids
    <2>4. lastId' \in 0 .. MaxPatches
      BY <1>1 DEF PatchesInv, TypeOK
    <2>5. outcomes' \in [Outcomes -> Nat]
      BY <1>6
    <2>6. DOMAIN agent' = Agents /\ \A b \in Agents : DOMAIN agent'[b] = DOMAIN Resting
      BY <1>8
    <2> QED BY <2>1, <2>2, <2>3, <2>4, <2>5, <2>6 DEF TypeOK
  <1>10. UnusedIsFresh'
    <2> SUFFICES ASSUME NEW r \in Ids, NEW b \in Agents, NEW c \in BOOLEAN, r > lastId
                 PROVE  Recorded(r, b, c)' = 0
      BY <1>1 DEF UnusedIsFresh, Recorded
    <2>1. Recorded(r, b, c) = 0
      BY DEF PatchesInv, UnusedIsFresh
    <2>2. r # p
      BY <1>2 DEF Ids
    <2>3. Recorded(r, b, c)' = Recorded(r, b, c) + 0
      BY <1>7, <2>2
    <2> QED BY <2>1, <2>3
  <1>11. CanonicalIsPromoted'
    BY <1>1, <1>4, <1>5 DEF PatchesInv, CanonicalIsPromoted
  <1>12. CandidateCountsItsProposer'
    <2>1. ASSUME NEW r \in Ids, r <= lastId, ~patches[r].promoted
          PROVE  patches'[r].successes = outcomes'[[patch |-> r,
                    agent |-> patches[r].proposer, success |-> TRUE]]
      <3>1. PICK b \in Agents : b = patches[r].proposer
        BY <2>1, Given DEF PatchesInv, Row
      <3>2. patches[r].successes = Recorded(r, b, TRUE)
        BY <2>1, <3>1 DEF PatchesInv, CandidateCountsItsProposer
      <3>3. patches'[r].successes = patches[r].successes
                                    + (IF r = p /\ success THEN 1 ELSE 0)
        <4>1. patches[r].successes \in Nat
          BY <1>7, <3>2
        <4> QED BY <1>4, <1>5, <4>1
      <3>4. Recorded(r, b, TRUE)' = Recorded(r, b, TRUE)
                                    + (IF r = p /\ b = a /\ TRUE = success THEN 1 ELSE 0)
        BY <1>7
      <3>5. r = p => b = a
        BY <1>3, <2>1, <3>1
      <3>6. patches'[r].successes = Recorded(r, b, TRUE)'
        BY <3>2, <3>3, <3>4, <3>5
      <3> QED BY <3>1, <3>6 DEF Recorded
    <2>2. \A r \in Ids : /\ patches'[r].promoted = patches[r].promoted
                         /\ patches'[r].proposer = patches[r].proposer
      BY <1>4, <1>5
    <2> QED BY <1>1, <2>1, <2>2 DEF CandidateCountsItsProposer, Recorded
  <1>13. ExperimentBoundary'
    <2>1. \A r \in Ids : /\ patches'[r].promoted = patches[r].promoted
                         /\ patches'[r].proposer = patches[r].proposer
                         /\ Exists(r)' = Exists(r)
      BY <1>2, <1>4, <1>5, NullIsNoRow DEF Exists
    <2> SUFFICES ASSUME NEW r \in Ids, NEW b \in Agents,
                        Exists(r), ~patches[r].promoted, b # patches[r].proposer
                 PROVE  /\ r \notin agent'[b].todo
                        /\ \A c \in BOOLEAN : Recorded(r, b, c)' = 0
      BY <2>1 DEF ExperimentBoundary, Recorded
    <2> QED BY <1>3, <1>7, <1>8 DEF PatchesInv, ExperimentBoundary, Recorded
  <1>14. PromotedOnOwnSuccesses'
    <2> SUFFICES ASSUME NEW r \in Ids, Exists(r), patches[r].promoted
                 PROVE  \E threshold \in Thresholds :
                          outcomes'[[patch |-> r, agent |-> patches[r].proposer,
                                     success |-> TRUE]] >= threshold
      BY <1>2, <1>4, <1>5, NullIsNoRow DEF PromotedOnOwnSuccesses, Exists
    <2>1. PICK b \in Agents : b = patches[r].proposer
      BY Given DEF PatchesInv, Row
    <2>2. PICK threshold \in Thresholds : Recorded(r, b, TRUE) >= threshold
      BY <2>1 DEF PatchesInv, PromotedOnOwnSuccesses, Recorded
    <2>3. threshold \in Nat
      BY PatchesAssumption
    <2>4. PICK n \in Nat : n = Recorded(r, b, TRUE)
      BY <1>7
    <2>5. PICK d \in {0, 1} : Recorded(r, b, TRUE)' = n + d
      BY <1>7, <2>4
    <2>6. n + d >= threshold
      <3>1. n >= threshold /\ n \in Nat /\ d \in {0, 1}
        BY <2>2, <2>4, <2>5
      <3> QED BY <2>3, <3>1
    <2> QED BY <2>1, <2>5, <2>6 DEF Recorded
  <1> QED BY <1>9, <1>10, <1>11, <1>12, <1>13, <1>14 DEF PatchesInv

(* Promotion is what the invariants about successes are for.               *)
LEMMA PromoteKeeps ==
  ASSUME PatchesInv, NEW threshold \in Thresholds, PromoteEligible(threshold)
  PROVE  PatchesInv'
  <1>1. UNCHANGED <<lastId, agent, outcomes>>
    BY DEF PromoteEligible
  <1>2. /\ patches' \in [Ids -> Row \cup {None}]
        /\ \A p \in Ids :
             patches'[p] = IF Promotable(p, threshold)
                             THEN [patches[p] EXCEPT !.status = "canonical", !.promoted = TRUE]
                             ELSE patches[p]
    <2> DEFINE next(p) == IF Promotable(p, threshold)
                            THEN [patches[p] EXCEPT !.status = "canonical", !.promoted = TRUE]
                            ELSE patches[p]
    <2>1. patches' = [p \in Ids |-> next(p)]
      BY DEF PromoteEligible
    <2>2. \A p \in Ids : next(p) \in Row \cup {None}
      BY Given DEF Promotable, PatchesInv, TypeOK, Row, Status
    <2> HIDE DEF next
    <2>3. /\ patches' \in [Ids -> Row \cup {None}]
          /\ \A p \in Ids : patches'[p] = next(p)
      BY <2>1, <2>2
    <2> QED BY <2>3 DEF next
  <1>3. ASSUME NEW p \in Ids, p <= lastId
        PROVE  /\ patches[p] \in Row /\ patches'[p] \in Row
               /\ patches'[p].sig = patches[p].sig
               /\ patches'[p].proposer = patches[p].proposer
               /\ patches'[p].successes = patches[p].successes
               /\ patches[p].promoted => patches'[p].promoted
               /\ patches'[p].status = "canonical" => patches'[p].promoted
               /\ patches'[p].promoted =>
                    patches[p].promoted \/ patches[p].successes >= threshold
    BY <1>2, <1>3, Given DEF PatchesInv, CanonicalIsPromoted, Promotable, Row, Status
  <1>4. \A p \in Ids : /\ Exists(p) <=> p <= lastId
                       /\ Exists(p)' <=> p <= lastId
                       /\ ~(p <= lastId) => patches'[p] = None
    <2>1. \A p \in Ids : ~Exists(p) => patches'[p] = patches[p]
      BY <1>2 DEF Promotable
    <2> QED BY <1>3, <2>1, Given, NullIsNoRow DEF PatchesInv, Exists
  <1>5. TypeOK'
    <2>1. \A p \in Ids : patches'[p] \in IF p <= lastId THEN Row ELSE {None}
      BY <1>3, <1>4
    <2>2. \A a \in Agents : \A p \in agent[a].todo :
            p \in 1 .. lastId /\ patches'[p].sig = agent[a].sig
      BY <1>3, PatchesAssumption DEF PatchesInv, TypeOK, Ids
    <2> QED BY <1>1, <1>2, <2>1, <2>2 DEF PatchesInv, TypeOK
  <1>6. UnusedIsFresh' /\ CanonicalIsPromoted'
    BY <1>1, <1>3 DEF PatchesInv, UnusedIsFresh, CanonicalIsPromoted, Recorded
  <1>7. CandidateCountsItsProposer'
    BY <1>1, <1>3 DEF PatchesInv, CandidateCountsItsProposer, Recorded
  <1>8. ExperimentBoundary'
    BY <1>1, <1>3, <1>4 DEF PatchesInv, ExperimentBoundary
  <1>9. PromotedOnOwnSuccesses'
    <2> SUFFICES ASSUME NEW p \in Ids, p <= lastId, patches'[p].promoted
                 PROVE  \E enough \in Thresholds :
                          Recorded(p, patches[p].proposer, TRUE) >= enough
      BY <1>1, <1>3, <1>4 DEF PromotedOnOwnSuccesses, Recorded
    <2>1. CASE patches[p].promoted
      BY <1>4, <2>1 DEF PatchesInv, PromotedOnOwnSuccesses, Recorded
    <2>2. CASE ~patches[p].promoted
      BY <1>3, <2>2 DEF PatchesInv, CandidateCountsItsProposer
    <2> QED BY <2>1, <2>2
  <1> QED BY <1>5, <1>6, <1>7, <1>8, <1>9 DEF PatchesInv

LEMMA RetireKeeps ==
  ASSUME PatchesInv, NEW q \in Ids, Retire(q)
  PROVE  PatchesInv'
  <1>1. UNCHANGED <<lastId, agent, outcomes>>
    BY DEF Retire
  <1>2. q <= lastId /\ patches[q] \in Row
    BY Given DEF Retire, PatchesInv
  <1>3. /\ patches' = [patches EXCEPT ![q] = [patches[q] EXCEPT !.status = "retired"]]
        /\ [patches[q] EXCEPT !.status = "retired"] \in Row
    BY <1>2 DEF Retire, Row, Status
  <1>4. patches' \in [Ids -> Row \cup {None}]
    BY <1>3 DEF PatchesInv, TypeOK
  <1>5. ASSUME NEW p \in Ids
        PROVE  /\ Exists(p) <=> p <= lastId
               /\ Exists(p)' <=> p <= lastId
               /\ patches'[p] \in IF p <= lastId THEN Row ELSE {None}
    BY <1>2, <1>3, <1>4, Given, NullIsNoRow DEF PatchesInv, TypeOK, Exists
  <1>6. ASSUME NEW p \in Ids, p <= lastId
        PROVE  /\ patches'[p].sig = patches[p].sig
               /\ patches'[p].proposer = patches[p].proposer
               /\ patches'[p].successes = patches[p].successes
               /\ patches'[p].promoted = patches[p].promoted
               /\ patches'[p].status \in {patches[p].status, "retired"}
    BY <1>2, <1>3 DEF PatchesInv, TypeOK, Row
  <1>7. TypeOK'
    <2>1. \A a \in Agents : \A p \in agent[a].todo :
            p \in 1 .. lastId /\ patches'[p].sig = agent[a].sig
      BY <1>6, PatchesAssumption DEF PatchesInv, TypeOK, Ids
    <2> QED BY <1>1, <1>4, <1>5, <2>1 DEF PatchesInv, TypeOK
  <1>8. UnusedIsFresh' /\ CanonicalIsPromoted' /\ CandidateCountsItsProposer'
    BY <1>1, <1>6
       DEF PatchesInv, UnusedIsFresh, CanonicalIsPromoted, CandidateCountsItsProposer, Recorded
  <1>9. ExperimentBoundary' /\ PromotedOnOwnSuccesses'
    BY <1>1, <1>5, <1>6 DEF PatchesInv, ExperimentBoundary, PromotedOnOwnSuccesses
  <1> QED BY <1>7, <1>8, <1>9 DEF PatchesInv

LEMMA AbandonKeeps ==
  ASSUME PatchesInv, NEW a \in Agents, Abandon(a)
  PROVE  PatchesInv'
  <1>1. UNCHANGED <<patches, lastId, outcomes>>
    BY DEF Abandon
  <1>2. /\ DOMAIN agent' = Agents
        /\ \A b \in Agents : agent'[b] = agent[b] \/ agent'[b] = Resting
    BY DEF Abandon, PatchesInv, TypeOK
  <1>3. Resting.todo = {}
    BY DEF Resting
  <1>4. TypeOK' /\ ExperimentBoundary'
    BY <1>1, <1>2, <1>3 DEF PatchesInv, TypeOK, ExperimentBoundary, Exists
  <1> QED BY <1>1, <1>4
          DEF PatchesInv, UnusedIsFresh, CanonicalIsPromoted, CandidateCountsItsProposer,
              PromotedOnOwnSuccesses, Recorded, Exists

LEMMA PatchesInvPreserved ==
  ASSUME PatchesInv, [Next]_vars PROVE PatchesInv'
  <1>1. CASE UNCHANGED vars
    BY <1>1 DEF vars, PatchesInv, TypeOK, UnusedIsFresh, CanonicalIsPromoted,
       CandidateCountsItsProposer, ExperimentBoundary, PromotedOnOwnSuccesses,
       Recorded, Exists
  <1>2. ASSUME NEW a \in Agents, AgentStep(a) PROVE PatchesInv'
    BY <1>2, ProposeKeeps, FindKeeps, RecordKeeps, AbandonKeeps DEF AgentStep
  <1>3. ASSUME NEW threshold \in Thresholds, PromoteEligible(threshold) PROVE PatchesInv'
    BY <1>3, PromoteKeeps
  <1>4. ASSUME NEW p \in Ids, Retire(p) PROVE PatchesInv'
    BY <1>4, RetireKeeps
  <1> QED BY <1>1, <1>2, <1>3, <1>4 DEF Next

-----------------------------------------------------------------------------
(* Rows are what the schema declares, and an agent only holds patches that *)
(* have a row, of the signature of its task.                               *)
THEOREM PatchesTyped == Spec => []TypeOK
  <1>1. PatchesInv => TypeOK
    BY DEF PatchesInv
  <1> QED BY <1>1, InitPatches, PatchesInvPreserved, PTL DEF Spec

(* A candidate is applied by its proposer alone, and credited by nobody    *)
(* else, with however many promoters and operators beside.                 *)
THEOREM Boundary == Spec => []ExperimentBoundary
  <1>1. PatchesInv => ExperimentBoundary
    BY DEF PatchesInv
  <1> QED BY <1>1, InitPatches, PatchesInvPreserved, PTL DEF Spec

(* A patch is promoted on the successes of its proposer, some promoter's   *)
(* threshold of them at least.                                             *)
THEOREM EarnedPromotion == Spec => []PromotedOnOwnSuccesses
  <1>1. PatchesInv => PromotedOnOwnSuccesses
    BY DEF PatchesInv
  <1> QED BY <1>1, InitPatches, PatchesInvPreserved, PTL DEF Spec

(* Nothing brings a retired patch back: neither a promoter that comes late *)
(* nor an outcome recorded late.                                           *)
THEOREM Final == Spec => RetiredIsFinal
  <1>1. ASSUME PatchesInv, [Next]_vars, NEW p \in Ids, Exists(p),
               patches[p].status = "retired"
        PROVE  patches'[p].status = "retired"
    <2>1. p <= lastId /\ patches[p] \in Row
      BY <1>1, Given DEF PatchesInv
    <2>2. ASSUME NEW a \in Agents, NEW s \in Signatures, NEW tr \in Transformers,
                 Propose(a, s, tr)
          PROVE  patches'[p] = patches[p]
      <3>1. PICK row : patches' = [patches EXCEPT ![lastId'] = row]
        BY <2>2 DEF Propose
      <3>2. lastId' = lastId + 1 /\ lastId \in Nat
        BY <1>1, <2>2 DEF Propose, PatchesInv, TypeOK
      <3>3. p # lastId'
        BY <2>1, <3>2 DEF Ids
      <3> QED BY <1>1, <3>1, <3>3 DEF PatchesInv, TypeOK
    <2>3. ASSUME NEW a \in Agents, NEW q \in Ids, NEW success \in BOOLEAN,
                 RecordOutcome(a, q, success)
          PROVE  patches'[p].status = patches[p].status
      BY <2>1, <2>3 DEF RecordOutcome, Counted, Row, PatchesInv, TypeOK
    <2>4. ASSUME NEW threshold \in Thresholds, PromoteEligible(threshold)
          PROVE  patches'[p] = patches[p]
      BY <1>1, <2>4 DEF PromoteEligible, Promotable
    <2>5. ASSUME NEW q \in Ids, Retire(q)
          PROVE  patches'[p].status = "retired"
      BY <1>1, <2>1, <2>5 DEF Retire, Row, PatchesInv, TypeOK
    <2> QED BY <1>1, <2>2, <2>3, <2>4, <2>5
            DEF Next, AgentStep, FindApplicable, Abandon, vars
  <1>2. PatchesInv /\ [Next]_vars =>
          [\A p \in Ids : Exists(p) /\ patches[p].status = "retired"
             => patches'[p].status = "retired"]_vars
    BY <1>1
  <1> QED BY <1>2, InitPatches, PatchesInvPreserved, PTL DEF Spec, RetiredIsFinal
-----------------------------------------------------------------------------
(* What transformers do to payloads.  The theorems below are about typed   *)
(* ones: lengths and limits are numbers, a list has a sequence of items.   *)

TypedPayload(x) ==
  \A k \in DOMAIN x : /\ IsText(x[k]) => x[k].len \in Nat
                      /\ Is("list", x[k]) => \E S : x[k].items \in Seq(S)

TypedTransformer(tr) ==
  tr.args # None =>
    \A k \in DOMAIN tr.args : /\ IsText(tr.args[k]) => tr.args[k].len \in Nat
                              /\ Is("number", tr.args[k]) => tr.args[k].n \in Int

(* None is neither a payload, nor a dict that was assigned to, nor a list. *)
NullIsNoPayload ==
  /\ None \notin Inputs
  /\ \A x, k, v : Set(x, k, v) # None
  /\ \A items : List(items) # None

LEMMA Assigned ==
  \A x, k, v : /\ Get(Set(x, k, v), k) = v
               /\ \A j : j # k => Get(Set(x, k, v), j) = Get(x, j)
  BY DEF Set, Get

LEMMA TypedAssignment ==
  ASSUME NEW x, TypedPayload(x), NEW k, NEW v, IsText(v) => v.len \in Nat,
         Is("list", v) => \E S : v.items \in Seq(S)
  PROVE  TypedPayload(Set(x, k, v))
  <1> DEFINE y == Set(x, k, v)
  <1>1. /\ DOMAIN y = DOMAIN x \cup {k} /\ y[k] = v
        /\ \A j \in DOMAIN x : j # k => y[j] = x[j]
    BY DEF Set
  <1> HIDE DEF y
  <1>2. TypedPayload(y)
    BY <1>1 DEF TypedPayload
  <1> QED BY <1>2 DEF y

(* A well-formed transformer names what it needs.                          *)
LEMMA Arguments ==
  ASSUME NEW tr, WellFormed(tr)
  PROVE  /\ tr.args # None
         /\ tr.kind = "prepend_system_msg" =>
              "text" \in DOMAIN tr.args /\ IsText(tr.args["text"])
         /\ tr.kind = "truncate_field" =>
              /\ "max_chars" \in DOMAIN tr.args /\ Is("number", tr.args["max_chars"])
              /\ tr.args["max_chars"].n >= 0
         /\ tr.kind = "swap_model" => "to" \in DOMAIN tr.args /\ IsText(tr.args["to"])
         /\ tr.kind \in KnownKinds
  BY DEF WellFormed, Get, IsText, Is, KnownKinds

(* It changes nothing, or one field.                                       *)
LEMMA OneField ==
  ASSUME NEW x, NEW tr, WellFormed(tr)
  PROVE  Transformed(x, tr) = x \/ \E k, v : Transformed(x, tr) = Set(x, k, v)
  BY Arguments DEF Transformed, Prepended, Truncated, KnownKinds

(* Prepending to a conversation puts the new message first.                *)
LEMMA PutFirst ==
  ASSUME NEW S, NEW s \in Seq(S), NEW e
  PROVE  <<e>> \o s \in Seq(S \cup {e}) /\ Head(<<e>> \o s) = e
  <1>1. <<e>> \in Seq(S \cup {e}) /\ s \in Seq(S \cup {e}) /\ Len(<<e>>) = 1 /\ <<e>>[1] = e
    OBVIOUS
  <1>2. <<e>> \o s \in Seq(S \cup {e}) /\ Len(<<e>> \o s) = 1 + Len(s)
    BY <1>1
  <1>3. (<<e>> \o s)[1] = <<e>>[1]
    BY <1>1
  <1>4. Head(<<e>> \o s) = (<<e>> \o s)[1]
    BY <1>2
  <1> QED BY <1>1, <1>2, <1>3, <1>4

(* What a transformer yields is typed again, and shows what it is for.     *)
LEMMA TransformedShows ==
  ASSUME NullIsNoPayload, NEW x, TypedPayload(x), NEW tr, WellFormed(tr), TypedTransformer(tr)
  PROVE  TypedPayload(Transformed(x, tr)) /\ InEffect(tr, Transformed(x, tr))
  <1> DEFINE y == Transformed(x, tr)
  <1>1. /\ tr.args # None /\ tr.kind \in KnownKinds
        /\ \A k \in DOMAIN tr.args : /\ IsText(tr.args[k]) => tr.args[k].len \in Nat
                                     /\ Is("number", tr.args[k]) => tr.args[k].n \in Int
    BY Arguments DEF TypedTransformer
  <1>2. ASSUME NEW k, NEW v, y = Set(x, k, v), IsText(v) => v.len \in Nat,
               Is("list", v) => \E S : v.items \in Seq(S)
        PROVE  TypedPayload(y)
    BY <1>2, TypedAssignment
  <1>3. \A v : IsText(v) => ~Is("list", v)
    BY DEF IsText, Is
  <1>4. CASE tr.kind = "prepend_system_msg"
    <2> DEFINE messages == Get(x, "messages")
               text == tr.args["text"]
               longer == List(<<SystemMessage(text)>> \o messages.items)
    <2>1. IsText(text) /\ text.len \in Nat
      BY <1>1, <1>4, Arguments
    <2>2. CASE Is("list", messages)
      <3>1. y = Set(x, "messages", longer)
        BY <1>4, <2>2 DEF Transformed, Prepended
      <3>2. PICK S : messages.items \in Seq(S)
        BY <2>2 DEF Get, Is, TypedPayload
      <3> DEFINE items == <<SystemMessage(text)>> \o messages.items
      <3>3. items \in Seq(S \cup {SystemMessage(text)}) /\ Head(items) = SystemMessage(text)
        BY <3>2, PutFirst
      <3>4. longer.kind = "list" /\ longer.items = items
        BY DEF List
      <3>5. ~IsText(longer) /\ Is("list", longer)
        BY <3>4 DEF IsText, Is, NullIsNoPayload
      <3> HIDE DEF items, longer, y
      <3>6. TypedPayload(y)
        BY <1>2, <3>1, <3>3, <3>4, <3>5
      <3>7. y["messages"] = longer /\ Get(y, "messages") = longer
        BY <3>1, Assigned DEF Set
      <3>8. InEffect(tr, y)
        BY <1>4, <3>3, <3>4, <3>5, <3>7 DEF InEffect
      <3> QED BY <3>6, <3>8 DEF y
    <2>3. CASE ~Is("list", messages)
      <3>1. y = Set(x, "system_prompt", text)
        BY <1>4, <2>3 DEF Transformed, Prepended
      <3> HIDE DEF y
      <3>2. TypedPayload(y)
        BY <1>2, <1>3, <2>1, <3>1
      <3>3. Get(y, "messages") = messages /\ Get(y, "system_prompt") = text
        BY <3>1, Assigned
      <3>4. InEffect(tr, y)
        BY <1>4, <2>3, <3>3 DEF InEffect
      <3> QED BY <3>2, <3>4 DEF y
    <2> QED BY <2>2, <2>3
  <1>5. CASE tr.kind = "truncate_field"
    <2> DEFINE field == tr.args["field"].of
               max == tr.args["max_chars"].n
               v == Get(x, field)
    <2>1. max \in Nat
      <3>1. max \in Int /\ max >= 0
        BY <1>1, <1>5, Arguments
      <3> HIDE DEF max
      <3> QED BY <3>1
    <2>2. IsText(v) => v.len \in Nat
      BY DEF Get, IsText, Is, TypedPayload
    <2>3. y = IF IsText(v) /\ v.len > max THEN Set(x, field, Text(v.of, max)) ELSE x
      BY <1>5 DEF Transformed, Truncated
    <2>4. InEffect(tr, y) <=> (IsText(Get(y, field)) => Get(y, field).len <= max)
      BY <1>5 DEF InEffect
    <2> HIDE DEF y, max, field, v
    <2>5. CASE IsText(v) /\ v.len > max
      <3>1. y = Set(x, field, Text(v.of, max)) /\ Text(v.of, max).len = max
            /\ ~Is("list", Text(v.of, max))
        BY <2>3, <2>5 DEF Text, Is
      <3>2. Get(y, field) = Text(v.of, max)
        BY <3>1, Assigned
      <3> QED BY <1>2, <2>1, <2>4, <3>1, <3>2 DEF y
    <2>6. CASE ~(IsText(v) /\ v.len > max)
      <3>1. y = x /\ (IsText(v) => v.len <= max)
        BY <2>1, <2>2, <2>3, <2>6
      <3> QED BY <2>4, <3>1 DEF v, y
    <2> QED BY <2>5, <2>6
  <1>6. CASE tr.kind = "swap_model"
    <2> DEFINE to == tr.args["to"]
    <2>1. IsText(to) /\ to.len \in Nat
      BY <1>1, <1>6, Arguments
    <2>2. y = Set(x, "model", to)
      BY <1>6 DEF Transformed
    <2>3. InEffect(tr, y) <=> Get(y, "model") = to
      BY <1>6 DEF InEffect
    <2> HIDE DEF y, to
    <2> QED BY <1>2, <1>3, <2>1, <2>2, <2>3, Assigned DEF y
  <1> QED BY <1>1, <1>4, <1>5, <1>6 DEF KnownKinds
-----------------------------------------------------------------------------
(* What agents make of them *)

LEMMA LeastNatural ==
  ASSUME NEW S, S \subseteq Nat, S # {} PROVE \E x \in S : \A y \in S : x <= y
  <1> DEFINE R == OpToRel(<, Nat)
  <1>1. IsWellFoundedOn(R, Nat)
    BY NatLessThanWellFounded
  <1>2. \A x, y \in Nat : x < y => <<x, y>> \in R
    BY DEF OpToRel
  <1> HIDE DEF R
  <1>3. PICK x \in S : \A y \in S : ~(<<y, x>> \in R)
    BY <1>1, WFMin
  <1>4. \A y \in S : ~(y < x)
    BY <1>2, <1>3
  <1>5. \A y \in S : x <= y
    BY <1>4
  <1> QED BY <1>5

(* The payload after the first n patches of an order, for every n          *)
LEMMA StepByStep ==
  ASSUME NEW order, Len(order) \in Nat, NEW input
  PROVE  \E f : /\ Compose(input, order) = f[Len(order)] /\ f[0] = input
                /\ \A n \in 1 .. Len(order) :
                     f[n] = ApplyTransformer(f[n - 1], patches[order[n]].transformer)
  <1> DEFINE next(n, x) == ApplyTransformer(x, patches[order[n]].transformer)
             Made(m, g) == g = [n \in 0 .. m |-> IF n = 0 THEN input ELSE next(n, g[n - 1])]
             unmade == {m \in Nat : ~\E g : Made(m, g)}
  <1> HIDE DEF next
  <1>1. unmade = {}
    <2> SUFFICES ASSUME unmade # {} PROVE FALSE
      OBVIOUS
    <2>1. PICK m \in unmade : \A k \in unmade : m <= k
      BY LeastNatural
    <2>2. CASE m = 0
      <3>1. Made(m, [n \in 0 .. m |-> input])
        BY <2>2
      <3> QED BY <2>1, <3>1
    <2>3. CASE m # 0
      <3>1. m - 1 \in Nat /\ m - 1 \notin unmade
        BY <2>1, <2>3
      <3>2. PICK g : Made(m - 1, g)
        BY <3>1
      <3> DEFINE h == [n \in 0 .. m |-> IF n = m THEN next(m, g[m - 1]) ELSE g[n]]
      <3>3. \A n \in 0 .. m : h[n] = IF n = 0 THEN input ELSE next(n, h[n - 1])
        <4> TAKE n \in 0 .. m
        <4>1. CASE n = m
          BY <2>3, <3>1, <4>1
        <4>2. CASE n # m
          <5>1. n \in 0 .. m - 1 /\ (n # 0 => n - 1 \in 0 .. m /\ n - 1 # m)
            BY <2>1, <4>2
          <5>2. g[n] = IF n = 0 THEN input ELSE next(n, g[n - 1])
            BY <3>2, <5>1
          <5> QED BY <4>2, <5>1, <5>2
        <4> QED BY <4>1, <4>2
      <3>4. Made(m, h)
        BY <3>3
      <3> QED BY <2>1, <3>4
    <2> QED BY <2>2, <2>3
  <1>2. PICK g : Made(Len(order), g)
    BY <1>1
  <1> DEFINE f == CHOOSE g2 : Made(Len(order), g2)
  <1>3. Made(Len(order), f)
    BY <1>2
  <1>4. Compose(input, order) = f[Len(order)]
    BY DEF Compose, next
  <1> HIDE DEF f
  <1>5. f[0] = input /\ \A n \in 1 .. Len(order) : f[n] = next(n, f[n - 1])
    BY <1>3
  <1> QED BY <1>4, <1>5 DEF next

(* An order puts candidates last, so that the candidate on trial is        *)
(* applied when nothing is left that could undo it.                        *)
LEMMA ComposeShows ==
  ASSUME NullIsNoPayload, NEW input, TypedPayload(input),
         NEW found, NEW order \in SetToSeqs(found), ApplyOrder(order), IsFiniteSet(found),
         \A p \in found : /\ patches[p].status \in {"canonical", "candidate"}
                          /\ WellFormed(patches[p].transformer)
                          /\ TypedTransformer(patches[p].transformer),
         Trial(order) # None
  PROVE  /\ Trial(order) \in found
         /\ InEffect(patches[Trial(order)].transformer, Compose(input, order))
  <1> DEFINE N == Len(order)
             candidates == {i \in DOMAIN order : patches[order[i]].status = "candidate"}
  <1>1. N \in Nat /\ DOMAIN order = 1 .. N /\ \A i \in 1 .. N : order[i] \in found
    <2>1. Cardinality(found) \in Nat
      BY FS_CardinalityType
    <2>2. order \in [1 .. Cardinality(found) -> found]
      BY DEF SetToSeqs
    <2> QED BY <2>1, <2>2
  <1>2. candidates # {} /\ Trial(order) = order[Max(candidates)]
    BY DEF Trial
  <1>3. PICK i \in candidates : TRUE
    BY <1>2
  <1>4. N \in candidates /\ N >= 1
    <2>1. i \in 1 .. N /\ N \in 1 .. N
      BY <1>1, <1>3
    <2>2. i # N => patches[order[N]].status # "canonical"
      BY <1>1, <1>3, <2>1 DEF ApplyOrder
    <2>3. patches[order[N]].status \in {"canonical", "candidate"}
      BY <1>1, <2>1
    <2> QED BY <1>1, <1>3, <2>1, <2>2, <2>3
  <1>5. Max(candidates) = N
    <2>1. \A j \in candidates : j \in Nat /\ j <= N
      BY <1>1
    <2> HIDE DEF candidates, N
    <2>2. N \in candidates /\ N \in Nat /\ \A j \in candidates : N >= j
      BY <1>1, <1>4, <2>1
    <2>3. \A j \in candidates : (\A k \in candidates : j >= k) => j = N
      BY <2>1, <2>2
    <2> QED BY <2>2, <2>3 DEF Max
  <1> HIDE DEF candidates
  <1>6. PICK f : /\ Compose(input, order) = f[N] /\ f[0] = input
                 /\ \A n \in 1 .. N :
                      f[n] = ApplyTransformer(f[n - 1], patches[order[n]].transformer)
    BY <1>1, StepByStep
  <1> HIDE DEF N
  <1>7. ASSUME NEW n \in 1 .. N, TypedPayload(f[n - 1])
        PROVE  TypedPayload(f[n]) /\ InEffect(patches[order[n]].transformer, f[n])
    <2>1. WellFormed(patches[order[n]].transformer) /\ TypedTransformer(patches[order[n]].transformer)
      BY <1>1
    <2>2. f[n] = Transformed(f[n - 1], patches[order[n]].transformer)
      BY <1>6, <2>1 DEF ApplyTransformer
    <2> QED BY <1>7, <2>1, <2>2, TransformedShows
  <1>8. \A n \in 0 .. N : TypedPayload(f[n])
    <2> DEFINE untyped == {n \in 0 .. N : ~TypedPayload(f[n])}
    <2> SUFFICES ASSUME untyped # {} PROVE FALSE
      OBVIOUS
    <2>1. untyped \subseteq Nat
      BY <1>1
    <2>2. PICK n \in untyped : \A k \in untyped : n <= k
      BY <2>1, LeastNatural
    <2>3. n # 0
      BY <1>6, <2>2
    <2>4. n \in 1 .. N /\ n - 1 \in 0 .. N /\ n - 1 \notin untyped
      BY <1>1, <2>2, <2>3
    <2> QED BY <1>7, <2>2, <2>4
  <1>9. N \in 1 .. N /\ N - 1 \in 0 .. N
    BY <1>1, <1>4
  <1>10. InEffect(patches[order[N]].transformer, f[N])
    BY <1>7, <1>8, <1>9
  <1> QED BY <1>1, <1>2, <1>5, <1>6, <1>9, <1>10
-----------------------------------------------------------------------------
(* What propose lets in stays as it is, and shows in the payload of an     *)
(* agent that tries it.                                                    *)

WellFormedRows == \A p \in Ids : Exists(p) => WellFormed(patches[p].transformer)

TrialShows(a) ==
  agent[a].trial # None =>
    /\ agent[a].trial \in Ids /\ Exists(agent[a].trial)
    /\ InEffect(patches[agent[a].trial].transformer, agent[a].used)

ExperimentInv == PatchesInv /\ WellFormedRows /\ \A a \in Agents : TrialShows(a)

(* A transformer is never changed, and a new one was tried.                *)
LEMMA RowsStay ==
  ASSUME PatchesInv, WellFormedRows, [Next]_vars, NEW p \in Ids
  PROVE  /\ Exists(p) => Exists(p)' /\ patches'[p].transformer = patches[p].transformer
         /\ Exists(p)' => WellFormed(patches'[p].transformer)
  <1>1. CASE Exists(p)
    <2>1. p <= lastId /\ patches[p] \in Row
      BY <1>1, Given DEF PatchesInv
    <2>2. patches'[p].transformer = patches[p].transformer
      <3>1. ASSUME NEW a \in Agents, NEW s \in Signatures, NEW tr \in Transformers,
                   Propose(a, s, tr)
            PROVE  patches'[p] = patches[p]
        <4>1. PICK row : patches' = [patches EXCEPT ![lastId'] = row]
          BY <3>1 DEF Propose
        <4>2. p # lastId'
          BY <2>1, <3>1 DEF Propose, PatchesInv, TypeOK, Ids
        <4> QED BY <4>1, <4>2 DEF PatchesInv, TypeOK
      <3>2. ASSUME NEW a \in Agents, NEW q \in Ids, NEW success \in BOOLEAN,
                   RecordOutcome(a, q, success)
            PROVE  patches'[p].transformer = patches[p].transformer
        BY <2>1, <3>2 DEF RecordOutcome, Counted, Row, PatchesInv, TypeOK
      <3>3. ASSUME NEW threshold \in Thresholds, PromoteEligible(threshold)
            PROVE  patches'[p].transformer = patches[p].transformer
        BY <2>1, <3>3 DEF PromoteEligible, Row
      <3>4. ASSUME NEW q \in Ids, Retire(q)
            PROVE  patches'[p].transformer = patches[p].transformer
        BY <2>1, <3>4 DEF Retire, Row, PatchesInv, TypeOK
      <3> QED BY <3>1, <3>2, <3>3, <3>4 DEF Next, AgentStep, FindApplicable, Abandon, vars
    <2>3. Exists(p)'
      <3>1. PatchesInv'
        BY PatchesInvPreserved
      <3>2. lastId' \in {lastId, lastId + 1}
        BY DEF Next, AgentStep, Propose, FindApplicable, RecordOutcome, Abandon,
               PromoteEligible, Retire, vars
      <3>3. patches'[p] \in IF p <= lastId' THEN Row ELSE {None}
        BY <3>1 DEF PatchesInv, TypeOK
      <3>4. lastId \in Nat
        BY DEF PatchesInv, TypeOK
      <3> QED BY <2>1, <3>2, <3>3, <3>4, NullIsNoRow DEF Exists, Ids
    <2> QED BY <1>1, <2>2, <2>3 DEF WellFormedRows
  <1>2. CASE ~Exists(p)
    <2> SUFFICES ASSUME Exists(p)' PROVE WellFormed(patches'[p].transformer)
      BY <1>2
    <2>1. ASSUME NEW a \in Agents, NEW s \in Signatures, NEW tr \in Transformers,
                 Propose(a, s, tr)
          PROVE  WellFormed(patches'[p].transformer)
      <3> DEFINE row == [sig |-> s, transformer |-> tr, status |-> "candidate", successes |-> 0,
                         failures |-> 0, proposer |-> a, promoted |-> FALSE]
      <3>1. patches' = [patches EXCEPT ![lastId'] = row] /\ row.transformer = tr
        BY <2>1 DEF Propose
      <3> HIDE DEF row
      <3>2. p = lastId'
        BY <1>2, <3>1 DEF PatchesInv, TypeOK, Exists
      <3>3. WellFormed(tr)
        BY <2>1 DEF Propose, ApplyTransformer
      <3> QED BY <3>1, <3>2, <3>3 DEF PatchesInv, TypeOK
    <2>2. ASSUME NEW a \in Agents, NEW q \in Ids, NEW success \in BOOLEAN,
                 RecordOutcome(a, q, success)
          PROVE  UNCHANGED patches[p]
      <3>1. q \in 1 .. lastId
        BY <2>2 DEF RecordOutcome, PatchesInv, TypeOK
      <3>2. q # p
        BY <1>2, <3>1, Given DEF PatchesInv, TypeOK
      <3> QED BY <2>2, <3>2 DEF RecordOutcome, PatchesInv, TypeOK
    <2>3. ASSUME NEW threshold \in Thresholds, PromoteEligible(threshold)
          PROVE  UNCHANGED patches[p]
      BY <1>2, <2>3 DEF PromoteEligible, Promotable
    <2>4. ASSUME NEW q \in Ids, Retire(q)
          PROVE  UNCHANGED patches[p]
      BY <1>2, <2>4 DEF Retire, PatchesInv, TypeOK
    <2>5. ASSUME UNCHANGED patches[p] PROVE FALSE
      BY <1>2, <2>5 DEF Exists
    <2> QED BY <2>1, <2>2, <2>3, <2>4, <2>5
            DEF Next, AgentStep, FindApplicable, Abandon, vars
  <1> QED BY <1>1, <1>2

LEMMA WellFormedKept ==
  ASSUME PatchesInv, WellFormedRows, [Next]_vars
  PROVE  WellFormedRows'
  BY RowsStay DEF WellFormedRows

LEMMA TrialKept ==
  ASSUME NullIsNoPayload, \A x \in Inputs : TypedPayload(x),
         \A tr \in Transformers : TypedTransformer(tr), ExperimentInv, [Next]_vars,
         NEW a \in Agents
  PROVE  TrialShows(a)'
  <1>1. /\ \A p \in Ids : Exists(p) =>
             Exists(p)' /\ patches'[p].transformer = patches[p].transformer
        /\ DOMAIN agent = Agents
    BY RowsStay DEF ExperimentInv, PatchesInv, TypeOK
  <1>2. ASSUME agent'[a].trial = agent[a].trial, agent'[a].used = agent[a].used
        PROVE  TrialShows(a)'
    BY <1>1, <1>2 DEF ExperimentInv, TrialShows
  <1>3. ASSUME agent'[a] = Resting PROVE TrialShows(a)'
    BY <1>3 DEF TrialShows, Resting
  <1>4. ASSUME NEW s \in Signatures, NEW input \in Inputs, FindApplicable(a, s, input)
        PROVE  TrialShows(a)'
    <2> DEFINE found == {p \in Ids : Applicable(p, s, a)}
    <2>1. PICK order \in SetToSeqs(found) :
            /\ ApplyOrder(order)
            /\ agent' = [agent EXCEPT ![a] = [sig |-> s, todo |-> found,
                            used |-> Compose(input, order), trial |-> Trial(order)]]
      BY <1>4 DEF FindApplicable
    <2>2. /\ agent'[a].used = Compose(input, order) /\ agent'[a].trial = Trial(order)
          /\ UNCHANGED patches
      BY <1>1, <1>4, <2>1 DEF FindApplicable
    <2>3. IsFiniteSet(found)
      <3>1. found \subseteq 1 .. MaxPatches /\ 1 \in Int /\ MaxPatches \in Int
        BY PatchesAssumption DEF Ids
      <3>2. IsFiniteSet(1 .. MaxPatches)
        BY <3>1, FS_Interval
      <3> QED BY <3>1, <3>2, FS_Subset
    <2>4. \A p \in found : /\ p \in Ids /\ Exists(p)
                           /\ patches[p].status \in {"canonical", "candidate"}
                           /\ WellFormed(patches[p].transformer)
                           /\ TypedTransformer(patches[p].transformer)
      <3> TAKE p \in found
      <3>1. p \in Ids /\ Exists(p) /\ patches[p].status \in {"canonical", "candidate"}
        BY DEF Applicable
      <3>2. patches[p].transformer \in Transformers
        BY <3>1, Given DEF ExperimentInv, PatchesInv, Row
      <3> QED BY <3>1, <3>2 DEF ExperimentInv, WellFormedRows
    <2>5. TypedPayload(input)
      OBVIOUS
    <2> HIDE DEF found
    <2>6. Trial(order) # None =>
            /\ Trial(order) \in found
            /\ InEffect(patches[Trial(order)].transformer, Compose(input, order))
      BY <2>1, <2>3, <2>4, <2>5, ComposeShows
    <2> QED BY <2>2, <2>4, <2>6 DEF TrialShows, Exists
  <1>5. ASSUME NEW b \in Agents, AgentStep(b) PROVE TrialShows(a)'
    <2>1. CASE b # a
      <3>1. agent'[a] = agent[a]
        BY <1>1, <1>5, <2>1 DEF AgentStep, Propose, FindApplicable, RecordOutcome, Abandon
      <3> QED BY <1>2, <3>1
    <2>2. CASE b = a
      <3>1. ASSUME NEW s \in Signatures, NEW tr \in Transformers, Propose(b, s, tr)
            PROVE  TrialShows(a)'
        BY <1>2, <3>1 DEF Propose
      <3>2. ASSUME NEW p \in Ids, NEW success \in BOOLEAN, RecordOutcome(b, p, success)
            PROVE  TrialShows(a)'
        <4>1. agent'[a] = Recording(agent[a], p)
          BY <1>1, <2>2, <3>2 DEF RecordOutcome
        <4>2. CASE agent[a].todo = {p}
          BY <1>3, <4>1, <4>2 DEF Recording
        <4>3. CASE agent[a].todo # {p}
          <5>1. agent'[a] = [agent[a] EXCEPT !.todo = agent[a].todo \ {p}]
            BY <4>1, <4>3 DEF Recording
          <5>2. DOMAIN agent[a] = DOMAIN Resting
            BY DEF ExperimentInv, PatchesInv, TypeOK
          <5> QED BY <1>2, <5>1, <5>2 DEF Resting
        <4> QED BY <4>2, <4>3
      <3>3. CASE Abandon(b)
        BY <1>1, <1>3, <2>2, <3>3 DEF Abandon
      <3> QED BY <1>4, <1>5, <2>2, <3>1, <3>2, <3>3 DEF AgentStep
    <2> QED BY <2>1, <2>2
  <1>6. CASE UNCHANGED agent
    BY <1>2, <1>6
  <1> QED BY <1>5, <1>6 DEF Next, PromoteEligible, Retire, vars

(* A malformed patch never gets into the table: what is there raises on no *)
(* payload and touches at most one field, although it was tried on an      *)
(* empty payload only.                                                     *)
THEOREM NothingPoisoned ==
  ASSUME NullIsNoPayload
  PROVE  Spec => []NoPoisonedRow
  <1> DEFINE Inv == PatchesInv /\ WellFormedRows
  <1>1. Init => Inv
    <2>1. Init => WellFormedRows
      BY DEF Init, WellFormedRows, Exists
    <2> QED BY <2>1, InitPatches
  <1>2. Inv /\ [Next]_vars => Inv'
    BY PatchesInvPreserved, WellFormedKept
  <1>3. Inv => NoPoisonedRow
    <2> SUFFICES ASSUME Inv, NEW p \in Ids, Exists(p),
                        NEW x \in Inputs \cup ({agent[a].used : a \in Agents} \ {None})
                 PROVE  LET y    == ApplyTransformer(x, patches[p].transformer)
                            diff == PayloadDiff(y, x)
                        IN  /\ y # None /\ diff.removed = {}
                            /\ Cardinality(diff.new \cup diff.changed) <= 1
      BY DEF NoPoisonedRow
    <2> DEFINE tr == patches[p].transformer
               y  == ApplyTransformer(x, tr)
    <2>1. WellFormed(tr) /\ y = Transformed(x, tr) /\ x # None
      BY DEF WellFormedRows, ApplyTransformer, NullIsNoPayload
    <2> HIDE DEF y
    <2>2. CASE y = x
      <3>1. /\ PayloadDiff(y, x).new = {} /\ PayloadDiff(y, x).removed = {}
            /\ PayloadDiff(y, x).changed = {}
        BY <2>2 DEF PayloadDiff
      <3> QED BY <2>1, <2>2, <3>1, FS_EmptySet DEF y
    <2>3. CASE \E k, v : y = Set(x, k, v)
      <3>1. PICK k, v : y = Set(x, k, v)
        BY <2>3
      <3>2. /\ DOMAIN y = DOMAIN x \cup {k}
            /\ \A j \in DOMAIN x : j # k => y[j] = x[j]
        BY <3>1 DEF Set
      <3>3. /\ PayloadDiff(y, x).removed = {}
            /\ PayloadDiff(y, x).new \cup PayloadDiff(y, x).changed \subseteq {k}
        BY <3>2 DEF PayloadDiff
      <3>4. \A S : S \subseteq {k} => Cardinality(S) <= 1
        <4> TAKE S
        <4> HAVE S \subseteq {k}
        <4>1. S = {} \/ S = {k}
          OBVIOUS
        <4> QED BY <4>1, FS_EmptySet, FS_Singleton
      <3>5. y # None
        BY <3>1 DEF NullIsNoPayload
      <3> QED BY <3>3, <3>4, <3>5 DEF y
    <2> QED BY <2>1, <2>2, <2>3, OneField
  <1> QED BY <1>1, <1>2, <1>3, PTL DEF Spec

(* Whatever an agent composes, the candidate it applied last shows in the  *)
(* payload it works with.                                                  *)
THEOREM TrialInEffect ==
  ASSUME NullIsNoPayload, \A x \in Inputs : TypedPayload(x),
         \A tr \in Transformers : TypedTransformer(tr)
  PROVE  Spec => []ExperimentInEffect
  <1>1. Init => ExperimentInv
    <2>1. Init => WellFormedRows /\ \A a \in Agents : TrialShows(a)
      BY DEF Init, WellFormedRows, Exists, TrialShows, Resting
    <2> QED BY <2>1, InitPatches DEF ExperimentInv
  <1>2. ExperimentInv /\ [Next]_vars => ExperimentInv'
    <2> SUFFICES ASSUME ExperimentInv, [Next]_vars PROVE ExperimentInv'
      OBVIOUS
    <2>1. PatchesInv' /\ WellFormedRows'
      BY PatchesInvPreserved, WellFormedKept DEF ExperimentInv
    <2>2. \A a \in Agents : TrialShows(a)'
      BY TrialKept
    <2> QED BY <2>1, <2>2 DEF ExperimentInv
  <1>3. ExperimentInv => ExperimentInEffect
    BY DEF ExperimentInv, ExperimentInEffect, TrialShows
  <1> QED BY <1>1, <1>2, <1>3, PTL DEF Spec
=============================================================================
