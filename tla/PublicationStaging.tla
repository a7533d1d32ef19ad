------------------------ MODULE PublicationStaging -------------------------
(***************************************************************************)
(* The durable frontier of a publication in several native objects         *)
(* (src/src/review_sensei/publication_staging.py, PublicationStaging).     *)
(*                                                                         *)
(* The frontier says which objects have been attempted, each with the      *)
(* random token of its claim, and which of them are confirmed, each with   *)
(* the receipt of a read-back.  attempted_parts is the number of attempt   *)
(* tokens, and an attempted flag is the presence of its token.  The plan   *)
(* (transaction, result, plan digest, part count, manifest_required) does  *)
(* not change during one publication: the constants stand for it.          *)
(***************************************************************************)
EXTENDS Integers, Sequences

CONSTANTS
  PartCount,         \* part_count of the plan
  ManifestRequired,  \* manifest_required of the plan
  None               \* the absent value

Tokens  == Nat \X Nat   \* a claim's random token: <<its run, object>>
Natives == Nat \X Nat   \* a native identity: <<object, which copy of it>>

ASSUME PlanAssumption == PartCount \in Nat /\ ManifestRequired \in BOOLEAN

Frontiers ==
  [tokens : Seq(Tokens), receipts : Seq(Natives),
   manifestToken : Tokens \cup {None}, manifestReceipt : Natives \cup {None},
   finalToken : Tokens \cup {None}, finalReceipt : Natives \cup {None}]

ASSUME NoneAssumption == None \notin Tokens \cup Natives \cup Frontiers

Outstanding(s)    == Len(s.receipts) < Len(s.tokens)
PartsConfirmed(s) == Len(s.receipts) = PartCount
ManifestSettled(s) == ~ManifestRequired \/ s.manifestReceipt # None
Complete(s)       == s.finalReceipt # None

\* What the constructor demands, or raises.  It also wants the tokens and the
\* native identities distinct: tokens are random, and two receipts of different
\* effects differ because each names an object of its own effect.
Valid(s) ==
  /\ Len(s.tokens) <= PartCount
  /\ Len(s.receipts) \in {Len(s.tokens) - 1, Len(s.tokens)}
  /\ s.manifestToken # None => ManifestRequired /\ PartsConfirmed(s)
  /\ s.manifestReceipt # None => s.manifestToken # None
  /\ s.finalToken # None => PartsConfirmed(s) /\ ManifestSettled(s)
  /\ s.finalReceipt # None => s.finalToken # None

Prepared ==
  [tokens |-> <<>>, receipts |-> <<>>, manifestToken |-> None,
   manifestReceipt |-> None, finalToken |-> None, finalReceipt |-> None]

-----------------------------------------------------------------------------
(* The transitions: XAccepts is the condition under which one does not     *)
(* raise                                                                   *)

AttemptPartAccepts(s) ==
  /\ Len(s.tokens) < PartCount /\ ~Outstanding(s)
  /\ s.finalToken = None /\ s.manifestToken = None

AttemptPart(s, token) == [s EXCEPT !.tokens = Append(@, token)]

\* The receipt of the outstanding part; a settled one is immutable.
ConfirmPart(s, native) == [s EXCEPT !.receipts = Append(@, native)]

AttemptManifestAccepts(s) ==
  /\ ManifestRequired /\ PartsConfirmed(s)
  /\ s.manifestToken = None /\ s.finalToken = None

AttemptManifest(s, token) == [s EXCEPT !.manifestToken = token]

ConfirmManifestAccepts(s) == s.manifestToken # None /\ s.manifestReceipt = None

ConfirmManifest(s, native) == [s EXCEPT !.manifestReceipt = native]

AttemptFinalAccepts(s) ==
  s.finalToken = None /\ PartsConfirmed(s) /\ ManifestSettled(s)

AttemptFinal(s, token) == [s EXCEPT !.finalToken = token]

ConfirmFinalAccepts(s) == s.finalToken # None /\ s.finalReceipt = None

ConfirmFinal(s, native) == [s EXCEPT !.finalReceipt = native]

-----------------------------------------------------------------------------
(* Which frontier may replace which: a candidate takes its token or its    *)
(* receipt from the proposed frontier                                      *)

Newest(seq) == seq[Len(seq)]

IsAttempt(s, after) ==
  \/ /\ AttemptPartAccepts(s)
     /\ Len(after.tokens) = Len(s.tokens) + 1
     /\ after = AttemptPart(s, Newest(after.tokens))
  \/ /\ AttemptManifestAccepts(s)
     /\ after.manifestToken # None
     /\ after = AttemptManifest(s, after.manifestToken)
  \/ /\ AttemptFinalAccepts(s)
     /\ after.finalToken # None
     /\ after = AttemptFinal(s, after.finalToken)

Confirmations(s, after) ==
  (IF Outstanding(s) /\ Len(after.receipts) = Len(s.receipts) + 1
     THEN {ConfirmPart(s, Newest(after.receipts))} ELSE {})
  \cup (IF ConfirmManifestAccepts(s) /\ after.manifestReceipt # None
          THEN {ConfirmManifest(s, after.manifestReceipt)} ELSE {})
  \cup (IF ConfirmFinalAccepts(s) /\ after.finalReceipt # None
          THEN {ConfirmFinal(s, after.finalReceipt)} ELSE {})

IsSuccessorSlip(s, after) ==
  after = s \/ IsAttempt(s, after) \/ after \in Confirmations(s, after)

\* require_successor: one attempt, one confirmation, or a confirmation
\* together with the next attempt.
IsSuccessor(s, after) ==
  \/ after = s
  \/ IsAttempt(s, after)
  \/ \E confirmed \in Confirmations(s, after) :
       after = confirmed \/ IsAttempt(confirmed, after)

\* require_staging_successor: a publication begins before, or with, the first
\* attempt of its first part, or of its manifest if it has no parts.
MayReplace(retained, after) ==
  IF retained = None
  THEN \/ after = Prepared
       \/ after.finalToken = None /\ IsAttempt(Prepared, after)
  ELSE IsSuccessor(retained, after)
=============================================================================
