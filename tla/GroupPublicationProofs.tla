---------------------- MODULE GroupPublicationProofs -----------------------
(***************************************************************************)
(* The grouped publication keeps its promise, for every plan, every set of *)
(* earlier reviews and every number of processes.                          *)
(*                                                                         *)
(* The argument: a frontier that has attempted an effect has confirmed all *)
(* earlier ones from the objects themselves (Grounded); a claim is named   *)
(* by a token that no retained or delayed frontier has (TokensKnown); so,  *)
(* as long as no write takes an attempt back, whatever is visible or on    *)
(* its way has been attempted in the record, and the one process that goes *)
(* beyond the record finds its effect free (OnceInOrder).                  *)
(***************************************************************************)
EXTENDS GroupPublication, TLAPS

-----------------------------------------------------------------------------
(* The inductive invariant                                                 *)

\* The frontier has everything before the effect e confirmed, and e not yet
\* attempted.
Ready(s, e) ==
  /\ e \in Parts => Len(s.tokens) = e - 1 /\ Len(s.receipts) = e - 1
  /\ e = Manifest => Len(s.receipts) = PartCount
  /\ e = Final => s.manifestReceipt # None
  /\ e > PartCount => Len(s.receipts) = PartCount
  /\ e <= Manifest => s.manifestToken = None
  /\ s.finalToken = None

\* The frontier has attempted the effect e, and confirmed all before it.
Position(s, e) ==
  /\ e \in Parts => Len(s.tokens) = e /\ Len(s.receipts) = e - 1
  /\ e = Manifest => s.manifestToken # None
  /\ e = Final => s.finalToken # None

HasToken(s, t) ==
  \/ \E i \in DOMAIN s.tokens : s.tokens[i] = t
  \/ s.manifestToken = t \/ s.finalToken = t

Writing == run.pc \in {"read", "write", "readback"}

Place ==
  /\ Writing =>
       /\ run.after # None
       /\ run.effect \in Effects =>
            /\ Position(run.after, run.effect)
            /\ Reach(run.after) = run.effect
            /\ Reach(run.state) = run.effect - 1
            /\ HasToken(run.after, <<starts, run.effect>>)
       /\ run.effect \notin Effects =>
            /\ run.effect = Done
            /\ Reach(run.after) = Final
            /\ \A f \in Effects : shown[f] # <<>>
  /\ run.pc \in {"claim", "post", "census"} =>
       /\ run.effect \in Effects
       /\ run.state # None
       /\ Position(run.state, run.effect)
  /\ run.pc \in {"claim", "post"} => Reach(run.state) = run.effect

\* Before an effect is attempted all earlier ones have been seen, and what is
\* confirmed is a visible copy of the effect itself.
Grounded ==
  /\ \A s \in InPlay : NamesOwnObjects(s)
  /\ \A s \in InPlay : \A f \in Effects : f < Reach(s) => shown[f] # <<>>
  /\ \A p \in posts : \A f \in Effects : f < p.effect => shown[f] # <<>>

TokensKnown ==
  /\ \A s \in InPlay : \A n, e \in Nat : HasToken(s, <<n, e>>) => n <= starts
  /\ run.pc # "idle" =>
       \A s \in InPlay : \A e \in Nat :
         HasToken(s, <<starts, e>>) => e <= run.effect
  /\ run.pc \in {"read", "write"} =>
       \A s \in ({record} \cup patches) \ {None} :
         ~HasToken(s, <<starts, run.effect>>)

Free(e) == shown[e] = <<>> /\ \A p \in posts : p.effect # e

OnceInOrder ==
  ~rolledBack =>
    /\ \A e \in Effects : Len(shown[e]) <= 1
    /\ \A p \in posts : shown[p.effect] = <<>>
    /\ \A p, q \in posts : p.effect = q.effect => p = q
    /\ \A e \in Effects : shown[e] # <<>> => e <= Reach(record)
    /\ \A p \in posts : p.effect <= Reach(record)
    /\ run.pc \in {"claim", "post"} => Reach(run.state) <= Reach(record)
    /\ run.pc = "readback" => Reach(run.after) <= Reach(record)
    /\ run.pc \in {"write", "readback", "claim", "post"} /\ run.effect \in Effects
         => Free(run.effect)

IInv == TypeOK /\ Place /\ Grounded /\ TokensKnown /\ OnceInOrder

-----------------------------------------------------------------------------
(* The frontier                                                            *)

LEMMA Plan ==
  /\ PartCount \in Nat /\ ManifestRequired
  /\ Manifest = PartCount + 1 /\ Final = PartCount + 2 /\ Done = PartCount + 3
  /\ Parts \subseteq Nat /\ Effects \subseteq Nat
  /\ Sizes \in [Parts -> Nat \ {0}] /\ Earlier \in Seq(Nat) /\ MaxStarts \in Nat
  /\ \A e \in Effects : e \in Nat /\ e >= 1 /\ e <= Final
BY PlanAssumption, PublicationAssumption
   DEF Manifest, Final, Done, Parts, Effects

LEMMA NoneApart ==
  /\ \A t \in Tokens : t # None
  /\ \A n \in Natives : n # None
BY NoneAssumption

LEMMA FrontierFields ==
  ASSUME NEW s \in Frontiers
  PROVE  /\ s.tokens \in Seq(Tokens) /\ s.receipts \in Seq(Natives)
         /\ s.manifestToken \in Tokens \cup {None}
         /\ s.manifestReceipt \in Natives \cup {None}
         /\ s.finalToken \in Tokens \cup {None}
         /\ s.finalReceipt \in Natives \cup {None}
         /\ Len(s.tokens) \in Nat /\ Len(s.receipts) \in Nat
BY DEF Frontiers

LEMMA ReachOf ==
  ASSUME NEW s \in Frontiers
  PROVE  Reach(s) = Len(s.tokens) + (IF s.manifestToken = None THEN 0 ELSE 1)
                                  + (IF s.finalToken = None THEN 0 ELSE 1)
<1>1. s # None
  BY NoneAssumption
<1> QED  BY <1>1 DEF Reach

LEMMA ReachNat ==
  ASSUME NEW s \in Frontiers \cup {None}
  PROVE  Reach(s) \in Nat
<1>1. CASE s = None
  BY <1>1 DEF Reach
<1>2. CASE s \in Frontiers
  <2>1. /\ Len(s.tokens) \in Nat
        /\ (IF s.manifestToken = None THEN 0 ELSE 1) \in Nat
        /\ (IF s.finalToken = None THEN 0 ELSE 1) \in Nat
    BY <1>2, FrontierFields
  <2>2. \A x, y, z \in Nat : x + y + z \in Nat
    OBVIOUS
  <2>3. Reach(s) = Len(s.tokens) + (IF s.manifestToken = None THEN 0 ELSE 1)
                                 + (IF s.finalToken = None THEN 0 ELSE 1)
    BY <1>2, ReachOf
  <2> QED  BY <2>1, <2>2, <2>3, Zenon
<1> QED  BY <1>1, <1>2

LEMMA AppendFacts ==
  ASSUME NEW S, NEW q \in Seq(S), NEW x \in S
  PROVE  /\ Append(q, x) \in Seq(S) /\ Len(Append(q, x)) = Len(q) + 1
         /\ Append(q, x)[Len(q) + 1] = x
         /\ DOMAIN Append(q, x) = 1 .. (Len(q) + 1)
         /\ \A i \in 1 .. Len(q) : Append(q, x)[i] = q[i]
         /\ DOMAIN q = 1 .. Len(q)
OBVIOUS

LEMMA PreparedFrontier ==
  /\ Prepared \in Frontiers /\ Valid(Prepared)
  /\ Prepared.tokens = <<>> /\ Prepared.receipts = <<>>
  /\ Prepared.manifestToken = None /\ Prepared.finalToken = None
  /\ Prepared.manifestReceipt = None /\ Prepared.finalReceipt = None
  /\ Len(Prepared.tokens) = 0 /\ Len(Prepared.receipts) = 0
<1>1. <<>> \in Seq(Tokens) /\ <<>> \in Seq(Natives) /\ Len(<<>>) = 0
  OBVIOUS
<1> QED
  BY <1>1, PlanAssumption DEF Prepared, Frontiers, Valid, PartsConfirmed

\* An accepted attempt of the next effect.
LEMMA AttemptNext ==
  ASSUME NEW s \in Frontiers, Valid(s), NEW e \in Effects, Ready(s, e),
         NEW t \in Tokens
  PROVE  /\ Attempt(s, e, t) \in Frontiers
         /\ Valid(Attempt(s, e, t))
         /\ Position(Attempt(s, e, t), e)
         /\ Reach(s) = e - 1
         /\ Reach(Attempt(s, e, t)) = e
         /\ Attempt(s, e, t).receipts = s.receipts
         /\ Attempt(s, e, t).manifestReceipt = s.manifestReceipt
         /\ Attempt(s, e, t).finalReceipt = s.finalReceipt
         /\ HasToken(Attempt(s, e, t), t)
         /\ \A u : HasToken(Attempt(s, e, t), u) => HasToken(s, u) \/ u = t
<1> DEFINE a == Attempt(s, e, t)
<1> USE Plan, FrontierFields, NoneApart, NoneAssumption
<1>1. CASE e \in Parts
  <2>1. a = [s EXCEPT !.tokens = Append(s.tokens, t)]
    BY <1>1 DEF Attempt, AttemptPart
  <2>2. /\ a \in Frontiers /\ a.tokens = Append(s.tokens, t)
        /\ a.receipts = s.receipts /\ a.manifestToken = s.manifestToken
        /\ a.manifestReceipt = s.manifestReceipt
        /\ a.finalToken = s.finalToken /\ a.finalReceipt = s.finalReceipt
    <3>1. Append(s.tokens, t) \in Seq(Tokens)
      BY AppendFacts
    <3> QED  BY <2>1, <3>1 DEF Frontiers
  <2>3. /\ Len(a.tokens) = e /\ Len(s.tokens) = e - 1 /\ Len(s.receipts) = e - 1
        /\ e <= PartCount /\ s.manifestToken = None /\ s.finalToken = None
    BY <1>1, <2>2 DEF Ready, Parts
  <2>4. Valid(a) /\ Position(a, e)
    BY <2>2, <2>3 DEF Valid, Position, PartsConfirmed, ManifestSettled, Parts
  <2>5. Reach(s) = e - 1 /\ Reach(a) = e
    <3> HIDE DEF a
    <3>1. /\ Reach(a) = Len(a.tokens) + (IF a.manifestToken = None THEN 0 ELSE 1)
                                      + (IF a.finalToken = None THEN 0 ELSE 1)
          /\ Reach(s) = Len(s.tokens) + (IF s.manifestToken = None THEN 0 ELSE 1)
                                      + (IF s.finalToken = None THEN 0 ELSE 1)
      BY <2>2, ReachOf
    <3> QED  BY <3>1, <2>2, <2>3
  <2>6. HasToken(a, t)
    <3>1. e \in DOMAIN a.tokens /\ a.tokens[e] = t
      BY <2>2, <2>3
    <3> QED  BY <3>1 DEF HasToken
  <2>7. ASSUME NEW u, HasToken(a, u) PROVE HasToken(s, u) \/ u = t
    BY <2>2, <2>7 DEF HasToken
  <2> QED  BY <2>2, <2>4, <2>5, <2>6, <2>7
<1>2. CASE e = Manifest
  <2>1. a = [s EXCEPT !.manifestToken = t]
    BY <1>2 DEF Attempt, AttemptManifest, Parts
  <2>2. /\ a \in Frontiers /\ a.tokens = s.tokens /\ a.manifestToken = t
        /\ a.receipts = s.receipts
        /\ a.manifestReceipt = s.manifestReceipt
        /\ a.finalToken = s.finalToken /\ a.finalReceipt = s.finalReceipt
    BY <2>1 DEF Frontiers
  <2>3. /\ Len(s.receipts) = PartCount /\ Len(s.tokens) = PartCount
        /\ s.manifestToken = None /\ s.finalToken = None
    BY <1>2 DEF Ready, Valid
  <2>4. Valid(a) /\ Position(a, e)
    BY <1>2, <2>2, <2>3 DEF Valid, Position, PartsConfirmed, ManifestSettled, Parts
  <2>5. Reach(s) = e - 1 /\ Reach(a) = e
    <3> HIDE DEF a
    <3>1. /\ Reach(a) = Len(a.tokens) + (IF a.manifestToken = None THEN 0 ELSE 1)
                                      + (IF a.finalToken = None THEN 0 ELSE 1)
          /\ Reach(s) = Len(s.tokens) + (IF s.manifestToken = None THEN 0 ELSE 1)
                                      + (IF s.finalToken = None THEN 0 ELSE 1)
      BY <2>2, ReachOf
    <3> QED  BY <3>1, <1>2, <2>2, <2>3
  <2> QED  BY <2>2, <2>4, <2>5 DEF HasToken
<1>3. CASE e = Final
  <2>1. a = [s EXCEPT !.finalToken = t]
    BY <1>3 DEF Attempt, AttemptFinal, Parts
  <2>2. /\ a \in Frontiers /\ a.tokens = s.tokens /\ a.manifestToken = s.manifestToken
        /\ a.receipts = s.receipts
        /\ a.manifestReceipt = s.manifestReceipt
        /\ a.finalToken = t /\ a.finalReceipt = s.finalReceipt
    BY <2>1 DEF Frontiers
  <2>3. /\ Len(s.receipts) = PartCount /\ Len(s.tokens) = PartCount
        /\ s.manifestReceipt # None /\ s.manifestToken # None /\ s.finalToken = None
    BY <1>3 DEF Ready, Valid
  <2>4. Valid(a) /\ Position(a, e)
    BY <1>3, <2>2, <2>3 DEF Valid, Position, PartsConfirmed, ManifestSettled, Parts
  <2>5. Reach(s) = e - 1 /\ Reach(a) = e
    <3> HIDE DEF a
    <3>1. /\ Reach(a) = Len(a.tokens) + (IF a.manifestToken = None THEN 0 ELSE 1)
                                      + (IF a.finalToken = None THEN 0 ELSE 1)
          /\ Reach(s) = Len(s.tokens) + (IF s.manifestToken = None THEN 0 ELSE 1)
                                      + (IF s.finalToken = None THEN 0 ELSE 1)
      BY <2>2, ReachOf
    <3> QED  BY <3>1, <1>3, <2>2, <2>3
  <2> QED  BY <2>2, <2>4, <2>5 DEF HasToken
<1> QED
  BY <1>1, <1>2, <1>3 DEF Effects, Parts

\* The confirmation of the effect a frontier stands at.
LEMMA ConfirmHere ==
  ASSUME NEW s \in Frontiers, Valid(s), NEW e \in Effects, Position(s, e),
         NEW native \in Natives
  PROVE  /\ Confirm(s, e, native) \in Frontiers
         /\ Valid(Confirm(s, e, native))
         /\ Reach(Confirm(s, e, native)) = Reach(s)
         /\ Reach(s) >= e
         /\ Reach(s) <= Final
         /\ Reach(s) > e => e = Manifest /\ s.finalToken # None
         /\ Reach(s) = e /\ e # Final => Ready(Confirm(s, e, native), e + 1)
         /\ \A u : HasToken(Confirm(s, e, native), u) => HasToken(s, u)
         /\ NamesOwnObjects(s) /\ native \in Copies(e)
              => NamesOwnObjects(Confirm(s, e, native))
<1> DEFINE c == Confirm(s, e, native)
<1> USE Plan, FrontierFields, NoneApart, NoneAssumption
<1>1. CASE e \in Parts
  <2>1. c = [s EXCEPT !.receipts = Append(s.receipts, native)]
    BY <1>1 DEF Confirm, ConfirmPart
  <2>2. /\ c \in Frontiers /\ c.tokens = s.tokens
        /\ c.receipts = Append(s.receipts, native)
        /\ c.manifestToken = s.manifestToken
        /\ c.manifestReceipt = s.manifestReceipt
        /\ c.finalToken = s.finalToken /\ c.finalReceipt = s.finalReceipt
    <3>1. Append(s.receipts, native) \in Seq(Natives)
      BY AppendFacts
    <3> QED  BY <2>1, <3>1 DEF Frontiers
  <2>3. /\ Len(c.receipts) = e /\ Len(s.tokens) = e /\ Len(s.receipts) = e - 1
        /\ e <= PartCount /\ s.manifestToken = None /\ s.finalToken = None
    <3>1. /\ Len(s.tokens) = e /\ Len(s.receipts) = e - 1 /\ e <= PartCount
          /\ s.manifestToken = None /\ s.finalToken = None
      BY <1>1 DEF Position, Valid, PartsConfirmed, Parts
    <3>2. Len(Append(s.receipts, native)) = Len(s.receipts) + 1
      BY AppendFacts
    <3> QED  BY <2>2, <3>1, <3>2
  <2>4. Valid(c)
    BY <2>2, <2>3 DEF Valid, PartsConfirmed, ManifestSettled
  <2>5. Reach(c) = e /\ Reach(s) = e
    <3> HIDE DEF c
    <3>1. /\ Reach(c) = Len(c.tokens) + (IF c.manifestToken = None THEN 0 ELSE 1)
                                      + (IF c.finalToken = None THEN 0 ELSE 1)
          /\ Reach(s) = Len(s.tokens) + (IF s.manifestToken = None THEN 0 ELSE 1)
                                      + (IF s.finalToken = None THEN 0 ELSE 1)
      BY <2>2, ReachOf
    <3> QED  BY <3>1, <2>2, <2>3
  <2>6. Ready(c, e + 1)
    BY <2>2, <2>3 DEF Ready, Parts
  <2>7. /\ \A i \in DOMAIN c.receipts : i = e \/ i \in DOMAIN s.receipts
        /\ c.receipts[e] = native
        /\ \A i \in DOMAIN s.receipts : i # e /\ c.receipts[i] = s.receipts[i]
    <3>1. e = Len(s.receipts) + 1 /\ Len(s.receipts) \in Nat
      BY <2>3
    <3> QED  BY <2>2, <3>1, AppendFacts
  <2>8. NamesOwnObjects(s) /\ native \in Copies(e) => NamesOwnObjects(c)
    BY <2>2, <2>7 DEF NamesOwnObjects
  <2> QED  BY <2>2, <2>3, <2>4, <2>5, <2>6, <2>8 DEF HasToken
<1>2. CASE e = Manifest
  <2>1. c = [s EXCEPT !.manifestReceipt = native]
    BY <1>2 DEF Confirm, ConfirmManifest, Parts
  <2>2. /\ c \in Frontiers /\ c.tokens = s.tokens
        /\ c.receipts = s.receipts
        /\ c.manifestToken = s.manifestToken
        /\ c.manifestReceipt = native
        /\ c.finalToken = s.finalToken /\ c.finalReceipt = s.finalReceipt
    BY <2>1 DEF Frontiers
  <2>3. /\ Len(s.receipts) = PartCount /\ Len(s.tokens) = PartCount
        /\ s.manifestToken # None
    BY <1>2 DEF Position, Valid, PartsConfirmed
  <2>4. Valid(c)
    BY <2>2, <2>3 DEF Valid, PartsConfirmed, ManifestSettled
  <2>5. /\ Reach(c) = Reach(s) /\ Reach(s) >= e /\ Reach(s) <= Final
        /\ Reach(s) > e => s.finalToken # None
        /\ Reach(s) = e => s.finalToken = None
    <3> HIDE DEF c
    <3>1. /\ Reach(c) = Len(c.tokens) + (IF c.manifestToken = None THEN 0 ELSE 1)
                                      + (IF c.finalToken = None THEN 0 ELSE 1)
          /\ Reach(s) = Len(s.tokens) + (IF s.manifestToken = None THEN 0 ELSE 1)
                                      + (IF s.finalToken = None THEN 0 ELSE 1)
      BY <2>2, ReachOf
    <3> QED  BY <3>1, <1>2, <2>2, <2>3
  <2>6. Reach(s) = e => Ready(c, e + 1)
    BY <1>2, <2>2, <2>3, <2>5 DEF Ready, Parts
  <2>7. NamesOwnObjects(s) /\ native \in Copies(e) => NamesOwnObjects(c)
    BY <1>2, <2>2 DEF NamesOwnObjects
  <2> QED  BY <1>2, <2>2, <2>4, <2>5, <2>6, <2>7 DEF HasToken
<1>3. CASE e = Final
  <2>1. c = [s EXCEPT !.finalReceipt = native]
    BY <1>3 DEF Confirm, ConfirmFinal, Parts
  <2>2. /\ c \in Frontiers /\ c.tokens = s.tokens
        /\ c.receipts = s.receipts
        /\ c.manifestToken = s.manifestToken
        /\ c.manifestReceipt = s.manifestReceipt
        /\ c.finalToken = s.finalToken /\ c.finalReceipt = native
    BY <2>1 DEF Frontiers
  <2>3. /\ Len(s.receipts) = PartCount /\ Len(s.tokens) = PartCount
        /\ s.manifestToken # None /\ s.finalToken # None
    BY <1>3 DEF Position, Valid, PartsConfirmed, ManifestSettled
  <2>4. Valid(c)
    BY <2>2, <2>3 DEF Valid, PartsConfirmed, ManifestSettled
  <2>5. Reach(c) = Final /\ Reach(s) = Final
    <3> HIDE DEF c
    <3>1. /\ Reach(c) = Len(c.tokens) + (IF c.manifestToken = None THEN 0 ELSE 1)
                                      + (IF c.finalToken = None THEN 0 ELSE 1)
          /\ Reach(s) = Len(s.tokens) + (IF s.manifestToken = None THEN 0 ELSE 1)
                                      + (IF s.finalToken = None THEN 0 ELSE 1)
      BY <2>2, ReachOf
    <3> QED  BY <3>1, <1>3, <2>2, <2>3
  <2>6. NamesOwnObjects(s) /\ native \in Copies(e) => NamesOwnObjects(c)
    BY <1>3, <2>2 DEF NamesOwnObjects
  <2> QED  BY <1>3, <2>2, <2>4, <2>5, <2>6 DEF HasToken
<1> QED
  BY <1>1, <1>2, <1>3 DEF Effects, Parts

-----------------------------------------------------------------------------
(* The process                                                             *)

LEMMA IdleTyped ==
  Idle \in Runs /\ Idle.pc = "idle" /\ Idle.state = None /\ Idle.after = None
BY Plan DEF Runs, Idle, At

\* The effects, their copies and the objects a census may name.
LEMMA VisibleNatives ==
  ASSUME TypeOK
  PROVE  /\ Visible \subseteq Natives
         /\ \A native \in Visible : native[1] # 0 =>
              native[1] \in Effects /\ native \in Copies(native[1])
         /\ \A e \in Effects : Copies(e) # {} => shown[e] # <<>>
<1>1. \A e \in Effects : shown[e] \in Seq(Seq(Natives)) /\ DOMAIN shown[e] \subseteq Nat
  BY DEF TypeOK
<1>2. DOMAIN Earlier \subseteq Nat
  BY Plan
<1>3. \A native \in EarlierReviews : native \in Natives /\ native[1] = 0
  BY <1>2 DEF EarlierReviews, Natives
<1>4. \A e \in Effects : \A native \in Copies(e) : native \in Natives /\ native[1] = e
  BY <1>1, Plan DEF Copies, Natives
<1>5. \A e \in Effects : Copies(e) # {} => shown[e] # <<>>
  <2> SUFFICES ASSUME NEW e \in Effects, Copies(e) # {} PROVE shown[e] # <<>>
    OBVIOUS
  <2>1. DOMAIN shown[e] # {}
    BY DEF Copies
  <2> QED  BY <2>1
<1>6. \A native \in Visible :
        native \in EarlierReviews \/ \E e \in Effects : native \in Copies(e)
  BY DEF Visible
<1> QED  BY <1>3, <1>4, <1>5, <1>6

\* What is found is a visible copy of the effect itself.
LEMMA FoundIsOwn ==
  ASSUME TypeOK, NEW retained, NEW s, NEW e \in Effects, NEW known,
         NEW native \in Visible, Found(retained, s, e, known, native)
  PROVE  native \in Copies(e) /\ native \in Natives /\ shown[e] # <<>>
<1>1. CASE e \in Parts
  <2>1. native[1] = e /\ e # 0
    BY <1>1, Plan DEF Found, PartFound
  <2> QED  BY <2>1, VisibleNatives
<1>2. CASE e = Manifest
  <2>1. Copies(e) = {native}
    BY <1>2, Plan DEF Found, ManifestFound, Parts
  <2> QED  BY <2>1, VisibleNatives
<1>3. CASE e = Final
  <2>1. native[1] = e /\ e # 0
    BY <1>3, Plan DEF Found, FinalFound, Parts, Manifest, Final
  <2> QED  BY <2>1, VisibleNatives
<1> QED
  BY <1>1, <1>2, <1>3, Plan DEF Effects, Parts

LEMMA Establish == Init => IInv
<1> SUFFICES ASSUME Init PROVE IInv
  OBVIOUS
<1> USE DEF Init
<1>1. InPlay = {}
  BY IdleTyped DEF InPlay
<1>2. <<>> \in Seq(Seq(Natives))
  OBVIOUS
<1>3. TypeOK
  <2>1. shown \in [Effects -> Seq(Seq(Natives))]
    BY <1>2
  <2>2. starts \in 0..MaxStarts
    BY Plan
  <2>3. posts \subseteq [effect : Effects, start : Nat, says : Seq(Natives)]
    OBVIOUS
  <2> QED  BY <1>1, <2>1, <2>2, <2>3, IdleTyped DEF TypeOK
<1>4. Place
  BY IdleTyped DEF Place, Writing
<1>5. Grounded
  BY <1>1 DEF Grounded
<1>6. TokensKnown
  BY <1>1, IdleTyped DEF TokensKnown
<1>7. OnceInOrder
  <2>1. Len(<<>>) <= 1
    OBVIOUS
  <2> QED  BY <2>1, IdleTyped DEF OnceInOrder
<1> QED  BY <1>3, <1>4, <1>5, <1>6, <1>7 DEF IInv

\* The process ends, for whatever reason.
LEMMA EndKeeps ==
  ASSUME IInv, run' = Idle, acknowledged' \in BOOLEAN,
         UNCHANGED <<record, shown, posts, patches, starts, rolledBack>>
  PROVE  IInv'
<1> USE DEF IInv
<1>1. InPlay' \subseteq InPlay
  BY IdleTyped DEF InPlay
<1>2. TypeOK'
  BY <1>1, IdleTyped DEF TypeOK
<1>3. Place'
  BY IdleTyped DEF Place, Writing
<1>4. Grounded'
  BY <1>1 DEF Grounded, NamesOwnObjects, Copies
<1>5. TokensKnown'
  BY <1>1, IdleTyped DEF TokensKnown
<1>6. OnceInOrder'
  BY IdleTyped DEF OnceInOrder
<1> QED  BY <1>2, <1>3, <1>4, <1>5, <1>6

\* What every step may use of the process's record and its frontiers.
LEMMA RunFacts ==
  ASSUME IInv
  PROVE  /\ run \in Runs
         /\ run.effect \in 0..Done /\ run.effect \in Nat
         /\ Reach(record) \in Nat /\ Reach(run.state) \in Nat
         /\ Reach(run.after) \in Nat
         /\ \A s \in InPlay : s \in Frontiers /\ Valid(s) /\ Reach(s) \in Nat
         /\ \A w \in patches : w \in InPlay /\ w # None
         /\ record # None => record \in InPlay
         /\ run.state # None => run.state \in InPlay
         /\ run.after # None => run.after \in InPlay
         /\ starts \in Nat
<1> USE DEF IInv
<1>1. run \in Runs /\ record \in Frontiers \cup {None} /\ starts \in Nat
  BY DEF TypeOK
<1>2. /\ run.effect \in 0..Done /\ run.effect \in Nat
      /\ run.state \in Frontiers \cup {None} /\ run.after \in Frontiers \cup {None}
  BY <1>1, Plan DEF Runs
<1>3. \A w \in patches : w \in Frontiers /\ w # None
  BY NoneAssumption DEF TypeOK
<1>4. \A s \in InPlay : s \in Frontiers /\ Valid(s)
  BY <1>1, <1>2, <1>3 DEF TypeOK, InPlay
<1>5. /\ Reach(record) \in Nat /\ Reach(run.state) \in Nat
      /\ Reach(run.after) \in Nat
      /\ \A s \in InPlay : Reach(s) \in Nat
  BY <1>1, <1>2, <1>4, ReachNat
<1>6. /\ \A w \in patches : w \in InPlay
      /\ record # None => record \in InPlay
      /\ run.state # None => run.state \in InPlay
      /\ run.after # None => run.after \in InPlay
  BY <1>3 DEF InPlay
<1> QED  BY <1>1, <1>2, <1>3, <1>4, <1>5, <1>6

LEMMA ReadKeeps ==
  ASSUME IInv, run.pc = "read", record = run.after \/ record = run.state,
         run' = [run EXCEPT !.pc = "write"],
         UNCHANGED <<record, shown, posts, patches, starts, acknowledged, rolledBack>>
  PROVE  IInv'
<1> USE DEF IInv
<1>1. /\ run' \in Runs /\ run'.pc = "write" /\ run'.effect = run.effect
      /\ run'.state = run.state /\ run'.after = run.after
  BY RunFacts DEF Runs
<1>2. InPlay' = InPlay
  BY <1>1 DEF InPlay
<1>3. TypeOK'
  BY <1>1, <1>2 DEF TypeOK
<1>4. Place'
  BY <1>1 DEF Place, Writing
<1>5. Grounded'
  BY <1>2 DEF Grounded, NamesOwnObjects, Copies
<1>6. TokensKnown'
  BY <1>1, <1>2 DEF TokensKnown
<1>7. ASSUME ~rolledBack, run.effect \in Effects
      PROVE  Free(run.effect)
  <2>1. record = run.state
    <3> SUFFICES ASSUME record = run.after PROVE FALSE
      OBVIOUS
    <3>1. record # None /\ HasToken(record, <<starts, run.effect>>)
      BY <1>7 DEF Place, Writing
    <3> QED  BY <3>1 DEF TokensKnown
  <2>2. Reach(record) = run.effect - 1
    BY <1>7, <2>1 DEF Place, Writing
  <2>3. ~(run.effect <= Reach(record))
    BY <2>2, RunFacts
  <2>4. shown[run.effect] = <<>>
    BY <1>7, <2>3 DEF OnceInOrder
  <2>5. \A p \in posts : p.effect # run.effect
    BY <1>7, <2>3 DEF OnceInOrder
  <2> QED  BY <2>4, <2>5 DEF Free
<1>8. OnceInOrder'
  BY <1>1, <1>7 DEF OnceInOrder, Free
<1> QED  BY <1>3, <1>4, <1>5, <1>6, <1>8

LEMMA WriteAnsweredKeeps ==
  ASSUME IInv, WriteAnswered
  PROVE  IInv'
<1> USE DEF IInv, WriteAnswered
<1>1. /\ run' \in Runs /\ run'.pc = "readback" /\ run'.effect = run.effect
      /\ run'.state = run.state /\ run'.after = run.after
  BY RunFacts DEF Runs
<1>2. run.after # None /\ record' = run.after
  BY DEF Place, Writing, Land
<1>3. InPlay' \subseteq InPlay
  BY <1>1, <1>2 DEF InPlay
<1>4. TypeOK'
  <2>1. record' \in Frontiers \cup {None} /\ rolledBack' \in BOOLEAN
    BY <1>2, RunFacts DEF TypeOK, Land
  <2> QED  BY <1>1, <1>3, <2>1 DEF TypeOK
<1>5. Place'
  BY <1>1 DEF Place, Writing
<1>6. Grounded'
  BY <1>3 DEF Grounded, NamesOwnObjects, Copies
<1>7. TokensKnown'
  BY <1>1, <1>3 DEF TokensKnown
<1>8. OnceInOrder'
  <2> SUFFICES ASSUME ~rolledBack' PROVE OnceInOrder'
    BY DEF OnceInOrder
  <2>1. ~rolledBack /\ Reach(record) <= Reach(record')
    <3>1. ~rolledBack /\ ~(Reach(run.after) < Reach(record))
      BY Zenon DEF Land
    <3> QED  BY <1>2, <3>1, RunFacts
  <2>2. Reach(record') \in Nat /\ Reach(run'.after) = Reach(record')
    BY <1>1, <1>2, RunFacts
  <2>3. \A e \in Nat : e <= Reach(record) => e <= Reach(record')
    BY <2>1, <2>2, RunFacts
  <2>4. \A e \in Effects : shown[e] # <<>> => e <= Reach(record')
    BY <2>1, <2>3, Plan DEF OnceInOrder
  <2>5. \A p \in posts : p.effect <= Reach(record')
    <3>1. \A p \in posts : p.effect \in Nat
      BY Plan DEF TypeOK
    <3> QED  BY <2>1, <2>3, <3>1 DEF OnceInOrder
  <2> QED  BY <1>1, <2>1, <2>2, <2>4, <2>5 DEF OnceInOrder, Free
<1> QED  BY <1>4, <1>5, <1>6, <1>7, <1>8

LEMMA WriteUnansweredKeeps ==
  ASSUME IInv, WriteUnanswered
  PROVE  IInv'
<1> USE DEF IInv, WriteUnanswered
<1>1. run.after # None /\ run.after \in InPlay
  BY RunFacts DEF Place, Writing
<1>2. InPlay' \subseteq InPlay
  BY <1>1, IdleTyped DEF InPlay
<1>3. TypeOK'
  <2>1. patches' \subseteq Frontiers
    BY <1>1, RunFacts DEF TypeOK
  <2> QED  BY <1>2, <2>1, IdleTyped DEF TypeOK
<1>4. Place'
  BY IdleTyped DEF Place, Writing
<1>5. Grounded'
  BY <1>2 DEF Grounded, NamesOwnObjects, Copies
<1>6. TokensKnown'
  BY <1>2, IdleTyped DEF TokensKnown
<1>7. OnceInOrder'
  BY IdleTyped DEF OnceInOrder
<1> QED  BY <1>3, <1>4, <1>5, <1>6, <1>7

LEMMA ReadBackKeeps ==
  ASSUME IInv, run.pc = "readback", record = run.after, run.effect # Done,
         run' = At("claim", run.effect, run.after), acknowledged' \in BOOLEAN,
         UNCHANGED <<record, shown, posts, patches, starts, rolledBack>>
  PROVE  IInv'
<1> USE DEF IInv
<1>1. /\ run.after # None /\ run.effect \in Effects
      /\ Position(run.after, run.effect) /\ Reach(run.after) = run.effect
  BY DEF Place, Writing
<1>2. /\ run' \in Runs /\ run'.pc = "claim" /\ run'.effect = run.effect
      /\ run'.state = run.after /\ run'.after = None
  BY RunFacts DEF Runs, At
<1>3. InPlay' \subseteq InPlay
  BY <1>2 DEF InPlay
<1>4. TypeOK'
  BY <1>2, <1>3 DEF TypeOK
<1>5. Place'
  BY <1>1, <1>2 DEF Place, Writing
<1>6. Grounded'
  BY <1>3 DEF Grounded, NamesOwnObjects, Copies
<1>7. TokensKnown'
  BY <1>2, <1>3 DEF TokensKnown
<1>8. OnceInOrder'
  BY <1>1, <1>2 DEF OnceInOrder, Free
<1> QED  BY <1>4, <1>5, <1>6, <1>7, <1>8

LEMMA ClaimKeeps ==
  ASSUME IInv, run.pc = "claim", run' = [run EXCEPT !.pc = "post"],
         UNCHANGED <<record, shown, posts, patches, starts, acknowledged, rolledBack>>
  PROVE  IInv'
<1> USE DEF IInv
<1>1. /\ run' \in Runs /\ run'.pc = "post" /\ run'.effect = run.effect
      /\ run'.state = run.state /\ run'.after = run.after
  BY RunFacts DEF Runs
<1>2. InPlay' = InPlay
  BY <1>1 DEF InPlay
<1>3. TypeOK'
  BY <1>1, <1>2 DEF TypeOK
<1>4. Place'
  BY <1>1 DEF Place, Writing
<1>5. Grounded'
  BY <1>2 DEF Grounded, NamesOwnObjects, Copies
<1>6. TokensKnown'
  BY <1>1, <1>2 DEF TokensKnown
<1>7. OnceInOrder'
  BY <1>1 DEF OnceInOrder, Free
<1> QED  BY <1>3, <1>4, <1>5, <1>6, <1>7

-----------------------------------------------------------------------------
(* Objects                                                                 *)

LEMMA ShowOne ==
  ASSUME TypeOK, NEW e \in Effects, NEW x \in Seq(Natives),
         shown' = [shown EXCEPT ![e] = Append(@, x)]
  PROVE  /\ shown' \in [Effects -> Seq(Seq(Natives))]
         /\ shown'[e] # <<>> /\ Len(shown'[e]) = Len(shown[e]) + 1
         /\ shown[e] = <<>> => Len(shown'[e]) <= 1
         /\ \A f \in Effects : f # e => shown'[f] = shown[f]
         /\ \A f \in Effects : shown[f] # <<>> => shown'[f] # <<>>
<1>1. shown[e] \in Seq(Seq(Natives)) /\ shown'[e] = Append(shown[e], x)
  BY DEF TypeOK
<1>2. /\ Append(shown[e], x) \in Seq(Seq(Natives))
      /\ Len(Append(shown[e], x)) = Len(shown[e]) + 1
      /\ Len(shown[e]) \in Nat
  BY <1>1, AppendFacts
<1>3. Append(shown[e], x) # <<>>
  <2>1. Len(<<>>) = 0
    OBVIOUS
  <2>2. \A n \in Nat : n + 1 # 0
    OBVIOUS
  <2> QED  BY <1>2, <2>1, <2>2, Zenon
<1>4. shown[e] = <<>> => Len(Append(shown[e], x)) <= 1
  BY <1>2
<1>5. shown' \in [Effects -> Seq(Seq(Natives))]
  BY <1>2 DEF TypeOK
<1> QED  BY <1>1, <1>2, <1>3, <1>4, <1>5 DEF TypeOK

LEMMA NamesKept ==
  ASSUME TypeOK, NEW e \in Effects, NEW x \in Seq(Natives),
         shown' = [shown EXCEPT ![e] = Append(@, x)],
         NEW s \in Frontiers, Valid(s), NamesOwnObjects(s)
  PROVE  NamesOwnObjects(s)'
<1>1. \A f \in Effects : DOMAIN shown[f] \subseteq DOMAIN shown'[f]
  <2> SUFFICES ASSUME NEW f \in Effects
               PROVE  DOMAIN shown[f] \subseteq DOMAIN shown'[f]
    OBVIOUS
  <2>1. CASE f = e
    <3>1. shown[e] \in Seq(Seq(Natives)) /\ shown'[e] = Append(shown[e], x)
      BY DEF TypeOK
    <3> QED  BY <2>1, <3>1
  <2>2. CASE f # e
    BY <2>2, ShowOne
  <2> QED  BY <2>1, <2>2
<1>2. \A f \in Effects : Copies(f) \subseteq Copies(f)'
  BY <1>1 DEF Copies
<1>3. DOMAIN s.receipts \subseteq Effects /\ {Manifest, Final} \subseteq Effects
  <2>1. /\ DOMAIN s.receipts = 1 .. Len(s.receipts)
        /\ Len(s.receipts) \in Nat /\ Len(s.receipts) <= PartCount
    BY FrontierFields, Plan DEF Valid
  <2> QED  BY <2>1, Plan DEF Effects
<1> QED  BY <1>2, <1>3 DEF NamesOwnObjects

LEMMA SaysTyped ==
  ASSUME NEW s \in Frontiers, NEW e
  PROVE  Says(s, e) \in Seq(Natives)
<1>1. <<>> \in Seq(Natives)
  OBVIOUS
<1> QED  BY <1>1, FrontierFields DEF Says

LEMMA PostAnsweredKeeps ==
  ASSUME IInv, PostAnswered
  PROVE  IInv'
<1> USE DEF IInv
<1> DEFINE e == run.effect
<1>1. /\ e \in Effects /\ run.state # None /\ Position(run.state, e)
      /\ Reach(run.state) = e /\ run.pc = "post"
  BY DEF Place, PostAnswered
<1>2. run.state \in Frontiers /\ run.state \in InPlay
  BY <1>1, RunFacts
<1>3. /\ shown' = [shown EXCEPT ![e] = Append(@, Says(run.state, e))]
      /\ UNCHANGED <<record, posts, patches, starts, acknowledged, rolledBack>>
  BY DEF PostAnswered
<1>4. /\ shown' \in [Effects -> Seq(Seq(Natives))]
      /\ shown'[e] # <<>> /\ (shown[e] = <<>> => Len(shown'[e]) <= 1)
      /\ \A f \in Effects : f # e => shown'[f] = shown[f]
      /\ \A f \in Effects : shown[f] # <<>> => shown'[f] # <<>>
  BY <1>1, <1>2, <1>3, ShowOne, SaysTyped
<1>5. <<e, Len(shown[e]) + 1>> \in Natives
  <2>1. shown[e] \in Seq(Seq(Natives)) /\ e \in Nat
    BY <1>1, Plan DEF TypeOK
  <2> QED  BY <2>1 DEF Natives
<1>6. /\ run' \in Runs /\ run'.pc = "census" /\ run'.effect = e
      /\ run'.state = run.state /\ run'.after = run.after
  BY <1>5, RunFacts DEF Runs, PostAnswered
<1>7. InPlay' = InPlay
  BY <1>3, <1>6 DEF InPlay
<1> HIDE DEF e
<1>8. TypeOK'
  BY <1>3, <1>4, <1>6, <1>7 DEF TypeOK
<1>9. Place'
  BY <1>1, <1>6 DEF Place, Writing
<1>10. Grounded'
  <2>1. \A s \in InPlay : NamesOwnObjects(s)'
    BY <1>1, <1>2, <1>3, NamesKept, RunFacts, SaysTyped DEF Grounded, e
  <2> QED  BY <1>3, <1>4, <1>7, <2>1 DEF Grounded
<1>11. TokensKnown'
  <2>1. run.effect = e /\ run.pc # "idle"
    BY <1>1 DEF e
  <2> QED  BY <1>3, <1>6, <1>7, <2>1 DEF TokensKnown
<1>12. OnceInOrder'
  <2> SUFFICES ASSUME ~rolledBack PROVE OnceInOrder'
    BY <1>3 DEF OnceInOrder
  <2>1. Free(e) /\ e <= Reach(record)
    BY <1>1 DEF OnceInOrder, e
  <2>2. \A f \in Effects : Len(shown'[f]) <= 1
    BY <1>4, <2>1 DEF OnceInOrder, Free
  <2>3. \A p \in posts' : shown'[p.effect] = <<>>
    <3>1. \A p \in posts : p.effect \in Effects /\ p.effect # e
      BY <2>1 DEF Free, TypeOK
    <3> QED  BY <1>3, <1>4, <3>1 DEF OnceInOrder
  <2>4. \A f \in Effects : shown'[f] # <<>> => f <= Reach(record')
    BY <1>3, <1>4, <2>1 DEF OnceInOrder
  <2> QED  BY <1>3, <1>6, <2>2, <2>3, <2>4 DEF OnceInOrder
<1> QED  BY <1>8, <1>9, <1>10, <1>11, <1>12

LEMMA PostUnansweredKeeps ==
  ASSUME IInv, PostUnanswered
  PROVE  IInv'
<1> USE DEF IInv
<1> DEFINE e == run.effect
           new == [effect |-> e, start |-> starts, says |-> Says(run.state, e)]
<1>1. /\ e \in Effects /\ run.state # None /\ Position(run.state, e)
      /\ Reach(run.state) = e /\ run.pc = "post"
  BY DEF Place, PostUnanswered
<1>2. run.state \in Frontiers /\ run.state \in InPlay
  BY <1>1, RunFacts
<1>3. /\ posts' = posts \cup {new}
      /\ UNCHANGED <<record, shown, patches, starts, acknowledged, rolledBack>>
  BY DEF PostUnanswered
<1>4. /\ run' \in Runs /\ run'.pc = "census" /\ run'.effect = e
      /\ run'.state = run.state /\ run'.after = run.after
  BY RunFacts DEF Runs, PostUnanswered
<1>5. InPlay' = InPlay
  BY <1>3, <1>4 DEF InPlay
<1>6. starts \in Nat
  BY RunFacts
<1>7. TypeOK'
  <2>1. new \in [effect : Effects, start : Nat, says : Seq(Natives)]
    BY <1>1, <1>2, <1>6, SaysTyped
  <2> HIDE DEF new
  <2> QED  BY <1>3, <1>4, <1>5, <2>1 DEF TypeOK
<1>8. new.effect = e
  OBVIOUS
<1> HIDE DEF e, new
<1>9. Place'
  BY <1>1, <1>3, <1>4 DEF Place, Writing
<1>10. Grounded'
  <2>1. \A f \in Effects : f < e => shown[f] # <<>>
    BY <1>1, <1>2 DEF Grounded, NamesOwnObjects, Copies
  <2> QED  BY <1>3, <1>5, <1>8, <2>1 DEF Grounded, NamesOwnObjects, Copies
<1>11. TokensKnown'
  <2>1. run.effect = e /\ run.pc # "idle"
    BY <1>1 DEF e
  <2> QED  BY <1>3, <1>4, <1>5, <2>1 DEF TokensKnown
<1>12. OnceInOrder'
  <2> SUFFICES ASSUME ~rolledBack PROVE OnceInOrder'
    BY <1>3 DEF OnceInOrder
  <2>1. Free(e) /\ e <= Reach(record)
    BY <1>1 DEF OnceInOrder, e
  <2>2. \A p \in posts' : shown'[p.effect] = <<>> /\ p.effect <= Reach(record')
    BY <1>3, <1>8, <2>1 DEF OnceInOrder, Free
  <2>3. \A p, q \in posts' : p.effect = q.effect => p = q
    BY <1>3, <1>8, <2>1 DEF OnceInOrder, Free
  <2> QED  BY <1>3, <1>4, <2>2, <2>3 DEF OnceInOrder
<1> QED  BY <1>7, <1>9, <1>10, <1>11, <1>12

LEMMA LatePostKeeps ==
  ASSUME IInv, NEW p \in posts, LatePost(p)
  PROVE  IInv'
<1> USE DEF IInv
<1>1. /\ p.effect \in Effects /\ p.says \in Seq(Natives)
      /\ posts' = posts \ {p}
      /\ shown' = [shown EXCEPT ![p.effect] = Append(@, p.says)]
      /\ UNCHANGED <<record, patches, run, starts, acknowledged, rolledBack>>
  BY DEF LatePost, TypeOK
<1>2. /\ shown' \in [Effects -> Seq(Seq(Natives))]
      /\ shown'[p.effect] # <<>>
      /\ shown[p.effect] = <<>> => Len(shown'[p.effect]) <= 1
      /\ \A f \in Effects : f # p.effect => shown'[f] = shown[f]
      /\ \A f \in Effects : shown[f] # <<>> => shown'[f] # <<>>
  BY <1>1, ShowOne
<1>3. InPlay' = InPlay
  BY <1>1 DEF InPlay
<1>4. TypeOK'
  BY <1>1, <1>2, <1>3 DEF TypeOK
<1>5. Place'
  BY <1>1, <1>2 DEF Place, Writing
<1>6. Grounded'
  <2>1. \A s \in InPlay : NamesOwnObjects(s)'
    BY <1>1, NamesKept, RunFacts DEF Grounded
  <2> QED  BY <1>1, <1>2, <1>3, <2>1 DEF Grounded
<1>7. TokensKnown'
  BY <1>1, <1>3 DEF TokensKnown
<1>8. OnceInOrder'
  <2> SUFFICES ASSUME ~rolledBack PROVE OnceInOrder'
    BY <1>1 DEF OnceInOrder
  <2>1. /\ shown[p.effect] = <<>> /\ p.effect <= Reach(record)
        /\ \A q \in posts' : q.effect # p.effect /\ q.effect \in Effects
    BY <1>1 DEF OnceInOrder, TypeOK
  <2>2. \A f \in Effects : Len(shown'[f]) <= 1
    BY <1>2, <2>1 DEF OnceInOrder
  <2>3. \A q \in posts' : shown'[q.effect] = <<>> /\ q.effect <= Reach(record')
    BY <1>1, <1>2, <2>1 DEF OnceInOrder
  <2>4. \A f \in Effects : shown'[f] # <<>> => f <= Reach(record')
    BY <1>1, <1>2, <2>1 DEF OnceInOrder
  <2>5. run.pc \in {"write", "readback", "claim", "post"} /\ run.effect \in Effects
          => Free(run.effect)'
    <3> SUFFICES ASSUME run.pc \in {"write", "readback", "claim", "post"},
                        run.effect \in Effects
                 PROVE  Free(run.effect)'
      OBVIOUS
    <3>1. Free(run.effect)
      BY DEF OnceInOrder
    <3>2. run.effect # p.effect
      BY <3>1 DEF Free
    <3> QED  BY <1>1, <1>2, <3>1, <3>2 DEF Free
  <2> QED  BY <1>1, <2>2, <2>3, <2>4, <2>5 DEF OnceInOrder
<1> QED  BY <1>4, <1>5, <1>6, <1>7, <1>8

LEMMA LostPostKeeps ==
  ASSUME IInv, NEW p \in posts, LostPost(p)
  PROVE  IInv'
<1> USE DEF IInv
<1>1. /\ posts' \subseteq posts
      /\ UNCHANGED <<record, shown, patches, run, starts, acknowledged, rolledBack>>
  BY DEF LostPost
<1>2. InPlay' = InPlay
  BY <1>1 DEF InPlay
<1>3. TypeOK'
  BY <1>1, <1>2 DEF TypeOK
<1>4. Place' /\ Grounded' /\ TokensKnown'
  BY <1>1, <1>2 DEF Place, Writing, Grounded, TokensKnown,
                             NamesOwnObjects, Copies
<1>5. OnceInOrder'
  BY <1>1 DEF OnceInOrder, Free
<1> QED  BY <1>3, <1>4, <1>5

LEMMA LatePatchKeeps ==
  ASSUME IInv, NEW w \in patches, LatePatch(w)
  PROVE  IInv'
<1> USE DEF IInv
<1>1. /\ patches' \subseteq patches /\ record' = w
      /\ rolledBack' = (rolledBack \/ Reach(w) < Reach(record))
      /\ UNCHANGED <<shown, posts, run, starts, acknowledged>>
  BY DEF LatePatch, Land
<1>2. w \in InPlay /\ w # None /\ w \in Frontiers /\ Reach(w) \in Nat
  BY RunFacts
<1>3. InPlay' \subseteq InPlay
  BY <1>1, <1>2 DEF InPlay
<1>4. TypeOK'
  <2>1. rolledBack' \in BOOLEAN
    BY <1>1 DEF TypeOK
  <2> QED  BY <1>1, <1>2, <1>3, <2>1 DEF TypeOK
<1>5. Place' /\ Grounded'
  BY <1>1, <1>3 DEF Place, Writing, Grounded, NamesOwnObjects, Copies
<1>6. TokensKnown'
  BY <1>1, <1>3 DEF TokensKnown
<1>7. OnceInOrder'
  <2> SUFFICES ASSUME ~rolledBack' PROVE OnceInOrder'
    BY DEF OnceInOrder
  <2>1. ~rolledBack /\ Reach(record) <= Reach(record')
    <3>1. ~rolledBack /\ ~(Reach(w) < Reach(record))
      BY <1>1, Zenon
    <3> QED  BY <1>1, <1>2, <3>1, RunFacts
  <2>2. \A e \in Nat : e <= Reach(record) => e <= Reach(record')
    BY <1>1, <1>2, <2>1, RunFacts
  <2>3. \A e \in Effects : shown[e] # <<>> => e <= Reach(record')
    BY <2>1, <2>2, Plan DEF OnceInOrder
  <2>4. \A p \in posts : p.effect <= Reach(record')
    <3>1. \A p \in posts : p.effect \in Nat
      BY Plan DEF TypeOK
    <3> QED  BY <2>1, <2>2, <3>1 DEF OnceInOrder
  <2>5. /\ run.pc \in {"claim", "post"} => Reach(run.state) <= Reach(record')
        /\ run.pc = "readback" => Reach(run.after) <= Reach(record')
    BY <2>1, <2>2, RunFacts DEF OnceInOrder
  <2> QED  BY <1>1, <2>1, <2>3, <2>4, <2>5 DEF OnceInOrder, Free
<1> QED  BY <1>4, <1>5, <1>6, <1>7

LEMMA LostPatchKeeps ==
  ASSUME IInv, NEW w \in patches, LostPatch(w)
  PROVE  IInv'
<1> USE DEF IInv
<1>1. /\ patches' \subseteq patches
      /\ UNCHANGED <<record, shown, posts, run, starts, acknowledged, rolledBack>>
  BY DEF LostPatch
<1>2. InPlay' \subseteq InPlay
  BY <1>1 DEF InPlay
<1>3. TypeOK'
  BY <1>1, <1>2 DEF TypeOK
<1>4. Place' /\ Grounded' /\ TokensKnown'
  BY <1>1, <1>2 DEF Place, Writing, Grounded, TokensKnown,
                             NamesOwnObjects, Copies
<1>5. OnceInOrder'
  BY <1>1 DEF OnceInOrder, Free
<1> QED  BY <1>3, <1>4, <1>5

-----------------------------------------------------------------------------
(* The walk                                                                *)

\* Where publish_final enters the walk.
LEMMA Enter ==
  ASSUME NEW s \in Frontiers, Valid(s)
  PROVE  /\ FirstPending(s) \in Effects
         /\ Reach(s) >= FirstPending(s) => Position(s, FirstPending(s))
         /\ Reach(s) < FirstPending(s) => Ready(s, FirstPending(s))
<1> DEFINE e == FirstPending(s)
           m == IF s.manifestToken = None THEN 0 ELSE 1
           f == IF s.finalToken = None THEN 0 ELSE 1
<1>1. /\ Len(s.tokens) \in Nat /\ Len(s.receipts) \in Nat
      /\ Len(s.receipts) <= Len(s.tokens) /\ Len(s.tokens) <= PartCount
      /\ Len(s.tokens) <= Len(s.receipts) + 1
  BY FrontierFields, Plan DEF Valid
<1>2. e = Len(s.receipts) + 1 /\ e \in 1..Manifest
  BY <1>1, Plan DEF FirstPending
<1>3. Reach(s) = Len(s.tokens) + m + f
  BY ReachOf
<1>4. CASE Len(s.receipts) < PartCount
  <2>1. s.manifestToken = None /\ s.finalToken = None
    BY <1>1, <1>4, Plan DEF Valid, PartsConfirmed
  <2>2. Reach(s) = Len(s.tokens)
    <3>1. m = 0 /\ f = 0
      BY <2>1
    <3> HIDE DEF m, f
    <3> QED  BY <1>1, <1>3, <3>1
  <2>3. e \in Parts /\ e # Manifest /\ e # Final /\ ~(e > PartCount)
    BY <1>1, <1>2, <1>4, Plan DEF Parts
  <2>4. Reach(s) >= e => Len(s.tokens) = e
    BY <1>1, <1>2, <2>2
  <2>5. Reach(s) < e => Len(s.tokens) = e - 1
    BY <1>1, <1>2, <2>2
  <2>6. Len(s.receipts) = e - 1
    BY <1>1, <1>2
  <2>7. e \in Effects
    BY <2>3, Plan DEF Parts, Effects
  <2> HIDE DEF e
  <2>8. Reach(s) >= e => Position(s, e)
    BY <2>3, <2>4, <2>6 DEF Position
  <2>9. Reach(s) < e => Ready(s, e)
    BY <2>1, <2>3, <2>5, <2>6 DEF Ready
  <2> QED  BY <2>7, <2>8, <2>9 DEF e
<1>5. CASE Len(s.receipts) = PartCount
  <2>1. e = Manifest /\ e \notin Parts /\ e # Final /\ Len(s.tokens) = PartCount
    BY <1>1, <1>2, <1>5, Plan DEF Parts
  <2>2. s.finalToken # None => s.manifestToken # None
    BY Plan DEF Valid, ManifestSettled
  <2>3. s.manifestToken = None => Reach(s) = PartCount
    <3> SUFFICES ASSUME s.manifestToken = None PROVE Reach(s) = PartCount
      OBVIOUS
    <3>1. m = 0 /\ f = 0
      BY <2>2
    <3> HIDE DEF m, f
    <3> QED  BY <1>1, <1>3, <2>1, <3>1
  <2>4. s.manifestToken # None => Reach(s) >= Manifest
    <3> SUFFICES ASSUME s.manifestToken # None PROVE Reach(s) >= Manifest
      OBVIOUS
    <3>1. m = 1 /\ f \in {0, 1}
      OBVIOUS
    <3> HIDE DEF m, f
    <3> QED  BY <1>1, <1>3, <2>1, <3>1, Plan
  <2>5. e \in Effects
    BY <2>1, Plan DEF Effects
  <2> HIDE DEF e
  <2>6. Reach(s) >= e => Position(s, e)
    BY <2>1, <2>3, Plan DEF Position
  <2>7. Reach(s) < e => Ready(s, e)
    <3> SUFFICES ASSUME Reach(s) < e PROVE Ready(s, e)
      OBVIOUS
    <3>1. s.manifestToken = None /\ s.finalToken = None
      BY <2>1, <2>2, <2>4, ReachNat, Plan
    <3> QED  BY <1>5, <2>1, <3>1 DEF Ready
  <2> QED  BY <2>5, <2>6, <2>7 DEF e
<1> QED  BY <1>1, <1>4, <1>5, Plan

\* A process that has just decided on the checkpoint of its next attempt.
LEMMA ProposeKeeps ==
  ASSUME IInv, NEW s \in Frontiers, Valid(s),
         NEW e \in Effects, Ready(s, e), NamesOwnObjects(s), NEW before \in Frontiers \cup {None},
         before # None => before \in InPlay, Reach(before) = e - 1,
         starts' \in 0..MaxStarts, starts <= starts',
         \A f \in Effects : f < e => shown[f] # <<>>,
         \A n, f \in Nat : HasToken(s, <<n, f>>) =>
            \E x \in InPlay : HasToken(x, <<n, f>>),
         \A x \in InPlay : \A f \in Nat : HasToken(x, <<starts', f>>) => f < e,
         run' = Checkpoint(before, Attempt(s, e, Token(starts', e)), e),
         UNCHANGED <<record, shown, posts, patches, acknowledged, rolledBack>>
  PROVE  IInv'
<1> USE DEF IInv
<1> DEFINE a == Attempt(s, e, Token(starts', e))
<1>1. e \in Nat /\ starts' \in Nat /\ starts \in Nat
  BY RunFacts, Plan
<1>2. Token(starts', e) = <<starts', e>> /\ Token(starts', e) \in Tokens
  BY <1>1 DEF Token, Tokens
<1>3. /\ a \in Frontiers /\ Valid(a) /\ Position(a, e)
      /\ Reach(a) = e /\ HasToken(a, <<starts', e>>)
      /\ \A u : HasToken(a, u) => HasToken(s, u) \/ u = <<starts', e>>
      /\ a.receipts = s.receipts /\ a.manifestReceipt = s.manifestReceipt
      /\ a.finalReceipt = s.finalReceipt
  BY <1>2, AttemptNext
<1> HIDE DEF a
<1>4. /\ run' \in Runs /\ run'.pc = "read" /\ run'.effect = e
      /\ run'.state = before /\ run'.after = a
  <2>1. e \in 0..Done
    BY Plan
  <2> QED  BY <1>3, <2>1 DEF Runs, Checkpoint, a
<1>5. InPlay' \subseteq InPlay \cup {a}
  BY <1>4 DEF InPlay
<1>6. TypeOK'
  BY <1>3, <1>4, <1>5 DEF TypeOK
<1>7. Place'
  BY <1>3, <1>4, NoneAssumption DEF Place, Writing
<1>8. Grounded'
  <2>1. NamesOwnObjects(a)
    BY <1>3 DEF NamesOwnObjects
  <2> QED  BY <1>3, <1>5, <2>1 DEF Grounded, NamesOwnObjects, Copies
<1>9. TokensKnown'
  <2>1. ASSUME NEW x \in InPlay', NEW n \in Nat, NEW f \in Nat,
               HasToken(x, <<n, f>>)
        PROVE  n <= starts' /\ (n = starts' => f <= e)
    <3>1. CASE \E y \in InPlay : HasToken(y, <<n, f>>)
      <4>1. n <= starts
        BY <3>1 DEF TokensKnown
      <4>2. n = starts' => f < e
        BY <3>1
      <4> QED  BY <1>1, <4>1, <4>2
    <3>2. CASE <<n, f>> = <<starts', e>>
      BY <1>1, <3>2
    <3>3. \/ \E y \in InPlay : HasToken(y, <<n, f>>)
          \/ <<n, f>> = <<starts', e>>
      BY <1>3, <1>5, <2>1
    <3> QED  BY <3>1, <3>2, <3>3
  <2>2. \A x \in ({record} \cup patches) \ {None} : ~HasToken(x, <<starts', e>>)
    <3>1. \A x \in ({record} \cup patches) \ {None} : x \in InPlay
      BY DEF InPlay
    <3>2. ~(e < e)
      BY <1>1
    <3> QED  BY <1>1, <3>1, <3>2
  <2> QED  BY <1>1, <1>4, <2>1, <2>2 DEF TokensKnown
<1>10. OnceInOrder'
  BY <1>4 DEF OnceInOrder
<1> QED  BY <1>6, <1>7, <1>8, <1>9, <1>10

\* A process that goes on to look for the effect its frontier stands at.
LEMMA LookKeeps ==
  ASSUME IInv, NEW s \in InPlay, NEW e \in Effects, Position(s, e),
         starts' \in 0..MaxStarts, starts <= starts',
         \A x \in InPlay : \A f \in Nat : HasToken(x, <<starts', f>>) => f <= e,
         run' = At("census", e, s),
         UNCHANGED <<record, shown, posts, patches, acknowledged, rolledBack>>
  PROVE  IInv'
<1> USE DEF IInv
<1>1. s \in Frontiers /\ s # None
  BY RunFacts DEF InPlay
<1>2. /\ run' \in Runs /\ run'.pc = "census" /\ run'.effect = e
      /\ run'.state = s /\ run'.after = None
  <2>1. e \in 0..Done
    BY Plan
  <2> QED  BY <1>1, <2>1 DEF Runs, At
<1>3. InPlay' \subseteq InPlay
  BY <1>2 DEF InPlay
<1>4. TypeOK'
  BY <1>2, <1>3 DEF TypeOK
<1>5. Place'
  BY <1>1, <1>2 DEF Place, Writing
<1>6. Grounded'
  BY <1>3 DEF Grounded, NamesOwnObjects, Copies
<1>7. TokensKnown'
  <2>1. \A n \in Nat : n <= starts => n <= starts'
    <3>1. starts \in Nat /\ starts' \in Nat
      BY RunFacts, Plan
    <3> QED  BY <3>1
  <2> QED  BY <1>2, <1>3, <2>1 DEF TokensKnown
<1>8. OnceInOrder'
  BY <1>2 DEF OnceInOrder
<1> QED  BY <1>4, <1>5, <1>6, <1>7, <1>8

LEMMA StartKeeps ==
  ASSUME IInv, Start
  PROVE  IInv'
<1> USE DEF IInv
<1> DEFINE s == IF record = None THEN Prepared ELSE record
           e == FirstPending(s)
<1>1. /\ starts' = starts + 1 /\ starts' \in 0..MaxStarts /\ starts <= starts'
      /\ starts \in Nat
      /\ UNCHANGED <<record, shown, posts, patches, acknowledged, rolledBack>>
  <2>1. starts < MaxStarts /\ starts' = starts + 1
    BY DEF Start
  <2> QED  BY <2>1, RunFacts, Plan DEF Start
<1>2. run' = IF Reach(s) >= e THEN At("census", e, record)
             ELSE Checkpoint(record, Attempt(s, e, Token(starts', e)), e)
  BY <1>1 DEF Start
<1>3. /\ s \in Frontiers /\ Valid(s) /\ record \in Frontiers \cup {None}
      /\ record # None => record \in InPlay
  BY RunFacts, PreparedFrontier DEF TypeOK
<1>4. /\ e \in Effects
      /\ Reach(s) >= e => Position(s, e)
      /\ Reach(s) < e => Ready(s, e)
  BY <1>3, Enter
<1>5. Reach(Prepared) = 0 /\ Reach(None) = 0 /\ Prepared # None
  <2>1. Reach(Prepared) = 0
    <3>1. Reach(Prepared) =
            Len(Prepared.tokens) + (IF Prepared.manifestToken = None THEN 0 ELSE 1)
                                 + (IF Prepared.finalToken = None THEN 0 ELSE 1)
      BY PreparedFrontier, ReachOf
    <3>2. 0 + 0 + 0 = 0
      OBVIOUS
    <3> QED  BY <3>1, <3>2, PreparedFrontier
  <2> QED  BY <2>1, PreparedFrontier, NoneAssumption DEF Reach
<1>6. Reach(record) = Reach(s) /\ Reach(s) \in Nat
  BY <1>3, <1>5, ReachNat
<1>7. \A n, f \in Nat : HasToken(s, <<n, f>>) =>
         \E x \in InPlay : HasToken(x, <<n, f>>)
  <2>1. CASE record = None
    <3>1. \A n, f \in Nat : <<n, f>> # None
      BY NoneApart DEF Tokens
    <3>2. DOMAIN Prepared.tokens = {}
      BY PreparedFrontier
    <3> QED  BY <2>1, <3>1, <3>2, PreparedFrontier DEF HasToken
  <2>2. CASE record # None
    BY <1>3, <2>2
  <2> QED  BY <2>1, <2>2
<1>8. \A x \in InPlay : \A f \in Nat : ~HasToken(x, <<starts', f>>)
  <2>1. ~(starts' <= starts) /\ starts' \in Nat
    BY <1>1
  <2> QED  BY <2>1 DEF TokensKnown
<1>9. CASE Reach(s) >= e
  <2>1. record # None
    <3>1. 0 \in Nat /\ \A g \in Effects : ~(0 >= g)
      BY Plan
    <3> QED  BY <1>4, <1>5, <1>9, <3>1
  <2>2. s = record /\ s \in InPlay
    BY <1>3, <2>1
  <2> HIDE DEF s, e
  <2> QED  BY <1>1, <1>2, <1>4, <1>8, <1>9, <2>2, LookKeeps
<1>10. CASE Reach(s) < e
  <2> HIDE DEF s, e
  <2>1. e \in Nat /\ ~(Reach(s) >= e)
    BY <1>4, <1>6, <1>10, Plan
  <2>2. Ready(s, e)
    BY <1>4, <1>10
  <2>3. Reach(s) = e - 1
    <3>1. <<0, 0>> \in Tokens
      BY DEF Tokens
    <3> QED  BY <1>3, <1>4, <2>2, <3>1, AttemptNext
  <2>4. NamesOwnObjects(s)
    <3>1. CASE record = None
      BY <3>1, PreparedFrontier DEF NamesOwnObjects, s
    <3>2. CASE record # None
      BY <1>3, <3>2 DEF Grounded, s
    <3> QED  BY <3>1, <3>2
  <2>5. e = Len(s.receipts) + 1 /\ Len(s.receipts) \in Nat
    BY <1>3, FrontierFields DEF FirstPending, e
  <2>6. \A f \in Effects : f < e => shown[f] # <<>>
    <3> SUFFICES ASSUME NEW f \in Effects, f < e PROVE shown[f] # <<>>
      OBVIOUS
    <3>1. f \in DOMAIN s.receipts
      <4>1. f \in 1 .. Len(s.receipts)
        BY <2>5, Plan
      <4> QED  BY <1>3, <4>1, FrontierFields
    <3>2. Copies(f) # {}
      BY <2>4, <3>1 DEF NamesOwnObjects
    <3> QED  BY <3>2, VisibleNatives
  <2>7. \A x \in InPlay : \A f \in Nat : HasToken(x, <<starts', f>>) => f < e
    BY <1>8
  <2>8. run' = Checkpoint(record, Attempt(s, e, Token(starts', e)), e)
    BY <1>2, <2>1
  <2>9. Reach(record) = e - 1
    BY <1>6, <2>3
  <2>10. s \in Frontiers /\ Valid(s) /\ record \in Frontiers \cup {None} /\ e \in Effects
    BY <1>3, <1>4
  <2> QED
    BY ONLY IInv, <1>1, <1>3, <1>7, <2>2, <2>4, <2>6, <2>7, <2>8, <2>9, <2>10,
            ProposeKeeps
<1> HIDE DEF s, e
<1>11. e \in Nat
  BY <1>4, Plan
<1> QED  BY <1>6, <1>9, <1>10, <1>11

\* The whole publication is confirmed in the last checkpoint.
LEMMA FinishKeeps ==
  ASSUME IInv, run.pc = "census", run.effect = Final,
         NEW native \in Copies(Final), native \in Natives, shown[Final] # <<>>,
         run' = Checkpoint(run.state, Confirm(run.state, Final, native), Done),
         UNCHANGED <<record, shown, posts, patches, starts, acknowledged, rolledBack>>
  PROVE  IInv'
<1> USE DEF IInv
<1> DEFINE s == run.state
           a == Confirm(s, Final, native)
<1>1. /\ s # None /\ Position(s, Final) /\ Final \in Effects /\ Done \in 0..Done
      /\ Done \notin Effects
  BY Plan DEF Place, Effects
<1>2. s \in Frontiers /\ Valid(s) /\ s \in InPlay /\ NamesOwnObjects(s)
  BY <1>1, RunFacts DEF Grounded
<1>3. /\ a \in Frontiers /\ Valid(a) /\ Reach(s) = Final /\ Reach(a) = Final
      /\ NamesOwnObjects(a) /\ \A u : HasToken(a, u) => HasToken(s, u)
  <2>1. /\ a \in Frontiers /\ Valid(a) /\ Reach(a) = Reach(s)
        /\ Reach(s) >= Final /\ Reach(s) <= Final
        /\ NamesOwnObjects(a) /\ \A u : HasToken(a, u) => HasToken(s, u)
    BY <1>1, <1>2, ConfirmHere
  <2> HIDE DEF a, s
  <2> QED  BY <1>2, <2>1, ReachNat, Plan
<1> HIDE DEF a
<1>4. /\ run' \in Runs /\ run'.pc = "read" /\ run'.effect = Done
      /\ run'.state = s /\ run'.after = a
  BY <1>1, <1>2, <1>3 DEF Runs, Checkpoint, a
<1> HIDE DEF s
<1>5. InPlay' \subseteq InPlay \cup {a}
  BY <1>2, <1>4 DEF InPlay
<1>6. \A f \in Effects : shown[f] # <<>>
  <2>1. \A f \in Effects : f < Final \/ f = Final
    BY Plan
  <2> QED  BY <1>2, <1>3, <2>1 DEF Grounded
<1>7. TypeOK'
  BY <1>3, <1>4, <1>5 DEF TypeOK
<1>8. Place'
  BY <1>1, <1>3, <1>4, <1>6, NoneAssumption DEF Place, Writing
<1>9. Grounded'
  BY <1>3, <1>5, <1>6 DEF Grounded, NamesOwnObjects, Copies
<1>10. TokensKnown'
  <2>1. \A x \in InPlay' : \A n, f \in Nat : HasToken(x, <<n, f>>) =>
           n <= starts /\ (n = starts => f <= Final)
    BY <1>2, <1>3, <1>5 DEF TokensKnown
  <2>2. \A f \in Nat : f <= Final => f <= Done
    BY Plan
  <2>3. ~(Done <= Final) /\ Done \in Nat /\ starts \in Nat
    BY Plan, RunFacts
  <2>4. \A x \in ({record} \cup patches) \ {None} : x \in InPlay'
    BY DEF InPlay
  <2> QED  BY <1>4, <2>1, <2>2, <2>3, <2>4 DEF TokensKnown
<1>11. OnceInOrder'
  BY <1>4 DEF OnceInOrder
<1> QED  BY <1>7, <1>8, <1>9, <1>10, <1>11

LEMMA CensusKeeps ==
  ASSUME IInv, Census
  PROVE  IInv'
<1> USE DEF IInv
<1> DEFINE s == run.state
           e == run.effect
<1>1. /\ run.pc = "census" /\ e \in Effects /\ s # None /\ Position(s, e)
      /\ UNCHANGED <<record, shown, posts, patches, starts, acknowledged, rolledBack>>
  BY DEF Place, Census
<1>2. /\ s \in Frontiers /\ Valid(s) /\ s \in InPlay /\ NamesOwnObjects(s)
      /\ starts' \in 0..MaxStarts /\ starts' = starts /\ starts \in Nat /\ e \in Nat
  BY <1>1, RunFacts, Plan DEF Grounded, TypeOK
<1>3. \/ run' = Idle
      \/ \E retained, known, native :
           /\ native \in Visible /\ Found(retained, s, e, known, native)
           /\ run' = Settled(s, e, native)
  BY DEF Census
<1>4. CASE run' = Idle
  <2>1. acknowledged' \in BOOLEAN
    BY <1>1 DEF TypeOK
  <2> QED  BY <1>1, <1>4, <2>1, EndKeeps
<1>5. CASE run' # Idle
  <2>1. PICK retained, known, native :
          /\ native \in Visible /\ Found(retained, s, e, known, native)
          /\ run' = Settled(s, e, native)
    BY <1>3, <1>5
  <2>2. native \in Copies(e) /\ native \in Natives /\ shown[e] # <<>>
    BY <1>1, <2>1, FoundIsOwn
  <2> DEFINE c == Confirm(s, e, native)
  <2>3. /\ c \in Frontiers /\ Valid(c) /\ Reach(c) = Reach(s)
        /\ Reach(s) >= e /\ Reach(s) <= Final
        /\ Reach(s) > e => e = Manifest /\ s.finalToken # None
        /\ Reach(s) = e /\ e # Final => Ready(c, e + 1)
        /\ \A u : HasToken(c, u) => HasToken(s, u)
        /\ NamesOwnObjects(c)
    BY <1>1, <1>2, <2>2, ConfirmHere
  <2>4. \A x \in InPlay : \A f \in Nat : HasToken(x, <<starts', f>>) => f < e + 1
    BY <1>1, <1>2 DEF TokensKnown
  <2>5. CASE e = Final
    <3>1. run' = Checkpoint(run.state, Confirm(run.state, Final, native), Done)
      BY <2>1, <2>5 DEF Settled
    <3> QED  BY <1>1, <2>2, <2>5, <3>1, FinishKeeps
  <2>6. CASE e # Final /\ Reach(s) > e
    <3>1. run' = At("census", e + 1, s) /\ e + 1 = Final /\ e + 1 \in Effects
      BY <2>1, <2>3, <2>6, Plan DEF Settled, Effects
    <3>2. Position(s, e + 1)
      BY <2>3, <2>6, <3>1, Plan DEF Position, Parts
    <3>3. \A x \in InPlay : \A f \in Nat :
             HasToken(x, <<starts', f>>) => f <= e + 1
      BY <1>2, <2>4
    <3>4. starts <= starts'
      BY <1>2
    <3> QED  BY <1>1, <1>2, <3>1, <3>2, <3>3, <3>4, LookKeeps
  <2>7. CASE e # Final /\ ~(Reach(s) > e)
    <3>1. Reach(s) = e /\ Reach(s) \in Nat
      BY <1>2, <2>3, <2>7, ReachNat
    <3>2. e + 1 \in Effects
      BY <1>1, <2>7, Plan DEF Effects
    <3>3. run' = Checkpoint(s, Attempt(c, e + 1, Token(starts', e + 1)), e + 1)
      BY <1>2, <2>1, <2>7 DEF Settled
    <3>4. /\ Ready(c, e + 1) /\ Reach(s) = (e + 1) - 1 /\ starts <= starts'
      BY <1>2, <2>3, <2>7, <3>1
    <3>5. \A f \in Effects : f < e + 1 => shown[f] # <<>>
      <4>1. \A f \in Effects : f < e + 1 => f < Reach(s) \/ f = e
        BY <1>2, <3>1, Plan
      <4> QED  BY <1>2, <2>2, <4>1 DEF Grounded
    <3>6. \A n, f \in Nat : HasToken(c, <<n, f>>) =>
             \E x \in InPlay : HasToken(x, <<n, f>>)
      BY <1>2, <2>3
    <3> HIDE DEF c, s, e
    <3> QED
      BY ONLY IInv, <1>1, <1>2, <2>3, <2>4, <3>2, <3>3, <3>4, <3>5, <3>6, ProposeKeeps
  <2> QED  BY <2>5, <2>6, <2>7
<1> QED  BY <1>4, <1>5

-----------------------------------------------------------------------------
(* Theorems                                                                *)

LEMMA ReadRecordKeeps ==
  ASSUME IInv, ReadRecord
  PROVE  IInv'
<1> USE DEF ReadRecord
<1>1. CASE run' = Idle
  <2>1. acknowledged' \in BOOLEAN
    BY DEF IInv, TypeOK
  <2> QED  BY <1>1, <2>1, EndKeeps
<1>2. CASE run' # Idle
  <2>1. record = run.after \/ record = run.state
    BY <1>2
  <2>2. run' = [run EXCEPT !.pc = "write"]
    BY <1>2
  <2> QED  BY <2>1, <2>2, ReadKeeps
<1> QED  BY <1>1, <1>2

LEMMA ReadBackStepKeeps ==
  ASSUME IInv, ReadBack
  PROVE  IInv'
<1>1. acknowledged' \in BOOLEAN
  BY DEF ReadBack, IInv, TypeOK
<1>2. CASE record # run.after \/ run.effect = Done
  BY <1>1, <1>2, EndKeeps DEF ReadBack
<1>3. CASE ~(record # run.after \/ run.effect = Done)
  BY <1>1, <1>3, ReadBackKeeps DEF ReadBack
<1> QED  BY <1>2, <1>3

LEMMA RequireClaimKeeps ==
  ASSUME IInv, RequireClaim
  PROVE  IInv'
<1>1. CASE record = run.state
  BY <1>1, ClaimKeeps DEF RequireClaim
<1>2. CASE record # run.state
  <2>1. acknowledged' \in BOOLEAN
    BY DEF RequireClaim, IInv, TypeOK
  <2> QED  BY <1>2, <2>1, EndKeeps DEF RequireClaim
<1> QED  BY <1>1, <1>2

LEMMA CrashKeeps ==
  ASSUME IInv, Crash
  PROVE  IInv'
<1>1. acknowledged' \in BOOLEAN
  BY DEF Crash, IInv, TypeOK
<1> QED  BY <1>1, EndKeeps DEF Crash

LEMMA StutterKeeps ==
  ASSUME IInv, UNCHANGED vars
  PROVE  IInv'
<1>1. /\ record' = record /\ shown' = shown /\ posts' = posts
      /\ patches' = patches /\ run' = run /\ starts' = starts
      /\ acknowledged' = acknowledged /\ rolledBack' = rolledBack
  BY DEF vars
<1>2. InPlay' = InPlay
  BY <1>1 DEF InPlay
<1>3. TypeOK'
  BY <1>1, <1>2 DEF IInv, TypeOK
<1>4. Place'
  BY <1>1 DEF IInv, Place, Writing
<1>5. Grounded'
  BY <1>1, <1>2 DEF IInv, Grounded, NamesOwnObjects, Copies
<1>6. TokensKnown'
  BY <1>1, <1>2 DEF IInv, TokensKnown
<1>7. OnceInOrder'
  BY <1>1 DEF IInv, OnceInOrder, Free
<1> QED  BY <1>3, <1>4, <1>5, <1>6, <1>7 DEF IInv

LEMMA Preserve == IInv /\ [Next]_vars => IInv'
<1> SUFFICES ASSUME IInv, [Next]_vars PROVE IInv'
  OBVIOUS
<1>1. CASE Process
  BY <1>1, StartKeeps, ReadRecordKeeps, WriteAnsweredKeeps, WriteUnansweredKeeps,
     ReadBackStepKeeps, RequireClaimKeeps, PostAnsweredKeeps, PostUnansweredKeeps,
     CensusKeeps, CrashKeeps
     DEF Process
<1>2. CASE GitHub
  BY <1>2, LatePostKeeps, LostPostKeeps, LatePatchKeeps, LostPatchKeeps DEF GitHub
<1> QED  BY <1>1, <1>2, StutterKeeps DEF Next

LEMMA Invariance == Spec => []IInv
BY Establish, Preserve, PTL DEF Spec

\* Whatever is lost, late or killed, every frontier that is retained, delayed or
\* proposed is one that the PublicationStaging constructor accepts.
THEOREM PublicationTypeOK == Spec => []TypeOK
<1>1. IInv => TypeOK
  BY DEF IInv
<1> QED  BY <1>1, Invariance, PTL

\* A confirmed effect is confirmed by a copy of itself, for every plan and
\* whatever earlier reviews of the head look like.
THEOREM ReceiptsAreOwn == Spec => []ReceiptsNameOwnObjects
<1>1. IInv => ReceiptsNameOwnObjects
  BY DEF IInv, Grounded, ReceiptsNameOwnObjects
<1> QED  BY <1>1, Invariance, PTL

-----------------------------------------------------------------------------
(* The refinement                                                          *)

Counts == [e \in Effects |-> Len(shown[e])]

LEMMA CountsFacts ==
  ASSUME TypeOK
  PROVE  \A e \in Effects :
           /\ Counts[e] \in Nat
           /\ shown[e] = <<>> => Counts[e] = 0
           /\ shown[e] # <<>> => Counts[e] > 0
<1> SUFFICES ASSUME NEW e \in Effects
             PROVE  /\ Len(shown[e]) \in Nat
                    /\ shown[e] = <<>> => Len(shown[e]) = 0
                    /\ shown[e] # <<>> => Len(shown[e]) > 0
  BY DEF Counts
<1>1. shown[e] \in Seq(Seq(Natives))
  BY DEF TypeOK
<1> QED  BY <1>1

LEMMA CountsAfter ==
  ASSUME TypeOK, NEW e \in Effects, NEW says \in Seq(Natives),
         shown' = [shown EXCEPT ![e] = Append(@, says)]
  PROVE  Counts' = [Counts EXCEPT ![e] = @ + 1]
<1>1. Len(shown'[e]) = Len(shown[e]) + 1
  BY ShowOne
<1>2. \A f \in Effects : f # e => Len(shown'[f]) = Len(shown[f])
  BY ShowOne
<1>3. Counts' = [f \in Effects |-> Len(shown'[f])]
  BY DEF Counts
<1>4. DOMAIN Counts = Effects /\ DOMAIN Counts' = Effects
  BY <1>3 DEF Counts
<1>5. Counts'[e] = Counts[e] + 1
  BY <1>1, <1>3 DEF Counts
<1>6. \A f \in Effects : f # e => Counts'[f] = Counts[f]
  BY <1>2, <1>3 DEF Counts
<1> QED  BY <1>3, <1>4, <1>5, <1>6 DEF Counts

\* An object appears.
LEMMA AppearStep ==
  ASSUME TypeOK, NEW e \in Effects, NEW says \in Seq(Natives),
         shown' = [shown EXCEPT ![e] = Append(@, says)],
         shown[e] = <<>> \/ rolledBack,
         \A f \in Effects : f < e => shown[f] # <<>>,
         UNCHANGED <<acknowledged, rolledBack>>
  PROVE  Promise!Next
<1>1. Counts' = [Counts EXCEPT ![e] = @ + 1]
  BY CountsAfter
<1>2. Counts[e] = 0 \/ rolledBack
  BY CountsFacts
<1>3. \A f \in Effects : f < e => Counts[f] > 0
  BY CountsFacts
<1>4. Promise!Appear(e)
  BY <1>1, <1>2, <1>3 DEF Promise!Appear, Counts
<1> QED  BY <1>4 DEF Promise!Next

\* A write of the record lands.
LEMMA LandStep ==
  ASSUME NEW after, Land(after), UNCHANGED <<shown, acknowledged>>, TypeOK
  PROVE  Promise!Next \/ UNCHANGED Promise!vars
<1>1. Counts' = Counts
  BY DEF Counts
<1>2. rolledBack' = TRUE \/ rolledBack' = rolledBack
  BY Zenon DEF Land, TypeOK
<1>3. CASE rolledBack' = TRUE
  <2>1. Promise!RollBack
    BY <1>1, <1>3 DEF Promise!RollBack, Counts
  <2> QED  BY <2>1 DEF Promise!Next
<1>4. CASE rolledBack' = rolledBack
  BY <1>1, <1>4 DEF Promise!vars, Counts
<1> QED  BY <1>2, <1>3, <1>4

LEMMA QuietStep ==
  ASSUME UNCHANGED <<shown, acknowledged, rolledBack>>
  PROVE  UNCHANGED Promise!vars
BY DEF Promise!vars

LEMMA PromiseInit == Init => Promise!Init
<1> SUFFICES ASSUME Init PROVE Promise!Init
  OBVIOUS
<1>1. \A e \in Effects : Len(shown[e]) = 0
  BY DEF Init
<1> QED  BY <1>1 DEF Init, Promise!Init

\* A dispatch is of the effect the process claimed, which nothing else shows.
LEMMA DispatchStep ==
  ASSUME IInv, PostAnswered
  PROVE  Promise!Next
<1>1. /\ run.pc = "post"
      /\ shown' = [shown EXCEPT ![run.effect] =
                     Append(@, Says(run.state, run.effect))]
      /\ UNCHANGED <<acknowledged, rolledBack>>
  BY DEF PostAnswered
<1>2. run.effect \in Effects /\ run.state # None /\ Reach(run.state) = run.effect
  BY <1>1 DEF IInv, Place
<1>3. run.state \in InPlay
  BY <1>2 DEF InPlay
<1>4. run.state \in Frontiers
  BY <1>2 DEF IInv, TypeOK, Runs
<1>5. Says(run.state, run.effect) \in Seq(Natives)
  BY <1>4, SaysTyped
<1>6. \A f \in Effects : f < run.effect => shown[f] # <<>>
  BY <1>2, <1>3 DEF IInv, Grounded
<1>7. shown[run.effect] = <<>> \/ rolledBack
  BY <1>1, <1>2 DEF IInv, OnceInOrder, Free
<1>8. TypeOK
  BY DEF IInv
<1> QED  BY <1>1, <1>2, <1>5, <1>6, <1>7, <1>8, AppearStep

LEMMA LateDispatchStep ==
  ASSUME IInv, NEW p \in posts, LatePost(p)
  PROVE  Promise!Next
<1>1. /\ shown' = [shown EXCEPT ![p.effect] = Append(@, p.says)]
      /\ UNCHANGED <<acknowledged, rolledBack>>
  BY DEF LatePost
<1>2. p.effect \in Effects /\ p.says \in Seq(Natives) /\ TypeOK
  BY DEF IInv, TypeOK
<1>3. \A f \in Effects : f < p.effect => shown[f] # <<>>
  BY DEF IInv, Grounded
<1>4. shown[p.effect] = <<>> \/ rolledBack
  BY DEF IInv, OnceInOrder
<1> QED  BY <1>1, <1>2, <1>3, <1>4, AppearStep

LEMMA ReturnStep ==
  ASSUME IInv, ReadBack
  PROVE  Promise!Next \/ UNCHANGED Promise!vars
<1>1. /\ run.pc = "readback"
      /\ acknowledged' = (acknowledged \/ (record = run.after /\ run.effect = Done))
      /\ UNCHANGED <<shown, rolledBack>>
  BY DEF ReadBack
<1>2. Counts' = Counts
  BY <1>1 DEF Counts
<1>3. CASE run.effect = Done
  <2>1. run.effect \notin Effects
    BY <1>3, Plan DEF Effects
  <2>2. \A f \in Effects : shown[f] # <<>>
    BY <1>1, <2>1 DEF IInv, Place, Writing
  <2>3. \A f \in Effects : Counts[f] > 0
    BY <2>2, CountsFacts DEF IInv
  <2>4. acknowledged' = TRUE \/ acknowledged' = acknowledged
    BY <1>1, Zenon DEF IInv, TypeOK
  <2>5. CASE acknowledged' = TRUE
    <3>1. Promise!Acknowledge
      BY <1>1, <1>2, <2>3, <2>5 DEF Promise!Acknowledge, Counts
    <3> QED  BY <3>1 DEF Promise!Next
  <2>6. CASE acknowledged' = acknowledged
    BY <1>1, <2>6, QuietStep
  <2> QED  BY <2>4, <2>5, <2>6
<1>4. CASE run.effect # Done
  <2>1. acknowledged' = acknowledged
    BY <1>1, <1>4, Zenon DEF IInv, TypeOK
  <2> QED  BY <1>1, <2>1, QuietStep
<1> QED  BY <1>3, <1>4

LEMMA PromiseStep == IInv /\ [Next]_vars => [Promise!Next]_(Promise!vars)
<1> SUFFICES ASSUME IInv, [Next]_vars
             PROVE  Promise!Next \/ UNCHANGED Promise!vars
  OBVIOUS
<1>1. CASE Start \/ ReadRecord \/ WriteUnanswered \/ RequireClaim
           \/ PostUnanswered \/ Census \/ Crash
  <2>1. UNCHANGED <<shown, acknowledged, rolledBack>>
    BY <1>1 DEF Start, ReadRecord, WriteUnanswered, RequireClaim,
                PostUnanswered, Census, Crash
  <2> QED  BY <2>1, QuietStep
<1>2. CASE WriteAnswered
  <2>1. Land(run.after) /\ UNCHANGED <<shown, acknowledged>> /\ TypeOK
    BY <1>2 DEF WriteAnswered, IInv
  <2> QED  BY <2>1, LandStep
<1>3. CASE ReadBack
  BY <1>3, ReturnStep
<1>4. CASE PostAnswered
  BY <1>4, DispatchStep
<1>5. ASSUME NEW p \in posts, LatePost(p) \/ LostPost(p)
      PROVE  Promise!Next \/ UNCHANGED Promise!vars
  <2>1. CASE LatePost(p)
    BY <2>1, LateDispatchStep
  <2>2. CASE LostPost(p)
    BY <2>2, QuietStep DEF LostPost
  <2> QED  BY <1>5, <2>1, <2>2
<1>6. ASSUME NEW w \in patches, LatePatch(w) \/ LostPatch(w)
      PROVE  Promise!Next \/ UNCHANGED Promise!vars
  <2>1. CASE LatePatch(w)
    <3>1. Land(w) /\ UNCHANGED <<shown, acknowledged>> /\ TypeOK
      BY <2>1 DEF LatePatch, IInv
    <3> QED  BY <3>1, LandStep
  <2>2. CASE LostPatch(w)
    BY <2>2, QuietStep DEF LostPatch
  <2> QED  BY <1>6, <2>1, <2>2
<1>7. CASE UNCHANGED vars
  BY <1>7, QuietStep DEF vars
<1> QED
  BY <1>1, <1>2, <1>3, <1>4, <1>5, <1>6, <1>7 DEF Next, Process, GitHub

\* The grouped publication implements the promise: its objects appear in their
\* order and once, whatever is late, lost or killed, until a late write takes an
\* attempt back.
THEOREM PromiseKept == Spec => Promised
BY PromiseInit, PromiseStep, Invariance, PTL DEF Spec, Promised, Promise!Spec

-----------------------------------------------------------------------------
(* What the walk proposes                                                  *)

LEMMA AttemptIsLegal ==
  ASSUME NEW s \in Frontiers, Valid(s), NEW e \in Effects, Ready(s, e),
         NEW t \in Tokens
  PROVE  /\ IsAttempt(s, Attempt(s, e, t))
         /\ e # Final => Attempt(s, e, t).finalToken = None
<1> USE Plan, FrontierFields, NoneApart
<1>1. CASE e \in Parts
  <2>1. /\ Attempt(s, e, t) = AttemptPart(s, t)
        /\ AttemptPart(s, t).tokens = Append(s.tokens, t)
        /\ AttemptPart(s, t).finalToken = s.finalToken
    BY <1>1 DEF Attempt, AttemptPart, Frontiers
  <2>2. /\ Len(Append(s.tokens, t)) = Len(s.tokens) + 1
        /\ Append(s.tokens, t)[Len(s.tokens) + 1] = t
    BY AppendFacts
  <2>3. /\ Len(AttemptPart(s, t).tokens) = Len(s.tokens) + 1
        /\ Newest(AttemptPart(s, t).tokens) = t
    BY <2>1, <2>2, Zenon DEF Newest
  <2>4. AttemptPartAccepts(s) /\ s.finalToken = None
    BY <1>1 DEF Ready, AttemptPartAccepts, Outstanding, Parts
  <2>5. AttemptPart(s, t) = AttemptPart(s, Newest(AttemptPart(s, t).tokens))
    BY <2>3, Zenon
  <2>6. IsAttempt(s, AttemptPart(s, t))
    BY <2>3, <2>4, <2>5, Zenon DEF IsAttempt
  <2> QED  BY <2>1, <2>4, <2>6
<1>2. CASE e = Manifest
  <2>1. /\ Attempt(s, e, t) = AttemptManifest(s, t)
        /\ AttemptManifest(s, t).manifestToken = t
        /\ AttemptManifest(s, t).finalToken = s.finalToken
    BY <1>2 DEF Attempt, AttemptManifest, Frontiers, Parts
  <2>2. AttemptManifestAccepts(s) /\ s.finalToken = None /\ t # None
    BY <1>2 DEF Ready, AttemptManifestAccepts, PartsConfirmed
  <2>3. IsAttempt(s, AttemptManifest(s, t))
    BY <2>1, <2>2, Zenon DEF IsAttempt
  <2> QED  BY <2>1, <2>2, <2>3
<1>3. CASE e = Final
  <2>1. /\ Attempt(s, e, t) = AttemptFinal(s, t)
        /\ AttemptFinal(s, t).finalToken = t
    BY <1>3 DEF Attempt, AttemptFinal, Frontiers, Parts
  <2>2. AttemptFinalAccepts(s) /\ t # None
    BY <1>3 DEF Ready, AttemptFinalAccepts, PartsConfirmed, ManifestSettled
  <2>3. IsAttempt(s, AttemptFinal(s, t))
    BY <2>1, <2>2, Zenon DEF IsAttempt
  <2> QED  BY <1>3, <2>1, <2>3
<1> QED  BY <1>1, <1>2, <1>3 DEF Effects, Parts

\* What an effect is confirmed by is the receipt it has, if it has one.
Agrees(s, e, native) ==
  /\ e = Manifest => s.manifestReceipt \in {None, native}
  /\ e = Final => s.finalReceipt \in {None, native}

LEMMA FoundAgrees ==
  ASSUME NEW s, NEW e \in Effects, NEW retained, NEW answered, NEW native,
         Found(retained, s, e, Known(s, e, answered), native)
  PROVE  Agrees(s, e, native)
<1>1. CASE e = Manifest
  <2>1. e \notin Parts /\ e # Final
    BY <1>1, Plan DEF Parts
  <2>2. Known(s, e, answered) \in {None, native}
    BY <1>1, <2>1, Zenon DEF Found, ManifestFound
  <2> QED  BY <1>1, <2>1, <2>2 DEF Known, Agrees
<1>2. CASE e = Final
  <2>1. e \notin Parts /\ e # Manifest
    BY <1>2, Plan DEF Parts
  <2>2. FinalFound(s, Known(s, e, answered), native)
    BY <2>1, Zenon DEF Found
  <2>3. native \in LookAlikes(s, 0, Known(s, e, answered))
    BY <2>2, Zenon DEF FinalFound
  <2>4. Known(s, e, answered) \in {None, native}
    BY <2>3, Zenon DEF LookAlikes
  <2> QED  BY <1>2, <2>1, <2>4 DEF Known, Agrees
<1> QED  BY <1>1, <1>2 DEF Agrees

LEMMA ConfirmIsLegal ==
  ASSUME NEW s \in Frontiers, Valid(s), NEW e \in Effects, Position(s, e),
         NEW native \in Natives, Agrees(s, e, native), NEW after,
         after.receipts = Confirm(s, e, native).receipts,
         after.manifestReceipt = Confirm(s, e, native).manifestReceipt,
         after.finalReceipt = Confirm(s, e, native).finalReceipt
  PROVE  \/ Confirm(s, e, native) = s
         \/ Confirm(s, e, native) \in Confirmations(s, after)
<1> USE Plan, FrontierFields, NoneApart
<1> DEFINE c == Confirm(s, e, native)
<1>1. CASE e \in Parts
  <2>1. c = ConfirmPart(s, native) /\ c.receipts = Append(s.receipts, native)
    BY <1>1 DEF Confirm, ConfirmPart, Frontiers
  <2>2. /\ Len(Append(s.receipts, native)) = Len(s.receipts) + 1
        /\ Append(s.receipts, native)[Len(s.receipts) + 1] = native
    BY AppendFacts
  <2>3. Len(after.receipts) = Len(s.receipts) + 1 /\ Newest(after.receipts) = native
    BY <2>1, <2>2, Zenon DEF Newest
  <2>4. Outstanding(s)
    BY <1>1 DEF Position, Outstanding, Parts
  <2>5. c \in {ConfirmPart(s, Newest(after.receipts))}
    BY <2>1, <2>3, Zenon
  <2> HIDE DEF c
  <2> QED  BY <2>3, <2>4, <2>5, Zenon DEF Confirmations, c
<1>2. CASE e = Manifest
  <2>1. /\ c = ConfirmManifest(s, native) /\ c.manifestReceipt = native
        /\ s.manifestToken # None
    BY <1>2 DEF Confirm, ConfirmManifest, Frontiers, Parts, Position
  <2>2. CASE s.manifestReceipt = native
    BY <2>1, <2>2 DEF ConfirmManifest, Frontiers
  <2>3. CASE s.manifestReceipt = None
    <3>1. ConfirmManifestAccepts(s) /\ after.manifestReceipt = native
      BY <2>1, <2>3 DEF ConfirmManifestAccepts
    <3> QED  BY <2>1, <3>1 DEF Confirmations
  <2> QED  BY <1>2, <2>2, <2>3 DEF Agrees
<1>3. CASE e = Final
  <2>1. /\ c = ConfirmFinal(s, native) /\ c.finalReceipt = native
        /\ s.finalToken # None
    BY <1>3 DEF Confirm, ConfirmFinal, Frontiers, Parts, Position
  <2>2. CASE s.finalReceipt = native
    BY <2>1, <2>2 DEF ConfirmFinal, Frontiers
  <2>3. CASE s.finalReceipt = None
    <3>1. ConfirmFinalAccepts(s) /\ after.finalReceipt = native
      BY <2>1, <2>3 DEF ConfirmFinalAccepts
    <3> QED  BY <2>1, <3>1 DEF Confirmations
  <2> QED  BY <1>3, <2>2, <2>3 DEF Agrees
<1> QED  BY <1>1, <1>2, <1>3 DEF Effects, Parts

LEMMA StartProposes ==
  ASSUME IInv, Start
  PROVE  ProposalsAreLegal'
<1> DEFINE s == IF record = None THEN Prepared ELSE record
           e == FirstPending(s)
           a == Attempt(s, e, Token(starts', e))
<1>1. starts' = starts + 1 /\ starts \in Nat
  BY RunFacts DEF Start, IInv
<1>2. run' = IF Reach(s) >= e THEN At("census", e, record)
             ELSE Checkpoint(record, a, e)
  BY <1>1 DEF Start
<1>3. /\ s \in Frontiers /\ Valid(s)
      /\ e \in Effects /\ (Reach(s) < e => Ready(s, e))
  <2>1. s \in Frontiers /\ Valid(s)
    BY RunFacts, PreparedFrontier DEF IInv, TypeOK
  <2> QED  BY <2>1, Enter
<1>4. CASE Reach(s) >= e
  BY <1>2, <1>4 DEF At, ProposalsAreLegal
<1>5. CASE ~(Reach(s) >= e)
  <2>1. Ready(s, e)
    <3> HIDE DEF s, e
    <3> QED  BY <1>3, <1>5, ReachNat, Plan
  <2>2. Token(starts', e) \in Tokens
    <3> HIDE DEF s, e
    <3> QED  BY <1>1, <1>3, Plan DEF Token, Tokens
  <2>3. IsAttempt(s, a) /\ (e # Final => a.finalToken = None)
    <3> HIDE DEF s, e
    <3> QED  BY <1>3, <2>1, <2>2, AttemptIsLegal
  <2>4. run'.state = record /\ run'.after = a
    BY <1>2, <1>5 DEF Checkpoint
  <2>5. CASE record = None
    <3>1. e = 1 /\ e # Final /\ s = Prepared
      BY <2>5, PreparedFrontier, Plan DEF FirstPending
    <3>2. IsAttempt(Prepared, a) /\ a.finalToken = None
      BY <2>3, <3>1
    <3> HIDE DEF a
    <3> QED  BY <2>4, <2>5, <3>2 DEF ProposalsAreLegal, MayReplace
  <2>6. CASE record # None
    <3>1. IsAttempt(record, a)
      BY <2>3, <2>6
    <3> HIDE DEF a
    <3> QED  BY <2>4, <2>6, <3>1 DEF ProposalsAreLegal, MayReplace, IsSuccessor
  <2> QED  BY <2>5, <2>6
<1> QED  BY <1>4, <1>5

LEMMA CensusProposes ==
  ASSUME IInv, Census
  PROVE  ProposalsAreLegal'
<1> DEFINE s == run.state
           e == run.effect
<1>1. /\ e \in Effects /\ s # None /\ Position(s, e)
      /\ s \in Frontiers /\ Valid(s) /\ e \in Nat /\ starts \in Nat
  BY RunFacts, Plan DEF Place, Census, IInv
<1>2. \/ run' = Idle
      \/ \E retained, native :
           /\ native \in Visible
           /\ Found(retained, s, e, Known(s, e, run.known), native)
           /\ run' = Settled(s, e, native)
  BY DEF Census
<1>3. CASE run' = Idle
  BY <1>3 DEF Idle, At, ProposalsAreLegal
<1>4. CASE run' # Idle
  <2>1. PICK retained, native :
          /\ native \in Visible
          /\ Found(retained, s, e, Known(s, e, run.known), native)
          /\ run' = Settled(s, e, native)
    BY <1>2, <1>4
  <2>2. native \in Natives /\ Agrees(s, e, native)
    <3>1. Agrees(s, e, native)
      BY <1>1, <2>1, FoundAgrees
    <3>2. native \in Natives
      BY <1>1, <2>1, FoundIsOwn DEF IInv
    <3> QED  BY <3>1, <3>2
  <2> DEFINE c == Confirm(s, e, native)
             a == Attempt(c, e + 1, Token(starts, e + 1))
  <2>3. /\ c \in Frontiers /\ Valid(c) /\ Reach(s) >= e
        /\ Reach(s) = e /\ e # Final => Ready(c, e + 1)
    BY <1>1, <2>2, ConfirmHere
  <2>4. CASE e = Final
    <3>1. run'.state = s /\ run'.after = c
      BY <2>1, <2>4 DEF Settled, Checkpoint
    <3>2. c = s \/ c \in Confirmations(s, c)
      BY <1>1, <2>2, ConfirmIsLegal
    <3> HIDE DEF c, s
    <3> QED  BY <1>1, <3>1, <3>2 DEF ProposalsAreLegal, MayReplace, IsSuccessor
  <2>5. CASE e # Final /\ Reach(s) > e
    BY <2>1, <2>5 DEF Settled, At, ProposalsAreLegal
  <2>6. CASE e # Final /\ ~(Reach(s) > e)
    <3>1. run'.state = s /\ run'.after = a
      BY <2>1, <2>6 DEF Settled, Checkpoint
    <3>2. Reach(s) = e /\ e + 1 \in Effects
      BY <1>1, <2>3, <2>6, ReachNat, Plan DEF Effects
    <3>3. Ready(c, e + 1) /\ Token(starts, e + 1) \in Tokens
      BY <1>1, <2>3, <2>6, <3>2 DEF Token, Tokens
    <3> HIDE DEF c
    <3>4. IsAttempt(c, a)
      BY <2>3, <3>2, <3>3, AttemptIsLegal
    <3>5. /\ a.receipts = c.receipts /\ a.manifestReceipt = c.manifestReceipt
          /\ a.finalReceipt = c.finalReceipt
      BY <2>3, <3>2, <3>3, AttemptNext
    <3> HIDE DEF a
    <3>6. c = s \/ c \in Confirmations(s, a)
      BY <1>1, <2>2, <3>5, ConfirmIsLegal DEF c
    <3> HIDE DEF s
    <3> QED
      BY <1>1, <3>1, <3>4, <3>6 DEF ProposalsAreLegal, MayReplace, IsSuccessor
  <2> QED  BY <2>4, <2>5, <2>6
<1> QED  BY <1>3, <1>4

LEMMA ProposalStep == IInv /\ ProposalsAreLegal /\ [Next]_vars => ProposalsAreLegal'
<1> SUFFICES ASSUME IInv, ProposalsAreLegal, [Next]_vars
             PROVE  ProposalsAreLegal'
  OBVIOUS
<1>1. CASE Start
  BY <1>1, StartProposes
<1>2. CASE Census
  BY <1>2, CensusProposes
<1>3. CASE run'.pc # "read" \/ run' = run
  BY <1>3 DEF ProposalsAreLegal
<1>4. CASE ReadRecord \/ WriteAnswered \/ WriteUnanswered \/ ReadBack
           \/ RequireClaim \/ PostAnswered \/ PostUnanswered \/ Crash
  <2>1. \A p, e, r : At(p, e, r).pc = p
    BY DEF At
  <2>2. Idle.pc = "idle"
    BY DEF Idle, At
  <2>3. ASSUME NEW p, run' = [run EXCEPT !.pc = p] PROVE run'.pc = p
    BY <2>3 DEF IInv, TypeOK, Runs
  <2>4. CASE ReadRecord
    <3>1. run'.pc = "write" \/ run' = Idle
      BY <2>3, <2>4 DEF ReadRecord
    <3> QED  BY <1>3, <2>2, <3>1
  <2>5. CASE WriteAnswered \/ RequireClaim \/ PostUnanswered
    <3>1. run'.pc \in {"readback", "post", "census"} \/ run' = Idle
      BY <2>3, <2>5 DEF WriteAnswered, RequireClaim, PostUnanswered
    <3> QED  BY <1>3, <2>2, <3>1
  <2>6. CASE ReadBack
    <3>1. run' = Idle \/ run'.pc = "claim"
      BY <2>1, <2>6 DEF ReadBack
    <3> QED  BY <1>3, <2>2, <3>1
  <2>7. CASE PostAnswered
    <3>1. run'.pc = "census"
      BY <2>7 DEF PostAnswered, IInv, TypeOK, Runs
    <3> QED  BY <1>3, <3>1
  <2>8. CASE WriteUnanswered \/ Crash
    BY <1>3, <2>2, <2>8 DEF WriteUnanswered, Crash
  <2> QED  BY <1>4, <2>4, <2>5, <2>6, <2>7, <2>8
<1>5. CASE GitHub \/ UNCHANGED vars
  <2>1. run' = run
    BY <1>5 DEF GitHub, LatePost, LostPost, LatePatch, LostPatch, vars
  <2> QED  BY <1>3, <2>1
<1> QED  BY <1>1, <1>2, <1>4, <1>5 DEF Next, Process

\* No process of any run proposes a frontier that the staging module refuses:
\* the walk of publish_final and require_staging_successor agree.
THEOREM ProposalsLegal == Spec => []ProposalsAreLegal
<1>1. Init => ProposalsAreLegal
  BY DEF Init, Idle, At, ProposalsAreLegal
<1> QED  BY <1>1, ProposalStep, Invariance, PTL DEF Spec
=============================================================================
