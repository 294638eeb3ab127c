----------------------- MODULE ConversationStoreProofs -----------------------
(***************************************************************************)
(* Theorems of ConversationStore for any bots, senders, requests, limits   *)
(* and bounds: who may write the file, how old what he writes may be, and  *)
(* that what was forgotten stays forgotten.                                *)
(***************************************************************************)
EXTENDS ConversationStore, SequenceTheorems, NaturalsInduction, WellFoundedInduction, TLAPS

-----------------------------------------------------------------------------
(* Sequences *)

(* What is kept of the first i, from what is kept of those before.         *)
Step(f, i, s, S) == IF i = 0 THEN << >> ELSE IF s[i] \in S THEN Append(f[i - 1], s[i]) ELSE f[i - 1]

(* The least of some numbers.                                              *)
LEMMA Least ==
  ASSUME NEW I \in SUBSET Nat, I # {}
  PROVE  \E m \in I : \A x \in I : m <= x
<1>1. PICK m \in I : \A x \in I : ~ (<<x, m>> \in OpToRel(<, Nat))
  BY NatLessThanWellFounded, WFMin
<1>2. \A x \in I : ~ (x < m)
  BY <1>1 DEF OpToRel
<1>3. \A x \in I : m <= x
  BY <1>2
<1> QED BY <1>3

(* The function of the prefixes exists.                                    *)
LEMMA PrefixesExist ==
  ASSUME NEW s, NEW S, NEW n \in Nat
  PROVE  \E f : f = [i \in 0 .. n |-> Step(f, i, s, S)]
<1> DEFINE Good(m) == \E f : f = [i \in 0 .. m |-> Step(f, i, s, S)]
<1> DEFINE Bad == {m \in Nat : ~Good(m)}
<1> SUFFICES ASSUME n \in Bad PROVE FALSE
  OBVIOUS
<1>1. Good(0)
  <2> DEFINE f == [i \in 0 .. 0 |-> << >>]
  <2>1. f = [i \in 0 .. 0 |-> Step(f, i, s, S)]
    BY DEF Step
  <2> QED BY <2>1
<1>2. PICK m \in Bad : \A x \in Bad : m <= x
  <2> HIDE DEF Good
  <2>1. Bad \in SUBSET Nat /\ Bad # {}
    OBVIOUS
  <2> QED BY <2>1, Least
<1>3. m - 1 \in Nat /\ Good(m - 1)
  <2>1. m \in Nat /\ m # 0
    BY <1>1, <1>2
  <2>2. m - 1 \in Nat /\ ~(m <= m - 1)
    BY <2>1
  <2> HIDE DEF Good
  <2> QED BY <1>2, <2>2
<1>4. PICK f : f = [i \in 0 .. m - 1 |-> Step(f, i, s, S)]
  BY <1>3
<1> DEFINE g == [i \in 0 .. m |-> IF i = m THEN Step(f, m, s, S) ELSE f[i]]
<1>5. g = [i \in 0 .. m |-> Step(g, i, s, S)]
  <2>1. m \in Nat
    BY <1>2
  <2>2. ASSUME NEW i \in 0 .. m PROVE g[i] = Step(g, i, s, S)
    <3>1. CASE i = 0 /\ i # m
      <4>1. g[i] = f[i] /\ i \in 0 .. m - 1
        BY <2>1, <3>1
      <4> HIDE DEF g
      <4>2. f[i] = Step(f, i, s, S)
        BY <1>4, <4>1
      <4> QED BY <3>1, <4>1, <4>2 DEF Step
    <3>2. CASE i # 0
      <4>1. i - 1 \in 0 .. m - 1 /\ i - 1 \in 0 .. m /\ i - 1 # m
        BY <2>1, <3>2
      <4>2. g[i - 1] = f[i - 1]
        BY <4>1
      <4>3. g[i] = Step(f, i, s, S)
        <5>1. CASE i = m
          BY <5>1
        <5>2. CASE i # m
          <6>1. i \in 0 .. m - 1
            BY <2>1, <5>2
          <6>2. g[i] = f[i]
            BY <5>2
          <6> HIDE DEF g
          <6> QED BY <1>4, <6>1, <6>2
        <5> QED BY <5>1, <5>2
      <4> HIDE DEF g
      <4> QED BY <3>2, <4>2, <4>3 DEF Step
    <3>3. CASE i = 0 /\ i = m
      BY <1>1, <1>2, <3>3
    <3> QED BY <3>1, <3>2, <3>3
  <2> QED BY <2>2
<1> HIDE DEF g
<1>6. Good(m)
  BY <1>5
<1> QED BY <1>2, <1>6

LEMMA OnlyPrefixes ==
  ASSUME NEW s, NEW S, Len(s) \in Nat
  PROVE  \E f : /\ f = [i \in 0 .. Len(s) |-> Step(f, i, s, S)]
                /\ Only(s, S) = f[Len(s)]
<1> DEFINE kept[i \in 0 .. Len(s)] ==
        IF i = 0 THEN << >>
        ELSE IF s[i] \in S THEN Append(kept[i - 1], s[i]) ELSE kept[i - 1]
<1>1. \E f : f = [i \in 0 .. Len(s) |-> Step(f, i, s, S)]
  BY PrefixesExist
<1>2. \E f : f = [i \in 0 .. Len(s) |->
        IF i = 0 THEN << >>
        ELSE IF s[i] \in S THEN Append(f[i - 1], s[i]) ELSE f[i - 1]]
  BY <1>1 DEF Step
<1>3. kept = [i \in 0 .. Len(s) |->
        IF i = 0 THEN << >>
        ELSE IF s[i] \in S THEN Append(kept[i - 1], s[i]) ELSE kept[i - 1]]
  BY <1>2
<1>4. Only(s, S) = kept[Len(s)]
  BY DEF Only
<1> HIDE DEF kept
<1>5. kept = [i \in 0 .. Len(s) |-> Step(kept, i, s, S)]
  BY <1>3 DEF Step
<1> QED BY <1>4, <1>5

LEMMA AppendKeeps ==
  ASSUME NEW T, NEW s \in Seq(T), NEW e \in T
  PROVE  Append(s, e) \in Seq(T) /\ ToSet(Append(s, e)) = ToSet(s) \cup {e}
<1>1. /\ Append(s, e) \in Seq(T) /\ Len(Append(s, e)) = Len(s) + 1
      /\ \A i \in 1 .. Len(s) : Append(s, e)[i] = s[i]
      /\ Append(s, e)[Len(s) + 1] = e
  BY AppendProperties
<1>2. /\ DOMAIN s = 1 .. Len(s) /\ DOMAIN Append(s, e) = 1 .. Len(s) + 1
      /\ 1 .. Len(s) + 1 = 1 .. Len(s) \cup {Len(s) + 1}
  BY <1>1
<1>3. ToSet(Append(s, e)) = ToSet(s) \cup {e}
  BY <1>1, <1>2 DEF ToSet
<1> QED BY <1>1, <1>3

(* What is kept of a sequence are its elements in the set.                 *)
LEMMA OnlyKeeps ==
  ASSUME NEW T, NEW s \in Seq(T), NEW S
  PROVE  /\ Only(s, S) \in Seq(T)
         /\ Len(Only(s, S)) <= Len(s)
         /\ ToSet(Only(s, S)) = ToSet(s) \cap S
<1>1. PICK f : f = [i \in 0 .. Len(s) |-> Step(f, i, s, S)] /\ Only(s, S) = f[Len(s)]
  <2>1. Len(s) \in Nat
    OBVIOUS
  <2> QED BY <2>1, OnlyPrefixes
<1> DEFINE Good(m) == /\ f[m] \in Seq(T) /\ Len(f[m]) <= m
                      /\ ToSet(f[m]) = {s[i] : i \in 1 .. m} \cap S
<1> DEFINE Bad == {m \in 0 .. Len(s) : ~Good(m)}
<1>2. Bad = {}
  <2> SUFFICES ASSUME Bad # {} PROVE FALSE
    OBVIOUS
  <2>1. PICK m \in Bad : \A x \in Bad : m <= x
    <3> HIDE DEF Good
    <3>1. Bad \in SUBSET Nat
      OBVIOUS
    <3> QED BY <3>1, Least
  <2>2. Good(0)
    <3>1. f[0] = << >>
      BY <1>1 DEF Step
    <3> QED BY <3>1 DEF ToSet
  <2>3. m \in 1 .. Len(s)
    BY <2>1, <2>2
  <2>4. m - 1 \in 0 .. Len(s) /\ ~(m <= m - 1)
    BY <2>3
  <2>5. Good(m - 1)
    <3> HIDE DEF Good
    <3> QED BY <2>1, <2>4
  <2>6. f[m] = IF s[m] \in S THEN Append(f[m - 1], s[m]) ELSE f[m - 1]
    <3>1. m \in 0 .. Len(s) /\ m # 0
      BY <2>3
    <3>2. f[m] = Step(f, m, s, S)
      BY <1>1, <3>1
    <3> QED BY <3>1, <3>2 DEF Step
  <2>7. s[m] \in T
    BY <2>3
  <2>8. {s[i] : i \in 1 .. m} = {s[i] : i \in 1 .. m - 1} \cup {s[m]}
    BY <2>3
  <2>9. CASE s[m] \in S
    <3>1. PICK g \in Seq(T), e \in T : g = f[m - 1] /\ e = s[m]
      BY <2>5, <2>7
    <3>2. /\ Append(g, e) \in Seq(T) /\ Len(Append(g, e)) = Len(g) + 1
          /\ \A i \in 1 .. Len(g) : Append(g, e)[i] = g[i]
          /\ Append(g, e)[Len(g) + 1] = e
      BY <3>1, AppendProperties
    <3>3. ToSet(Append(g, e)) = ToSet(g) \cup {e}
      BY AppendKeeps
    <3>4. Len(Append(g, e)) <= m
      BY <2>3, <2>5, <3>1, <3>2
    <3>5. f[m] = Append(g, e)
      BY <2>6, <2>9, <3>1
    <3>6. ToSet(f[m]) = {s[i] : i \in 1 .. m} \cap S
      BY <2>5, <2>8, <2>9, <3>1, <3>3, <3>5
    <3> QED BY <2>1, <3>2, <3>4, <3>5, <3>6
  <2>10. CASE s[m] \notin S
    <3>1. f[m] = f[m - 1]
      BY <2>6, <2>10
    <3>2. Len(f[m]) <= m
      BY <2>3, <2>5, <3>1
    <3> QED BY <2>1, <2>5, <2>8, <2>10, <3>1, <3>2
  <2> QED BY <2>9, <2>10
<1>3. Good(Len(s))
  <2> HIDE DEF Good
  <2>1. Len(s) \in 0 .. Len(s)
    OBVIOUS
  <2> QED BY <1>2, <2>1
<1>4. ToSet(s) = {s[i] : i \in 1 .. Len(s)}
  BY DEF ToSet
<1> QED BY <1>1, <1>3, <1>4

LEMMA Places ==
  ASSUME NEW T, NEW s \in Seq(T)
  PROVE  /\ DOMAIN s = 1 .. Len(s) /\ Len(s) \in Nat
         /\ \A i \in 1 .. Len(s) : s[i] \in ToSet(s) /\ s[i] \in T
         /\ \A x \in ToSet(s) : x \in T /\ \E i \in 1 .. Len(s) : x = s[i]
<1>1. DOMAIN s = 1 .. Len(s) /\ Len(s) \in Nat /\ \A i \in 1 .. Len(s) : s[i] \in T
  OBVIOUS
<1>2. ToSet(s) = {s[i] : i \in 1 .. Len(s)}
  BY <1>1 DEF ToSet
<1> QED BY <1>1, <1>2

LEMMA NewestKeeps ==
  ASSUME NEW T, NEW s \in Seq(T), NEW n \in Nat
  PROVE  /\ Newest(s, n) \in Seq(T)
         /\ Len(Newest(s, n)) <= n
         /\ ToSet(Newest(s, n)) \subseteq ToSet(s)
<1>1. CASE Len(s) <= n
  <2>1. Newest(s, n) = s
    BY <1>1 DEF Newest
  <2> QED BY <1>1, <2>1
<1>2. CASE ~(Len(s) <= n)
  <2>1. PICK first \in 1 .. Len(s) + 1 : first = Len(s) - n + 1
    <3>1. Len(s) - n + 1 \in 1 .. Len(s) + 1
      BY <1>2
    <3> QED BY <3>1
  <2>2. Newest(s, n) = SubSeq(s, first, Len(s))
    BY <1>2, <2>1 DEF Newest
  <2>3. /\ SubSeq(s, first, Len(s)) \in Seq(T)
        /\ Len(SubSeq(s, first, Len(s))) = IF first <= Len(s) THEN Len(s) - first + 1 ELSE 0
        /\ \A i \in 1 .. Len(s) - first + 1 : SubSeq(s, first, Len(s))[i] = s[first + i - 1]
    BY SubSeqProperties
  <2>4. Len(SubSeq(s, first, Len(s))) = n
    BY <2>1, <2>3
  <2>5. ASSUME NEW i \in 1 .. n PROVE SubSeq(s, first, Len(s))[i] \in ToSet(s)
    <3>1. first + i - 1 \in 1 .. Len(s) /\ i \in 1 .. Len(s) - first + 1
      BY <1>2, <2>1
    <3> QED BY <2>3, <3>1 DEF ToSet
  <2> QED BY <2>2, <2>3, <2>4, <2>5 DEF ToSet
<1> QED BY <1>1, <1>2

(* The function of a sequence's places is a sequence of what it has there. *)
LEMMA Mapped ==
  ASSUME NEW T, NEW S, NEW s \in Seq(S), NEW t, DOMAIN t = DOMAIN s, t = [i \in DOMAIN s |-> t[i]],
         \A i \in DOMAIN s : t[i] \in T
  PROVE  t \in Seq(T) /\ Len(t) = Len(s)
<1>1. DOMAIN s = 1 .. Len(s) /\ Len(s) \in Nat
  OBVIOUS
<1>2. t \in [1 .. Len(s) -> T]
  BY <1>1
<1> QED BY <1>1, <1>2

-----------------------------------------------------------------------------
(* What the operations of the memory leave *)

(* People about whom no more is known than others say.                     *)
Within(ps, qs) ==
  \A p \in ToSet(ps) : \E q \in ToSet(qs) :
    /\ p.sender = q.sender
    /\ \A round \in ToSet(p.rounds) : \E old \in ToSet(q.rounds) : round.by = old.by

AllFresh(ps) == \A p \in ToSet(ps) : \A round \in ToSet(p.rounds) : Fresh(round)

LEMMA WithinWithin ==
  ASSUME NEW ps, NEW qs, NEW rs, Within(ps, qs), Within(qs, rs)
  PROVE  Within(ps, rs)
<1> SUFFICES ASSUME NEW p \in ToSet(ps)
             PROVE  \E r \in ToSet(rs) :
                      /\ p.sender = r.sender
                      /\ \A round \in ToSet(p.rounds) : \E old \in ToSet(r.rounds) : round.by = old.by
  BY DEF Within
<1>1. PICK q \in ToSet(qs) :
        /\ p.sender = q.sender
        /\ \A round \in ToSet(p.rounds) : \E old \in ToSet(q.rounds) : round.by = old.by
  BY DEF Within
<1>2. PICK r \in ToSet(rs) :
        /\ q.sender = r.sender
        /\ \A round \in ToSet(q.rounds) : \E old \in ToSet(r.rounds) : round.by = old.by
  BY DEF Within
<1>3. \A round \in ToSet(p.rounds) : \E old \in ToSet(r.rounds) : round.by = old.by
  BY <1>1, <1>2
<1> QED BY <1>1, <1>2, <1>3

LEMMA SubsetWithin ==
  ASSUME NEW ps, NEW qs, ToSet(ps) \subseteq ToSet(qs)
  PROVE  Within(ps, qs)
BY DEF Within

LEMMA PersonWith ==
  ASSUME NEW p \in Person, NEW rounds \in Seq(Round)
  PROVE  LET q == [p EXCEPT !.rounds = rounds]
         IN  q \in Person /\ q.sender = p.sender /\ q.rounds = rounds
BY DEF Person

LEMMA ExpiredKeeps ==
  ASSUME NEW rounds \in Seq(Round)
  PROVE  /\ Expired(rounds) \in Seq(Round)
         /\ ToSet(Expired(rounds)) \subseteq ToSet(rounds)
         /\ \A round \in ToSet(Expired(rounds)) : Fresh(round)
<1> DEFINE S == {round \in Round : Fresh(round)}
<1>1. Expired(rounds) = Only(rounds, S)
  BY DEF Expired
<1>2. \A round \in S : Fresh(round)
  OBVIOUS
<1> HIDE DEF S
<1>3. Only(rounds, S) \in Seq(Round) /\ ToSet(Only(rounds, S)) = ToSet(rounds) \cap S
  BY OnlyKeeps
<1> QED BY <1>1, <1>2, <1>3

LEMMA SweepKeeps ==
  ASSUME NEW ps \in Seq(Person)
  PROVE  /\ Sweep(ps) \in Seq(Person)
         /\ Within(Sweep(ps), ps)
         /\ AllFresh(Sweep(ps))
<1> DEFINE fresh == [i \in DOMAIN ps |-> [ps[i] EXCEPT !.rounds = Expired(@)]]
<1> DEFINE S == {p \in Person : p.rounds # << >>}
<1>1. Sweep(ps) = Only(fresh, S)
  BY DEF Sweep
<1>2. ASSUME NEW i \in DOMAIN ps
      PROVE  /\ fresh[i] \in Person /\ ps[i] \in ToSet(ps) /\ fresh[i].sender = ps[i].sender
             /\ ToSet(fresh[i].rounds) \subseteq ToSet(ps[i].rounds)
             /\ \A round \in ToSet(fresh[i].rounds) : Fresh(round)
  <2>1. ps[i] \in Person /\ ps[i].rounds \in Seq(Round) /\ ps[i] \in ToSet(ps)
    <3>1. ps[i] \in Person /\ ps[i] \in ToSet(ps)
      BY Places
    <3> QED BY <3>1 DEF Person
  <2>2. PICK rounds : rounds = Expired(ps[i].rounds)
    OBVIOUS
  <2>3. /\ rounds \in Seq(Round) /\ ToSet(rounds) \subseteq ToSet(ps[i].rounds)
        /\ \A round \in ToSet(rounds) : Fresh(round)
    BY <2>1, <2>2, ExpiredKeeps
  <2>4. fresh[i] = [ps[i] EXCEPT !.rounds = rounds]
    BY <2>2
  <2>5. fresh[i] \in Person /\ fresh[i].sender = ps[i].sender /\ fresh[i].rounds = rounds
    <3> HIDE DEF fresh
    <3> QED BY <2>1, <2>3, <2>4, PersonWith
  <2> QED BY <2>1, <2>3, <2>5
<1>3. DOMAIN fresh = DOMAIN ps /\ fresh = [i \in DOMAIN ps |-> fresh[i]]
  OBVIOUS
<1> HIDE DEF fresh, S
<1>4. fresh \in Seq(Person)
  BY <1>2, <1>3, Mapped
<1>5. Only(fresh, S) \in Seq(Person) /\ ToSet(Only(fresh, S)) \subseteq ToSet(fresh)
  BY <1>4, OnlyKeeps
<1>6. Within(fresh, ps) /\ AllFresh(fresh)
  <2>1. \A p \in ToSet(fresh) : \E i \in DOMAIN ps : p = fresh[i]
    BY <1>3 DEF ToSet
  <2>2. ASSUME NEW p \in ToSet(fresh)
        PROVE  /\ \E q \in ToSet(ps) :
                    /\ p.sender = q.sender
                    /\ \A round \in ToSet(p.rounds) : \E old \in ToSet(q.rounds) : round.by = old.by
               /\ \A round \in ToSet(p.rounds) : Fresh(round)
    <3>1. PICK i \in DOMAIN ps : p = fresh[i]
      BY <2>1
    <3>2. \A round \in ToSet(p.rounds) : \E old \in ToSet(ps[i].rounds) : round.by = old.by
      BY <1>2, <3>1
    <3> QED BY <1>2, <3>1, <3>2
  <2> QED BY <2>2 DEF Within, AllFresh
<1>7. Within(Only(fresh, S), ps) /\ AllFresh(Only(fresh, S))
  BY <1>5, <1>6, SubsetWithin, WithinWithin DEF AllFresh
<1> QED BY <1>1, <1>5, <1>7

LEMMA WithoutKeeps ==
  ASSUME NEW ps \in Seq(Person), NEW s
  PROVE  /\ Without(ps, s) \in Seq(Person)
         /\ Within(Without(ps, s), ps)
         /\ \A p \in ToSet(Without(ps, s)) : p \in ToSet(ps) /\ p.sender # s
<1> DEFINE S == {p \in Person : p.sender # s}
<1>1. Without(ps, s) = Only(ps, S) /\ \A p \in S : p.sender # s
  BY DEF Without
<1> HIDE DEF S
<1>2. Only(ps, S) \in Seq(Person) /\ ToSet(Only(ps, S)) = ToSet(ps) \cap S
  BY OnlyKeeps
<1> QED BY <1>1, <1>2, SubsetWithin

LEMMA ConsultedKeeps ==
  ASSUME NEW ps \in Seq(Person), NEW s
  PROVE  Consulted(ps, s) \in Seq(Person) /\ Within(Consulted(ps, s), ps)
<1>1. PICK swept : swept = Sweep(ps)
  OBVIOUS
<1>2. swept \in Seq(Person) /\ Within(swept, ps)
  BY <1>1, SweepKeeps
<1> DEFINE S == {p \in Person : p.sender = s}
<1> DEFINE others == Without(swept, s)
<1> DEFINE mine == Only(swept, S)
<1>3. Consulted(ps, s) = others \o mine
  BY <1>1 DEF Consulted
<1> HIDE DEF S
<1>4. others \in Seq(Person) /\ ToSet(others) \subseteq ToSet(swept)
  BY <1>2, WithoutKeeps
<1>5. mine \in Seq(Person) /\ ToSet(mine) \subseteq ToSet(swept)
  BY <1>2, OnlyKeeps
<1> HIDE DEF others, mine
<1>6. /\ others \o mine \in Seq(Person) /\ Len(others \o mine) = Len(others) + Len(mine)
      /\ \A i \in 1 .. Len(others) + Len(mine) :
           (others \o mine)[i] = IF i <= Len(others) THEN others[i] ELSE mine[i - Len(others)]
  BY <1>4, <1>5, ConcatProperties
<1>7. ASSUME NEW p \in ToSet(others \o mine) PROVE p \in ToSet(swept)
  <2>1. PICK i \in 1 .. Len(others) + Len(mine) : p = (others \o mine)[i]
    BY <1>6 DEF ToSet
  <2>2. CASE i <= Len(others)
    <3>1. p = others[i] /\ i \in 1 .. Len(others)
      BY <1>6, <2>1, <2>2
    <3> QED BY <1>4, <3>1, Places
  <2>3. CASE ~(i <= Len(others))
    <3>1. p = mine[i - Len(others)] /\ i - Len(others) \in 1 .. Len(mine)
      BY <1>4, <1>5, <1>6, <2>1, <2>3
    <3> QED BY <1>5, <3>1, Places
  <2> QED BY <2>2, <2>3
<1> QED BY <1>2, <1>3, <1>6, <1>7, SubsetWithin, WithinWithin

LEMMA RestoredKeeps ==
  ASSUME now \in Nat, NEW ps \in Seq(Person)
  PROVE  /\ Restored(ps) \in Seq(Person)
         /\ Within(Restored(ps), ps)
         /\ AllFresh(Restored(ps))
<1> DEFINE clamp(round) == [round EXCEPT !.at = IF @ > now THEN now ELSE @]
<1> DEFINE restored(p) == [p EXCEPT !.rounds =
                             LET fresh == Expired(@)
                             IN  [i \in DOMAIN fresh |-> clamp(fresh[i])]]
<1> DEFINE back == [i \in DOMAIN ps |-> restored(ps[i])]
<1> DEFINE S == {p \in Person : p.rounds # << >>}
<1>1. Restored(ps) = Only(back, S)
  BY DEF Restored
<1>2. ASSUME NEW round \in Round, Fresh(round)
      PROVE  clamp(round) \in Round /\ clamp(round).by = round.by /\ Fresh(clamp(round))
  <2>1. PICK at : at = IF round.at > now THEN now ELSE round.at
    OBVIOUS
  <2>2. round.by \in Request /\ round.at \in Nat /\ round = [by |-> round.by, at |-> round.at]
    BY DEF Round
  <2>3. at \in Nat /\ at >= now - MaxAge
    BY <1>2, <2>1, <2>2, StoreAssumption DEF Fresh
  <2>4. clamp(round) = [by |-> round.by, at |-> at]
    BY <2>1, <2>2
  <2> HIDE DEF clamp
  <2>5. clamp(round).by = round.by /\ clamp(round).at = at
    BY <2>4
  <2> QED BY <2>2, <2>3, <2>4, <2>5 DEF Round, Fresh
<1>3. ASSUME NEW p \in Person
      PROVE  /\ restored(p) \in Person /\ restored(p).sender = p.sender
             /\ \A round \in ToSet(restored(p).rounds) :
                  Fresh(round) /\ \E old \in ToSet(p.rounds) : round.by = old.by
  <2>1. PICK fresh : fresh = Expired(p.rounds)
    OBVIOUS
  <2>2. /\ fresh \in Seq(Round) /\ ToSet(fresh) \subseteq ToSet(p.rounds)
        /\ \A round \in ToSet(fresh) : Fresh(round)
    <3>1. p.rounds \in Seq(Round)
      BY DEF Person
    <3> QED BY <2>1, <3>1, ExpiredKeeps
  <2>3. PICK clamped : clamped = [i \in DOMAIN fresh |-> clamp(fresh[i])]
    OBVIOUS
  <2>4. restored(p) = [p EXCEPT !.rounds = clamped]
    BY <2>1, <2>3
  <2> HIDE DEF clamp
  <2>5. ASSUME NEW i \in DOMAIN fresh
        PROVE  /\ clamped[i] = clamp(fresh[i]) /\ clamped[i] \in Round /\ Fresh(clamped[i])
               /\ \E old \in ToSet(p.rounds) : clamped[i].by = old.by
    <3>1. fresh[i] \in Round /\ fresh[i] \in ToSet(fresh)
      BY <2>2, Places
    <3>2. clamped[i] = clamp(fresh[i])
      BY <2>3
    <3> QED BY <1>2, <2>2, <3>1, <3>2
  <2>6. DOMAIN clamped = DOMAIN fresh /\ clamped = [i \in DOMAIN fresh |-> clamped[i]]
    BY <2>3
  <2>7. clamped \in Seq(Round)
    BY <2>2, <2>5, <2>6, Mapped
  <2>8. ASSUME NEW round \in ToSet(clamped)
        PROVE  Fresh(round) /\ \E old \in ToSet(p.rounds) : round.by = old.by
    <3>1. PICK i \in DOMAIN fresh : round = clamped[i]
      BY <2>6 DEF ToSet
    <3> QED BY <2>5, <3>1
  <2> HIDE DEF restored
  <2>9. restored(p) \in Person /\ restored(p).sender = p.sender /\ restored(p).rounds = clamped
    BY <2>4, <2>7, PersonWith
  <2> QED BY <2>8, <2>9
<1> HIDE DEF clamp, restored
<1>4. ASSUME NEW i \in DOMAIN ps PROVE back[i] = restored(ps[i]) /\ ps[i] \in Person /\ ps[i] \in ToSet(ps)
  BY Places
<1>5. DOMAIN back = DOMAIN ps /\ back = [i \in DOMAIN ps |-> back[i]]
  OBVIOUS
<1> HIDE DEF back, S
<1>6. back \in Seq(Person)
  BY <1>3, <1>4, <1>5, Mapped
<1>7. Only(back, S) \in Seq(Person) /\ ToSet(Only(back, S)) \subseteq ToSet(back)
  BY <1>6, OnlyKeeps
<1>8. ASSUME NEW p \in ToSet(back)
      PROVE  /\ \E q \in ToSet(ps) :
                  /\ p.sender = q.sender
                  /\ \A round \in ToSet(p.rounds) : \E old \in ToSet(q.rounds) : round.by = old.by
             /\ \A round \in ToSet(p.rounds) : Fresh(round)
  <2>1. PICK i \in DOMAIN ps : p = back[i]
    BY <1>5 DEF ToSet
  <2> QED BY <1>3, <1>4, <2>1
<1>9. Within(back, ps) /\ AllFresh(back)
  BY <1>8 DEF Within, AllFresh
<1>10. Within(Only(back, S), ps) /\ AllFresh(Only(back, S))
  BY <1>7, <1>9, SubsetWithin, WithinWithin DEF AllFresh
<1> QED BY <1>1, <1>7, <1>10

LEMMA LoadKeeps ==
  ASSUME NEW ps \in Seq(Person)
  PROVE  Load(ps) \in Seq(Person) /\ Within(Load(ps), ps)
<1> DEFINE S == {round \in Round : round.by \notin Screened}
<1>1. PICK kept : kept = Newest(ps, MaxPeople)
  OBVIOUS
<1>2. kept \in Seq(Person) /\ ToSet(kept) \subseteq ToSet(ps)
  BY <1>1, NewestKeeps, StoreAssumption
<1> DEFINE allowed(p) == [p EXCEPT !.rounds = Only(Newest(@, Rounds), S)]
<1> DEFINE loaded == [i \in DOMAIN kept |-> allowed(kept[i])]
<1>3. Load(ps) = loaded
  BY <1>1 DEF Load
<1> HIDE DEF S
<1>4. ASSUME NEW p \in Person
      PROVE  /\ allowed(p) \in Person /\ allowed(p).sender = p.sender
             /\ ToSet(allowed(p).rounds) \subseteq ToSet(p.rounds)
  <2>1. PICK newest : newest = Newest(p.rounds, Rounds)
    OBVIOUS
  <2>2. p.rounds \in Seq(Round)
    BY DEF Person
  <2>3. newest \in Seq(Round) /\ ToSet(newest) \subseteq ToSet(p.rounds)
    BY <2>1, <2>2, NewestKeeps, StoreAssumption
  <2>4. PICK rounds : rounds = Only(newest, S)
    OBVIOUS
  <2>5. rounds \in Seq(Round) /\ ToSet(rounds) \subseteq ToSet(newest)
    BY <2>3, <2>4, OnlyKeeps
  <2>6. allowed(p) = [p EXCEPT !.rounds = rounds]
    BY <2>1, <2>4
  <2> HIDE DEF allowed
  <2>7. allowed(p) \in Person /\ allowed(p).sender = p.sender /\ allowed(p).rounds = rounds
    BY <2>5, <2>6, PersonWith
  <2> QED BY <2>3, <2>5, <2>7
<1> HIDE DEF allowed
<1>5. ASSUME NEW i \in DOMAIN kept
      PROVE  loaded[i] = allowed(kept[i]) /\ kept[i] \in Person /\ kept[i] \in ToSet(ps)
  BY <1>2, Places
<1>6. DOMAIN loaded = DOMAIN kept /\ loaded = [i \in DOMAIN kept |-> loaded[i]]
  OBVIOUS
<1> HIDE DEF loaded
<1>7. loaded \in Seq(Person)
  BY <1>2, <1>4, <1>5, <1>6, Mapped
<1>8. ASSUME NEW p \in ToSet(loaded)
      PROVE  \E q \in ToSet(ps) :
               /\ p.sender = q.sender
               /\ \A round \in ToSet(p.rounds) : \E old \in ToSet(q.rounds) : round.by = old.by
  <2>1. PICK i \in DOMAIN kept : p = loaded[i]
    BY <1>6 DEF ToSet
  <2>2. \A round \in ToSet(p.rounds) : \E old \in ToSet(kept[i].rounds) : round.by = old.by
    BY <1>4, <1>5, <2>1
  <2> QED BY <1>4, <1>5, <2>1, <2>2
<1> QED BY <1>3, <1>7, <1>8 DEF Within

(* People of whom no more is told than others say, and some new exchanges. *)
Tells(ps, qs, new) ==
  \A p \in ToSet(ps) : \A round \in ToSet(p.rounds) :
    \/ round.by \in new /\ SenderOf[round.by] = p.sender
    \/ \E q \in ToSet(qs) : q.sender = p.sender /\ \E old \in ToSet(q.rounds) : round.by = old.by

LEMMA WithinTells ==
  ASSUME NEW ps, NEW qs, NEW new, Within(ps, qs)
  PROVE  Tells(ps, qs, new)
<1>1. ASSUME NEW p \in ToSet(ps), NEW round \in ToSet(p.rounds)
      PROVE  \E q \in ToSet(qs) : q.sender = p.sender /\ \E old \in ToSet(q.rounds) : round.by = old.by
  <2>1. PICK q \in ToSet(qs) :
          /\ p.sender = q.sender
          /\ \A x \in ToSet(p.rounds) : \E old \in ToSet(q.rounds) : x.by = old.by
    BY DEF Within
  <2> QED BY <2>1
<1> QED BY <1>1 DEF Tells

LEMMA RoundsOfIs ==
  ASSUME NEW ps \in Seq(Person), NEW s
  PROVE  /\ RoundsOf(ps, s) \in Seq(Round)
         /\ \A round \in ToSet(RoundsOf(ps, s)) : \E p \in ToSet(ps) : p.sender = s /\ round \in ToSet(p.rounds)
<1>1. CASE \E p \in ToSet(ps) : p.sender = s
  <2>1. PICK p \in ToSet(ps) : p.sender = s /\ RoundsOf(ps, s) = p.rounds
    BY <1>1 DEF RoundsOf
  <2>2. p \in Person
    BY Places
  <2>3. p.rounds \in Seq(Round)
    BY <2>2 DEF Person
  <2> QED BY <2>1, <2>3
<1>2. CASE ~ \E p \in ToSet(ps) : p.sender = s
  <2>1. RoundsOf(ps, s) = << >>
    BY <1>2 DEF RoundsOf
  <2>2. << >> \in Seq(Round) /\ ToSet(<< >>) = {}
    BY DEF ToSet
  <2> QED BY <2>1, <2>2
<1> QED BY <1>1, <1>2

LEMMA RecordedKeeps ==
  ASSUME now \in Nat, NEW ps \in Seq(Person), NEW r \in Request
  PROVE  Recorded(ps, r) \in Seq(Person) /\ Tells(Recorded(ps, r), ps, {r})
<1>1. PICK swept, s : swept = Sweep(ps) /\ s = SenderOf[r]
  OBVIOUS
<1>2. swept \in Seq(Person) /\ Tells(swept, ps, {r})
  BY <1>1, SweepKeeps, WithinTells
<1>3. s \in Sender
  BY <1>1, StoreAssumption
<1>4. PICK old : old = RoundsOf(swept, s)
  OBVIOUS
<1>5. /\ old \in Seq(Round)
      /\ \A round \in ToSet(old) : \E p \in ToSet(swept) : p.sender = s /\ round \in ToSet(p.rounds)
  BY <1>2, <1>4, RoundsOfIs
<1>6. PICK round : round = [by |-> r, at |-> now]
  OBVIOUS
<1>7. round \in Round /\ round.by = r
  BY <1>6 DEF Round
<1>8. PICK longer : longer = Append(old, round)
  OBVIOUS
<1>9. longer \in Seq(Round) /\ ToSet(longer) = ToSet(old) \cup {round}
  BY <1>5, <1>7, <1>8, AppendKeeps
<1>10. PICK rounds : rounds = Newest(longer, Rounds)
  OBVIOUS
<1>11. rounds \in Seq(Round) /\ ToSet(rounds) \subseteq ToSet(old) \cup {round}
  BY <1>9, <1>10, NewestKeeps, StoreAssumption
<1>12. PICK person : person = [sender |-> s, rounds |-> rounds]
  OBVIOUS
<1>13. person \in Person /\ person.sender = s /\ person.rounds = rounds
  BY <1>3, <1>11, <1>12 DEF Person
<1>14. PICK others : others = Without(swept, s)
  OBVIOUS
<1>15. others \in Seq(Person) /\ \A p \in ToSet(others) : p \in ToSet(swept)
  BY <1>2, <1>14, WithoutKeeps
<1>16. PICK more : more = Append(others, person)
  OBVIOUS
<1>17. more \in Seq(Person) /\ ToSet(more) = ToSet(others) \cup {person}
  BY <1>13, <1>15, <1>16, AppendKeeps
<1>18. Recorded(ps, r) = Newest(more, MaxPeople)
  BY <1>1, <1>4, <1>6, <1>8, <1>10, <1>12, <1>14, <1>16 DEF Recorded
<1>19. Recorded(ps, r) \in Seq(Person) /\ ToSet(Recorded(ps, r)) \subseteq ToSet(others) \cup {person}
  BY <1>17, <1>18, NewestKeeps, StoreAssumption
<1>20. ASSUME NEW p \in ToSet(Recorded(ps, r)), NEW x \in ToSet(p.rounds)
       PROVE  \/ x.by \in {r} /\ SenderOf[x.by] = p.sender
              \/ \E q \in ToSet(ps) : q.sender = p.sender /\ \E y \in ToSet(q.rounds) : x.by = y.by
  <2>1. CASE p \in ToSet(swept)
    BY <1>2, <2>1 DEF Tells
  <2>2. CASE p = person /\ x = round
    BY <1>1, <1>7, <1>13, <2>2
  <2>3. CASE p = person /\ x \in ToSet(old)
    <3>1. PICK q \in ToSet(swept) : q.sender = s /\ x \in ToSet(q.rounds)
      BY <1>5, <2>3
    <3> QED BY <1>2, <1>13, <2>3, <3>1 DEF Tells
  <2> QED BY <1>11, <1>13, <1>15, <1>19, <2>1, <2>2, <2>3
<1> QED BY <1>19, <1>20 DEF Tells

-----------------------------------------------------------------------------
(* What holds of the file and of the bots that run *)

StoreTypes ==
  /\ now \in Nat /\ up \subseteq Bot
  /\ people \in [Bot -> Seq(Person)] /\ gen \in [Bot -> Nat] /\ DOMAIN last = Bot
  /\ file \in [gen : Nat, people : Seq(Person)]
  /\ req \in [Request -> {"idle", "received", "admitted", "silent", "over"}]
  /\ forgotten \subseteq Request

(* A bot whose generation is that of the file wrote it last.               *)
WriterInv ==
  /\ \A b \in Bot : gen[b] <= file.gen
  /\ \A b \in up : gen[b] = file.gen => b \in synced

(* An exchange is told of the person who began it.                         *)
Owned(ps) == \A p \in ToSet(ps) : \A round \in ToSet(p.rounds) : SenderOf[round.by] = p.sender

OwnInv == Owned(file.people) /\ \A b \in Bot : Owned(people[b])

Of(b) == {r \in Request : BotOf[r] = b}

(* What the file, and the bot that may write it, know of the exchanges of  *)
(* a bot that runs was in what that bot saved last: a save that it skips   *)
(* for being the last one leaves nothing of what it has removed.           *)
CopyInv ==
  \A b \in up :
    /\ Names(file.people) \cap Of(b) \subseteq Names(last[b])
    /\ \A c \in up \cap synced : b # c => Names(people[c]) \cap Of(b) \subseteq Names(last[b])

(* No request from before a /forget is going to be recorded.               *)
SilentInv == \A r \in forgotten : req[r] \in {"silent", "over"}

StoreInv == StoreTypes /\ WriterInv /\ OwnInv /\ CopyInv /\ SilentInv /\ ForgottenForGood

LEMMA NamesAre ==
  ASSUME NEW ps
  PROVE  \A r : r \in Names(ps) <=> \E p \in ToSet(ps) : \E round \in ToSet(p.rounds) : round.by = r
BY DEF Names

LEMMA TellsNames ==
  ASSUME NEW ps, NEW qs, NEW new, Tells(ps, qs, new)
  PROVE  /\ Names(ps) \subseteq Names(qs) \cup new
         /\ Owned(qs) => Owned(ps)
<1>1. ASSUME NEW r \in Names(ps) PROVE r \in Names(qs) \cup new
  <2>1. PICK p \in ToSet(ps) : \E round \in ToSet(p.rounds) : round.by = r
    BY NamesAre
  <2>2. PICK round \in ToSet(p.rounds) : round.by = r
    BY <2>1
  <2>3. CASE round.by \in new
    BY <2>2, <2>3
  <2>4. CASE \E q \in ToSet(qs) : \E old \in ToSet(q.rounds) : round.by = old.by
    <3>1. PICK q \in ToSet(qs) : \E old \in ToSet(q.rounds) : r = old.by
      BY <2>2, <2>4
    <3> QED BY <3>1, NamesAre
  <2> QED BY <2>3, <2>4 DEF Tells
<1>2. ASSUME Owned(qs), NEW p \in ToSet(ps), NEW round \in ToSet(p.rounds)
      PROVE  SenderOf[round.by] = p.sender
  BY <1>2 DEF Tells, Owned
<1> QED BY <1>1, <1>2 DEF Owned

-----------------------------------------------------------------------------
(* The steps *)

(* What a step of a bot that runs does to its memory and to the file.      *)
MemoryStep(b, ps) ==
  /\ people' = [people EXCEPT ![b] = ps]
  /\ \/ UNCHANGED <<file, gen, last, synced>>
     \/ b \in synced /\ Write(b, ps)

MemoryTypes ==
  /\ people \in [Bot -> Seq(Person)] /\ gen \in [Bot -> Nat] /\ DOMAIN last = Bot
  /\ file \in [gen : Nat, people : Seq(Person)]

(* Nobody who may write knows of what was forgotten so far.                *)
StillForgotten ==
  /\ Names(file'.people) \cap forgotten = {}
  /\ \A c \in up' \cap synced' : Names(people'[c]) \cap forgotten = {}

LEMMA OfOne ==
  ASSUME NEW b, NEW c, NEW r, r \in Of(b), r \in Of(c)
  PROVE  b = c
BY DEF Of

LEMMA Written ==
  ASSUME StoreTypes, NEW b \in Bot, NEW ps \in Seq(Person), Write(b, ps)
  PROVE  /\ file'.gen = file.gen + 1 /\ file'.people = ps /\ synced' = {b}
         /\ file' \in [gen : Nat, people : Seq(Person)]
         /\ gen' \in [Bot -> Nat] /\ gen'[b] = file.gen + 1
         /\ DOMAIN last' = Bot /\ last'[b] = ps
         /\ \A c \in Bot \ {b} : gen'[c] = gen[c] /\ last'[c] = last[c]
<1>1. /\ file' = [gen |-> file.gen + 1, people |-> ps]
      /\ gen' = [gen EXCEPT ![b] = file.gen + 1] /\ last' = [last EXCEPT ![b] = ps]
      /\ synced' = {b}
  BY DEF Write
<1>2. file.gen + 1 \in Nat
  BY DEF StoreTypes
<1>3. file' \in [gen : Nat, people : Seq(Person)]
  BY <1>1, <1>2
<1> QED BY <1>1, <1>2, <1>3 DEF StoreTypes

LEMMA WriterKeeps ==
  ASSUME StoreTypes, WriterInv, NEW b \in Bot, NEW ps \in Seq(Person), Write(b, ps), up' \subseteq Bot
  PROVE  WriterInv' /\ file'.gen \in Nat
<1>1. /\ file'.gen = file.gen + 1 /\ synced' = {b} /\ gen'[b] = file.gen + 1
      /\ \A c \in Bot \ {b} : gen'[c] = gen[c]
  BY Written
<1>2. file.gen \in Nat /\ file.gen + 1 \in Nat
  BY DEF StoreTypes
<1>3. ASSUME NEW c \in Bot \ {b} PROVE gen'[c] <= file'.gen /\ gen'[c] # file'.gen
  <2>1. gen[c] \in Nat /\ gen[c] <= file.gen
    BY DEF StoreTypes, WriterInv
  <2> QED BY <1>1, <1>2, <2>1
<1>4. gen'[b] <= file'.gen
  BY <1>1, <1>2
<1> QED BY <1>1, <1>2, <1>3, <1>4 DEF WriterInv

LEMMA MemoryKeeps ==
  ASSUME StoreInv, NEW b \in up, NEW ps \in Seq(Person), NEW new,
         new \subseteq Of(b), new \cap forgotten = {},
         Tells(ps, people[b], new), MemoryStep(b, ps), up' \subseteq up
  PROVE  MemoryTypes' /\ WriterInv' /\ OwnInv' /\ CopyInv' /\ StillForgotten
<1>1. b \in Bot /\ StoreTypes
  BY DEF StoreInv, StoreTypes
<1>2. Names(ps) \subseteq Names(people[b]) \cup new /\ Owned(ps)
  BY <1>1, TellsNames DEF StoreInv, OwnInv
<1>3. /\ people' \in [Bot -> Seq(Person)] /\ people'[b] = ps
      /\ \A c \in Bot \ {b} : people'[c] = people[c]
  BY <1>1 DEF MemoryStep, StoreTypes
<1>4. ASSUME NEW c \in Bot PROVE Owned(people'[c])
  BY <1>2, <1>3 DEF StoreInv, OwnInv
<1>5. ASSUME NEW d \in up, d # b PROVE Names(ps) \cap Of(d) \subseteq Names(people[b])
  BY <1>2, <1>5, OfOne
<1>6. b \in synced => Names(ps) \cap forgotten = {}
  BY <1>2 DEF StoreInv, ForgottenForGood
<1>7. CASE UNCHANGED <<file, gen, last, synced>>
  <2>1. MemoryTypes' /\ WriterInv' /\ OwnInv'
    BY <1>1, <1>3, <1>4, <1>7 DEF MemoryTypes, StoreTypes, StoreInv, WriterInv, OwnInv
  <2>2. ASSUME NEW d \in up', NEW c \in up' \cap synced', d # c
        PROVE  Names(people'[c]) \cap Of(d) \subseteq Names(last'[d])
    <3>1. d \in up /\ c \in up \cap synced /\ c \in Bot /\ last'[d] = last[d]
      BY <1>1, <1>7 DEF StoreTypes
    <3>2. Names(people[c]) \cap Of(d) \subseteq Names(last[d])
      BY <2>2, <3>1 DEF StoreInv, CopyInv
    <3>3. CASE c = b
      BY <1>3, <1>5, <2>2, <3>1, <3>2, <3>3
    <3>4. CASE c # b
      BY <1>3, <3>1, <3>2, <3>4
    <3> QED BY <3>3, <3>4
  <2>3. CopyInv'
    BY <1>7, <2>2 DEF StoreInv, CopyInv, Of
  <2>4. StillForgotten
    <3>1. ASSUME NEW c \in up' \cap synced' PROVE Names(people'[c]) \cap forgotten = {}
      <4>1. c \in up \cap synced /\ c \in Bot
        BY <1>1, <1>7 DEF StoreTypes
      <4>2. CASE c = b
        BY <1>3, <1>6, <4>1, <4>2
      <4>3. CASE c # b
        BY <1>3, <4>1, <4>3 DEF StoreInv, ForgottenForGood
      <4> QED BY <4>2, <4>3
    <3> QED BY <1>7, <3>1 DEF StillForgotten, StoreInv, ForgottenForGood
  <2> QED BY <2>1, <2>3, <2>4
<1>8. CASE b \in synced /\ Write(b, ps)
  <2>1. /\ file'.people = ps /\ synced' = {b} /\ gen' \in [Bot -> Nat] /\ DOMAIN last' = Bot
        /\ file' \in [gen : Nat, people : Seq(Person)]
        /\ last'[b] = ps /\ \A c \in Bot \ {b} : last'[c] = last[c]
    BY <1>1, <1>8, Written
  <2>2. up' \subseteq Bot
    BY <1>1 DEF StoreTypes
  <2>3. WriterInv' /\ file'.gen \in Nat
    BY <1>1, <1>8, <2>2, WriterKeeps DEF StoreInv
  <2>4. MemoryTypes'
    BY <1>3, <2>1, <2>3 DEF MemoryTypes
  <2>5. OwnInv'
    BY <1>2, <1>4, <2>1 DEF OwnInv
  <2>6. ASSUME NEW d \in up' PROVE Names(ps) \cap Of(d) \subseteq Names(last'[d])
    <3>1. CASE d = b
      BY <2>1, <3>1
    <3>2. CASE d # b
      <4>1. d \in up /\ last'[d] = last[d]
        BY <2>1, <2>2, <3>2
      <4>2. Names(people[b]) \cap Of(d) \subseteq Names(last[d])
        BY <1>8, <3>2, <4>1 DEF StoreInv, CopyInv
      <4> QED BY <1>5, <3>2, <4>1, <4>2
    <3> QED BY <3>1, <3>2
  <2>7. CopyInv'
    BY <1>3, <2>1, <2>6 DEF CopyInv, Of
  <2>8. StillForgotten
    BY <1>3, <1>6, <1>8, <2>1 DEF StillForgotten
  <2> QED BY <2>3, <2>4, <2>5, <2>7, <2>8
<1> QED BY <1>7, <1>8 DEF MemoryStep

(* A bot that starts takes over the file.                                  *)
LEMMA StartKeeps ==
  ASSUME StoreInv, NEW b \in Bot, Start(b)
  PROVE  MemoryTypes' /\ WriterInv' /\ OwnInv' /\ CopyInv' /\ StillForgotten
<1>1. StoreTypes /\ b \notin up /\ up' = up \cup {b} /\ up' \subseteq Bot
  BY DEF StoreInv, StoreTypes, Start
<1>2. PICK loaded : loaded = Load(file.people)
  OBVIOUS
<1>3. loaded \in Seq(Person) /\ Within(loaded, file.people)
  BY <1>1, <1>2, LoadKeeps DEF StoreTypes
<1>4. PICK ps : ps = Restored(loaded)
  OBVIOUS
<1>5. ps \in Seq(Person) /\ Within(ps, file.people)
  BY <1>1, <1>3, <1>4, RestoredKeeps, WithinWithin DEF StoreTypes
<1>6. Names(ps) \subseteq Names(file.people) /\ Owned(ps)
  <2>1. Tells(ps, file.people, {})
    BY <1>5, WithinTells
  <2> QED BY <2>1, TellsNames DEF StoreInv, OwnInv
<1>7. people' = [people EXCEPT ![b] = ps] /\ Write(b, ps)
  BY <1>2, <1>4 DEF Start
<1>8. /\ people' \in [Bot -> Seq(Person)] /\ people'[b] = ps
      /\ \A c \in Bot \ {b} : people'[c] = people[c]
  BY <1>1, <1>5, <1>7 DEF StoreTypes
<1>9. /\ file'.people = ps /\ synced' = {b} /\ gen' \in [Bot -> Nat] /\ DOMAIN last' = Bot
      /\ file' \in [gen : Nat, people : Seq(Person)]
      /\ last'[b] = ps /\ \A c \in Bot \ {b} : last'[c] = last[c]
  BY <1>1, <1>5, <1>7, Written
<1>10. WriterInv' /\ file'.gen \in Nat
  BY <1>1, <1>5, <1>7, WriterKeeps DEF StoreInv
<1>11. MemoryTypes'
  BY <1>5, <1>8, <1>9, <1>10 DEF MemoryTypes
<1>12. OwnInv'
  <2>1. \A c \in Bot : Owned(people'[c])
    BY <1>6, <1>8 DEF StoreInv, OwnInv
  <2> QED BY <1>6, <1>9, <2>1 DEF OwnInv
<1>13. ASSUME NEW d \in up' PROVE Names(ps) \cap Of(d) \subseteq Names(last'[d])
  <2>1. CASE d = b
    BY <1>9, <2>1
  <2>2. CASE d # b
    <3>1. d \in up /\ last'[d] = last[d]
      BY <1>1, <1>9, <2>2
    <3> QED BY <1>6, <3>1 DEF StoreInv, CopyInv
  <2> QED BY <2>1, <2>2
<1>14. CopyInv'
  BY <1>8, <1>9, <1>13 DEF CopyInv, Of
<1>15. StillForgotten
  BY <1>6, <1>8, <1>9 DEF StillForgotten, StoreInv, ForgottenForGood
<1> QED BY <1>10, <1>11, <1>12, <1>14, <1>15

LEMMA SaveIsStep ==
  ASSUME StoreInv, NEW b \in up, NEW ps, Save(b, ps) \/ SaveFails(b, ps)
  PROVE  MemoryStep(b, ps)
<1>1. gen[b] = file.gen => b \in synced
  BY DEF StoreInv, WriterInv
<1> QED BY <1>1 DEF Save, SaveFails, MemoryStep

(* A step by which nobody forgets.                                         *)
LEMMA Together ==
  ASSUME StoreInv, MemoryTypes', WriterInv', OwnInv', CopyInv', StillForgotten,
         now' \in Nat, up' \subseteq Bot, forgotten' = forgotten,
         req' \in [Request -> {"idle", "received", "admitted", "silent", "over"}], SilentInv'
  PROVE  StoreInv'
BY DEF StoreInv, StoreTypes, MemoryTypes, StillForgotten, ForgottenForGood

(* The memory and the file are not touched.                                *)
LEMMA Untouched ==
  ASSUME StoreInv, UNCHANGED memory, up' \subseteq up
  PROVE  MemoryTypes' /\ WriterInv' /\ OwnInv' /\ CopyInv' /\ StillForgotten
BY DEF StoreInv, StoreTypes, MemoryTypes, WriterInv, OwnInv, CopyInv, Of, StillForgotten, ForgottenForGood, memory

LEMMA RunKeeps ==
  ASSUME StoreInv, NEW b \in Bot,
         Start(b) \/ Stop(b) \/ Crash(b) \/ SavePeriodically(b) \/ SaveOther(b)
  PROVE  StoreInv'
<1>1. StoreTypes /\ SilentInv
  BY DEF StoreInv
<1>2. /\ Ended(b) \in [Request -> {"idle", "received", "admitted", "silent", "over"}]
      /\ \A r \in forgotten : Ended(b)[r] \in {"silent", "over"}
  BY <1>1 DEF StoreTypes, SilentInv, Ended
<1>3. CASE Start(b)
  <2>1. /\ now' = now /\ req' = req /\ forgotten' = forgotten /\ up' \subseteq Bot
    BY <1>1, <1>3 DEF Start, StoreTypes
  <2>2. SilentInv'
    BY <1>1, <2>1 DEF SilentInv
  <2> QED BY <1>1, <1>3, <2>1, <2>2, StartKeeps, Together DEF StoreTypes
<1>4. ASSUME NEW ps, ps = Sweep(people[b]), b \in up, Save(b, ps) \/ SaveFails(b, ps), up' \subseteq up
      PROVE  MemoryTypes' /\ WriterInv' /\ OwnInv' /\ CopyInv' /\ StillForgotten
  <2>1. people[b] \in Seq(Person)
    BY <1>1 DEF StoreTypes
  <2>2. PICK none : none = {}
    OBVIOUS
  <2>3. ps \in Seq(Person) /\ Tells(ps, people[b], none)
    BY <1>4, <2>1, SweepKeeps, WithinTells
  <2>4. MemoryStep(b, ps)
    BY <1>4, SaveIsStep
  <2>5. none \subseteq Of(b) /\ none \cap forgotten = {}
    BY <2>2
  <2> QED BY <1>4, <2>3, <2>4, <2>5, MemoryKeeps
<1>5. CASE Stop(b)
  <2>1. /\ now' = now /\ req' = Ended(b) /\ forgotten' = forgotten /\ up' \subseteq up /\ b \in up
        /\ up' \subseteq Bot
    BY <1>1, <1>5 DEF Stop, StoreTypes
  <2>2. SilentInv'
    BY <1>2, <2>1 DEF SilentInv
  <2>3. MemoryTypes' /\ WriterInv' /\ OwnInv' /\ CopyInv' /\ StillForgotten
    BY <1>4, <1>5, <2>1 DEF Stop
  <2> QED BY <1>1, <1>2, <2>1, <2>2, <2>3, Together DEF StoreTypes
<1>6. CASE Crash(b)
  <2>1. /\ now' = now /\ req' = Ended(b) /\ forgotten' = forgotten /\ up' \subseteq up
        /\ up' \subseteq Bot /\ UNCHANGED memory
    BY <1>1, <1>6 DEF Crash, StoreTypes
  <2>2. SilentInv'
    BY <1>2, <2>1 DEF SilentInv
  <2> QED BY <1>1, <1>2, <2>1, <2>2, Untouched, Together DEF StoreTypes
<1>7. CASE SavePeriodically(b)
  <2>1. /\ now' = now /\ req' = req /\ forgotten' = forgotten /\ up' = up /\ b \in up
        /\ up' \subseteq Bot
    BY <1>1, <1>7 DEF SavePeriodically, StoreTypes
  <2>2. SilentInv'
    BY <1>1, <2>1 DEF SilentInv
  <2>3. MemoryTypes' /\ WriterInv' /\ OwnInv' /\ CopyInv' /\ StillForgotten
    BY <1>4, <1>7, <2>1 DEF SavePeriodically
  <2> QED BY <1>1, <2>1, <2>2, <2>3, Together DEF StoreTypes
<1>8. CASE SaveOther(b)
  <2>1. /\ b \in up /\ gen[b] = file.gen /\ synced' = {b}
        /\ file' = [file EXCEPT !.gen = @ + 1] /\ gen' = [gen EXCEPT ![b] = file.gen + 1]
        /\ UNCHANGED <<now, up, people, last, req, forgotten>>
    BY <1>8 DEF SaveOther
  <2>2. PICK next \in Nat : next = file.gen + 1
    BY <1>1 DEF StoreTypes
  <2>3. /\ gen' \in [Bot -> Nat] /\ gen'[b] = next
        /\ \A c \in Bot \ {b} : gen'[c] = gen[c]
    BY <1>1, <2>1, <2>2 DEF StoreTypes
  <2>4. file'.people = file.people /\ file'.gen = next
    <3>1. DOMAIN file = {"gen", "people"}
      BY <1>1 DEF StoreTypes
    <3> QED BY <2>1, <2>2, <3>1
  <2>5. b \in synced
    BY <2>1 DEF StoreInv, WriterInv
  <2>6. WriterInv'
    <3>1. ASSUME NEW c \in Bot \ {b} PROVE gen'[c] <= file'.gen /\ gen'[c] # file'.gen
      <4>1. gen[c] \in Nat /\ gen[c] <= file.gen /\ file.gen \in Nat
        BY <1>1 DEF StoreTypes, StoreInv, WriterInv
      <4> QED BY <2>2, <2>3, <2>4, <4>1
    <3>2. up' \subseteq Bot
      BY <1>1, <2>1 DEF StoreTypes
    <3> QED BY <2>1, <2>3, <2>4, <3>1, <3>2 DEF WriterInv
  <2>7. MemoryTypes'
    BY <1>1, <2>1, <2>3, <2>4 DEF MemoryTypes, StoreTypes
  <2>8. OwnInv' /\ CopyInv' /\ StillForgotten
    BY <2>1, <2>4, <2>5 DEF StoreInv, OwnInv, CopyInv, Of, StillForgotten, ForgottenForGood
  <2>9. SilentInv'
    BY <1>1, <2>1 DEF SilentInv
  <2> QED BY <1>1, <2>1, <2>6, <2>7, <2>8, <2>9, Together DEF StoreTypes
<1> QED BY <1>3, <1>5, <1>6, <1>7, <1>8

(* A request reads the memory, or is remembered in it.                     *)
LEMMA RequestKeeps ==
  ASSUME StoreInv, NEW r \in Request, Receive(r) \/ Admitted(r) \/ Answer(r) \/ Abandon(r)
  PROVE  StoreInv'
<1>1. StoreTypes /\ SilentInv
  BY DEF StoreInv
<1>2. PICK b : b = BotOf[r] /\ b \in Bot
  BY StoreAssumption
<1>3. people[b] \in Seq(Person) /\ up \subseteq Bot /\ now \in Nat
  BY <1>1, <1>2 DEF StoreTypes
<1>4. ASSUME NEW ps \in Seq(Person), b \in up, Remembers(b, ps), up' = up, now' = now, forgotten' = forgotten,
             \/ Within(ps, people[b])
             \/ r \notin forgotten /\ Tells(ps, people[b], {r}),
             req' \in [Request -> {"idle", "received", "admitted", "silent", "over"}], SilentInv'
      PROVE  StoreInv'
  <2>1. PICK new : new = IF r \in forgotten THEN {} ELSE {r}
    OBVIOUS
  <2>2. new \subseteq Of(b) /\ new \cap forgotten = {}
    BY <1>2, <2>1 DEF Of
  <2>3. Tells(ps, people[b], new)
    <3>1. CASE Within(ps, people[b])
      BY <3>1, WithinTells
    <3>2. CASE r \notin forgotten /\ Tells(ps, people[b], {r})
      BY <2>1, <3>2
    <3> QED BY <1>4, <3>1, <3>2
  <2>4. MemoryStep(b, ps) /\ up' \subseteq up /\ up' \subseteq Bot
    BY <1>3, <1>4 DEF Remembers, MemoryStep
  <2>5. MemoryTypes' /\ WriterInv' /\ OwnInv' /\ CopyInv' /\ StillForgotten
    BY <1>4, <2>2, <2>3, <2>4, MemoryKeeps
  <2> QED BY <1>3, <1>4, <2>4, <2>5, Together
<1>5. ASSUME NEW to \in {"received", "admitted", "over"}, req' = [req EXCEPT ![r] = to], forgotten' = forgotten,
             r \in forgotten => to = "over"
      PROVE  /\ req' \in [Request -> {"idle", "received", "admitted", "silent", "over"}]
             /\ SilentInv'
  BY <1>1, <1>5 DEF StoreTypes, SilentInv
<1>6. r \in forgotten => req[r] \in {"silent", "over"}
  BY <1>1 DEF SilentInv
<1>7. CASE Receive(r) \/ Admitted(r)
  <2>1. PICK ps : ps = Consulted(people[b], SenderOf[r])
    OBVIOUS
  <2>2. ps \in Seq(Person) /\ Within(ps, people[b])
    BY <1>3, <2>1, ConsultedKeeps
  <2>3. /\ b \in up /\ Remembers(b, ps) /\ up' = up /\ now' = now /\ forgotten' = forgotten
        /\ r \notin forgotten
        /\ \E to \in {"received", "admitted"} : req' = [req EXCEPT ![r] = to]
    BY <1>2, <1>6, <1>7, <2>1 DEF Receive, Admitted
  <2> QED BY <1>4, <1>5, <2>2, <2>3
<1>8. CASE Answer(r)
  <2>1. /\ b \in up /\ up' = up /\ now' = now /\ forgotten' = forgotten
        /\ req' = [req EXCEPT ![r] = "over"]
    BY <1>2, <1>8 DEF Answer
  <2>2. req' \in [Request -> {"idle", "received", "admitted", "silent", "over"}] /\ SilentInv'
    BY <1>5, <2>1
  <2>3. CASE req[r] = "admitted"
    <3>1. PICK ps : ps = Recorded(people[b], r)
      OBVIOUS
    <3>2. ps \in Seq(Person) /\ Tells(ps, people[b], {r})
      BY <1>3, <3>1, RecordedKeeps
    <3>3. Remembers(b, ps) /\ r \notin forgotten
      BY <1>2, <1>6, <1>8, <2>3, <3>1 DEF Answer
    <3> QED BY <1>4, <2>1, <2>2, <3>2, <3>3
  <2>4. CASE req[r] # "admitted"
    <3>1. UNCHANGED memory
      BY <1>8, <2>4 DEF Answer
    <3>2. up' \subseteq up /\ up' \subseteq Bot
      BY <1>3, <2>1
    <3> QED BY <1>3, <2>1, <2>2, <3>1, <3>2, Untouched, Together
  <2> QED BY <2>3, <2>4
<1>9. CASE Abandon(r)
  <2>1. UNCHANGED memory /\ up' \subseteq up /\ up' \subseteq Bot /\ now' = now /\ forgotten' = forgotten
        /\ req' = [req EXCEPT ![r] = "over"]
    BY <1>3, <1>9 DEF Abandon
  <2>2. req' \in [Request -> {"idle", "received", "admitted", "silent", "over"}] /\ SilentInv'
    BY <1>5, <2>1
  <2> QED BY <1>3, <2>1, <2>2, Untouched, Together
<1> QED BY <1>7, <1>8, <1>9

(* A /forget leaves nothing of the sender: what is not written again       *)
(* because it is the last snapshot is, for this sender, in the file.       *)
LEMMA ForgetKeeps ==
  ASSUME StoreInv, NEW b \in Bot, NEW s \in Sender, ForgetSender(b, s)
  PROVE  StoreInv'
<1>1. StoreTypes /\ SilentInv /\ b \in up /\ up' = up /\ now' = now /\ req' = Silenced(b, s)
  BY DEF StoreInv, ForgetSender
<1>2. PICK rest : rest = Without(people[b], s)
  OBVIOUS
<1>3. rest \in Seq(Person) /\ Within(rest, people[b]) /\ \A p \in ToSet(rest) : p.sender # s
  BY <1>1, <1>2, WithoutKeeps DEF StoreTypes
<1>4. PICK left : left = Sweep(rest)
  OBVIOUS
<1>5. left \in Seq(Person) /\ Within(left, rest) /\ Within(left, people[b])
  BY <1>3, <1>4, SweepKeeps, WithinWithin
<1>6. /\ Save(b, left) \/ SaveFails(b, left)
      /\ \/ Save(b, left) /\ forgotten' = forgotten \cup Known(b, s)
         \/ forgotten' = forgotten
  BY <1>2, <1>4 DEF ForgetSender
<1>7. PICK none : none = {}
  OBVIOUS
<1>8. Tells(left, people[b], none) /\ none \subseteq Of(b) /\ none \cap forgotten = {}
  BY <1>5, <1>7, WithinTells
<1>9. MemoryTypes' /\ WriterInv' /\ OwnInv' /\ CopyInv' /\ StillForgotten
  <2>1. MemoryStep(b, left)
    BY <1>1, <1>6, SaveIsStep
  <2> QED BY <1>1, <1>5, <1>8, <2>1, MemoryKeeps
<1>10. /\ req' \in [Request -> {"idle", "received", "admitted", "silent", "over"}]
       /\ \A r \in Request : req[r] \in {"silent", "over"} => req'[r] \in {"silent", "over"}
       /\ \A r \in Known(b, s) : req'[r] \in {"silent", "over"}
  BY <1>1 DEF StoreTypes, Silenced, Known, Pending
<1>11. CASE forgotten' = forgotten
  <2>1. SilentInv'
    BY <1>1, <1>10, <1>11 DEF SilentInv, StoreTypes
  <2>2. now' \in Nat /\ up' \subseteq Bot
    BY <1>1 DEF StoreTypes
  <2> QED BY <1>9, <1>10, <1>11, <2>1, <2>2, Together
<1>12. CASE Save(b, left) /\ forgotten' = forgotten \cup Known(b, s)
  <2>1. Known(b, s) \subseteq Of(b) /\ Known(b, s) \subseteq Request /\ \A r \in Known(b, s) : SenderOf[r] = s
    BY DEF Known, Of
  <2>2. Names(left) \cap Known(b, s) = {}
    <3> SUFFICES ASSUME NEW r \in Names(left), r \in Known(b, s) PROVE FALSE
      OBVIOUS
    <3>1. PICK p \in ToSet(left) : \E round \in ToSet(p.rounds) : round.by = r
      BY NamesAre
    <3>2. Owned(left)
      BY <1>1, <1>8, TellsNames DEF StoreInv, OwnInv
    <3>3. SenderOf[r] = p.sender
      BY <3>1, <3>2 DEF Owned
    <3>4. p.sender # s
      BY <1>3, <1>5 DEF Within
    <3> QED BY <2>1, <3>3, <3>4
  <2>3. SilentInv' /\ forgotten' \subseteq Request
    BY <1>1, <1>10, <1>12, <2>1 DEF SilentInv, StoreTypes
  <2>4. people'[b] = left
    BY <1>1, <1>12 DEF Save, StoreTypes
  <2>5. ASSUME left = last[b], UNCHANGED <<file, gen, last, synced>>
        PROVE  /\ Names(file'.people) \cap Known(b, s) = {}
               /\ \A c \in up' \cap synced' : Names(people'[c]) \cap Known(b, s) = {}
    <3>1. Names(file.people) \cap Of(b) \subseteq Names(left)
      BY <1>1, <2>5 DEF StoreInv, CopyInv
    <3>2. ASSUME NEW c \in up' \cap synced', c # b PROVE Names(people'[c]) \cap Known(b, s) = {}
      <4>1. c \in up \cap synced /\ c \in Bot /\ people'[c] = people[c]
        BY <1>1, <1>12, <2>5, <3>2 DEF Save, StoreTypes
      <4>2. Names(people[c]) \cap Of(b) \subseteq Names(left)
        BY <1>1, <2>5, <3>2, <4>1 DEF StoreInv, CopyInv
      <4> QED BY <2>1, <2>2, <4>1, <4>2
    <3> QED BY <2>1, <2>2, <2>4, <2>5, <3>1, <3>2
  <2>6. ASSUME Write(b, left)
        PROVE  /\ Names(file'.people) \cap Known(b, s) = {}
               /\ \A c \in up' \cap synced' : Names(people'[c]) \cap Known(b, s) = {}
    <3>1. file'.people = left /\ synced' = {b}
      BY <1>1, <1>5, <2>6, Written
    <3> QED BY <2>2, <2>4, <3>1
  <2>7. /\ Names(file'.people) \cap Known(b, s) = {}
        /\ \A c \in up' \cap synced' : Names(people'[c]) \cap Known(b, s) = {}
    BY <1>12, <2>5, <2>6 DEF Save
  <2>8. ForgottenForGood'
    BY <1>9, <1>12, <2>7 DEF StillForgotten, ForgottenForGood
  <2>9. StoreTypes'
    BY <1>1, <1>9, <1>10, <2>3 DEF StoreTypes, MemoryTypes
  <2> QED BY <1>9, <2>3, <2>8, <2>9 DEF StoreInv
<1> QED BY <1>6, <1>11, <1>12

LEMMA StoreNext == StoreInv /\ [Next]_vars => StoreInv'
<1> SUFFICES ASSUME StoreInv, [Next]_vars PROVE StoreInv'
  OBVIOUS
<1>1. StoreTypes /\ SilentInv
  BY DEF StoreInv
<1>2. CASE Tick \/ SetBack \/ UNCHANGED vars
  <2>1. /\ UNCHANGED memory /\ up' = up /\ req' = req /\ forgotten' = forgotten /\ now' \in Nat
    BY <1>1, <1>2 DEF Tick, SetBack, vars, StoreTypes
  <2>2. SilentInv' /\ up' \subseteq up /\ up' \subseteq Bot
    BY <1>1, <2>1 DEF SilentInv, StoreTypes
  <2>3. req' \in [Request -> {"idle", "received", "admitted", "silent", "over"}]
    BY <1>1, <2>1 DEF StoreTypes
  <2> QED BY <2>1, <2>2, <2>3, Untouched, Together
<1> QED BY <1>2, RunKeeps, RequestKeeps, ForgetKeeps DEF Next

LEMMA StoreInit == Init => StoreInv
<1> SUFFICES ASSUME Init PROVE StoreInv
  OBVIOUS
<1>1. PICK none : none = << >> /\ none \in Seq(Person) /\ ToSet(none) = {}
  <2>1. << >> \in Seq(Person) /\ ToSet(<< >>) = {}
    BY DEF ToSet
  <2> QED BY <2>1
<1>2. Names(none) = {} /\ Owned(none)
  BY <1>1 DEF Names, Owned
<1>3. /\ now = 0 /\ up = {} /\ people = [b \in Bot |-> none] /\ gen = [b \in Bot |-> 0]
      /\ last = [b \in Bot |-> Unsaved] /\ file = [gen |-> 0, people |-> none]
      /\ req = [r \in Request |-> "idle"] /\ synced = {} /\ forgotten = {}
  BY <1>1 DEF Init
<1>4. StoreTypes
  BY <1>1, <1>3 DEF StoreTypes
<1>5. WriterInv /\ OwnInv /\ CopyInv /\ SilentInv /\ ForgottenForGood
  BY <1>2, <1>3 DEF WriterInv, OwnInv, CopyInv, SilentInv, ForgottenForGood
<1> QED BY <1>4, <1>5 DEF StoreInv

LEMMA StoreInvariant == Spec => []StoreInv
BY StoreInit, StoreNext, PTL DEF Spec

-----------------------------------------------------------------------------
(* What a confirmed /forget removed stays removed, from the file and from  *)
(* the memory of every bot that can write it: whatever was under way, over *)
(* failed and skipped saves, restarts and any number of bots on the file   *)
(* (the /forget branch of _handle_command, StateStore.save).               *)
THEOREM ForgottenForGoodAlways == Spec => []ForgottenForGood
<1>1. StoreInv => ForgottenForGood
  BY DEF StoreInv
<1> QED BY <1>1, StoreInvariant, PTL

(* A bot only replaces the file if nobody else wrote it since the bot read *)
(* or wrote it: for any number of bots, and though each table has saves of *)
(* its own (the generation check of every save).                           *)
THEOREM NoLostUpdateAlways == Spec => NoLostUpdate
<1> DEFINE Body == file' # file => \E b \in Bot : synced' = {b} /\ (b \in synced \/ b \notin up)
<1>1. StoreInv /\ [Next]_vars => Body
  <2> SUFFICES ASSUME StoreInv, [Next]_vars, file' # file
               PROVE  \E b \in Bot : synced' = {b} /\ (b \in synced \/ b \notin up)
    BY Zenon
  <2>1. ASSUME NEW b \in Bot, Start(b) PROVE synced' = {b} /\ b \notin up
    BY <2>1 DEF Start, Write
  <2>2. ASSUME NEW b \in Bot, b \in up, NEW ps, Save(b, ps) \/ SaveFails(b, ps)
        PROVE  synced' = {b} /\ b \in synced
    BY <2>2 DEF Save, SaveFails, Write, StoreInv, WriterInv
  <2>3. ASSUME NEW b \in Bot, Stop(b) \/ SavePeriodically(b) \/ \E s \in Sender : ForgetSender(b, s)
        PROVE  synced' = {b} /\ b \in synced
    BY <2>2, <2>3 DEF Stop, SavePeriodically, ForgetSender
  <2>4. ASSUME NEW b \in Bot, SaveOther(b) PROVE synced' = {b} /\ b \in synced
    BY <2>4 DEF SaveOther, StoreInv, WriterInv
  <2>5. ASSUME NEW b \in Bot PROVE ~Crash(b)
    BY DEF Crash, memory
  <2>6. ASSUME NEW r \in Request PROVE ~(Receive(r) \/ Admitted(r) \/ Answer(r) \/ Abandon(r))
    BY DEF Receive, Admitted, Answer, Abandon, Remembers, memory
  <2>7. ~(Tick \/ SetBack \/ UNCHANGED vars)
    BY DEF Tick, SetBack, vars, memory
  <2> QED BY <2>1, <2>3, <2>4, <2>5, <2>6, <2>7 DEF Next
<1>2. Spec => [][Body]_vars
  BY <1>1, StoreInvariant, PTL DEF Spec
<1> QED BY <1>2 DEF NoLostUpdate

(* No exchange that is older than the limit is written to the file, though *)
(* the rounds of a sender need not be in the order of their times after    *)
(* the clock was set back (_expire, restore).                              *)
THEOREM AgeRespectedAlways == Spec => AgeRespected
<1> DEFINE Body ==
      file'.people # file.people =>
        \A i \in DOMAIN file'.people :
          \A round \in ToSet(file'.people[i].rounds) : Fresh(round)
<1>1. StoreInv /\ [Next]_vars => Body
  <2> SUFFICES ASSUME StoreInv, [Next]_vars, file'.people # file.people,
                      NEW i \in DOMAIN file'.people, NEW round \in ToSet(file'.people[i].rounds)
               PROVE  Fresh(round)
    BY Zenon
  <2>1. StoreTypes
    BY DEF StoreInv
  <2>2. ASSUME NEW b \in Bot, NEW ps, AllFresh(ps), Write(b, ps) PROVE Fresh(round)
    <3>1. file'.people = ps
      BY <2>2 DEF Write
    <3>2. file'.people[i] \in ToSet(ps)
      BY <3>1 DEF ToSet
    <3> QED BY <2>2, <3>2 DEF AllFresh
  <2>3. ASSUME NEW b \in Bot, NEW ps, AllFresh(ps), Save(b, ps) \/ SaveFails(b, ps) PROVE Fresh(round)
    BY <2>2, <2>3 DEF Save, SaveFails
  <2>4. ASSUME NEW b \in Bot, Start(b) PROVE Fresh(round)
    <3>1. PICK loaded : loaded = Load(file.people) /\ loaded \in Seq(Person)
      BY <2>1, LoadKeeps DEF StoreTypes
    <3>2. PICK ps : ps = Restored(loaded)
      OBVIOUS
    <3>3. AllFresh(ps)
      BY <2>1, <3>1, <3>2, RestoredKeeps DEF StoreTypes
    <3> QED BY <2>2, <2>4, <3>1, <3>2, <3>3 DEF Start
  <2>5. ASSUME NEW b \in Bot, Stop(b) \/ SavePeriodically(b) PROVE Fresh(round)
    <3>1. PICK ps : ps = Sweep(people[b])
      OBVIOUS
    <3>2. AllFresh(ps)
      BY <2>1, <3>1, SweepKeeps DEF StoreTypes
    <3> QED BY <2>3, <2>5, <3>1, <3>2 DEF Stop, SavePeriodically
  <2>6. ASSUME NEW b \in Bot, NEW s \in Sender, ForgetSender(b, s) PROVE Fresh(round)
    <3>1. PICK rest : rest = Without(people[b], s) /\ rest \in Seq(Person)
      BY <2>1, WithoutKeeps DEF StoreTypes
    <3>2. PICK ps : ps = Sweep(rest)
      OBVIOUS
    <3>3. AllFresh(ps)
      BY <3>1, <3>2, SweepKeeps
    <3> QED BY <2>3, <2>6, <3>1, <3>2, <3>3 DEF ForgetSender
  <2>7. ASSUME NEW b \in Bot, SaveOther(b) PROVE FALSE
    BY <2>1, <2>7 DEF SaveOther, StoreTypes
  <2>8. ASSUME NEW b \in Bot PROVE ~Crash(b)
    BY DEF Crash, memory
  <2>9. ASSUME NEW r \in Request PROVE ~(Receive(r) \/ Admitted(r) \/ Answer(r) \/ Abandon(r))
    BY DEF Receive, Admitted, Answer, Abandon, Remembers, memory
  <2>10. ~(Tick \/ SetBack \/ UNCHANGED vars)
    BY DEF Tick, SetBack, vars, memory
  <2> QED BY <2>4, <2>5, <2>6, <2>7, <2>8, <2>9, <2>10 DEF Next
<1>2. Spec => [][Body]_vars
  BY <1>1, StoreInvariant, PTL DEF Spec
<1> QED BY <1>2 DEF AgeRespected

=============================================================================
