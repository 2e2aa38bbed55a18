----------------------------- MODULE WasiRaProofs -----------------------------
(***************************************************************************)
(* For any number of connections and buffers: when a TA panics, loses its  *)
(* connection or leaks, and that the handles behave as PtaSessions says.   *)
(***************************************************************************)
EXTENDS WasiRa, SequenceTheorems, TLAPS

-----------------------------------------------------------------------------
(***************************************************************************)
(* Sessions.  The TA never has more than three, so they are given one by   *)
(* one: System is always there.                                            *)
(***************************************************************************)
Session == [id : Nat, pta : Ptas]
S(n, p) == [id |-> n, pta |-> p]
System  == S(1, "system")

\* The number after the last one, when it is free.
LEMMA NextSessionId ==
  ASSUME NEW ss \in Seq(Session), ss # << >>, Last(ss).id + 1 \notin Ids(ss)
  PROVE  new_session_id(ss) = Last(ss).id + 1
<1>. DEFINE from == Last(ss).id + 1
            P(i) == i \notin Ids(ss) /\ \A j \in from..(i - 1) : j \in Ids(ss)
<1>1. Len(ss) \in Nat /\ Len(ss) > 0 /\ Last(ss) \in Session
  BY EmptySeq, LenProperties, ElementOfSeq DEF Last
<1>2. from \in Nat
  BY <1>1 DEF Session
<1>3. from \in from..(from + Len(ss))
  BY <1>1, <1>2
<1>4. P(from)
  BY <1>2
<1>5. \A i \in from..(from + Len(ss)) : P(i) => i = from
  BY <1>1, <1>2
<1>6. new_session_id(ss) = CHOOSE i \in from..(from + Len(ss)) : P(i)
  BY DEF new_session_id
<1>. HIDE DEF P, from
<1>7. from = CHOOSE i \in from..(from + Len(ss)) : P(i)
  BY <1>3, <1>4, <1>5
<1>. QED BY <1>6, <1>7 DEF from

\* What the numbers 1, 2 and 3 name in a list of one, two or three sessions.
LEMMA NamedInOne ==
  ASSUME NEW a \in Session, NEW id
  PROVE  Named(<<a>>, id) = IF a.id = id THEN {a.pta} ELSE {}
<1>. DEFINE ss == <<a>>
<1>1. DOMAIN ss = {1} /\ ss[1] = a
  OBVIOUS
<1>. HIDE DEF ss
<1>. QED BY <1>1 DEF Named, ss

\* In two sessions.
LEMMA NamedInTwo ==
  ASSUME NEW a \in Session, NEW b \in Session, NEW id, a.id # b.id
  PROVE  Named(<<a, b>>, id) = IF a.id = id THEN {a.pta} ELSE IF b.id = id THEN {b.pta} ELSE {}
<1>. DEFINE ss == <<a, b>>
<1>1. DOMAIN ss = {1, 2} /\ ss[1] = a /\ ss[2] = b
  OBVIOUS
<1>2. Named(ss, id) = {ss[i].pta : i \in {j \in {1, 2} : ss[j].id = id}}
  BY <1>1 DEF Named
<1>. HIDE DEF ss
<1>3. CASE a.id = id
  BY <1>1, <1>2, <1>3 DEF ss
<1>. QED BY <1>1, <1>2, <1>3 DEF ss

\* The pseudo TA a handle names among three sessions.
LEMMA NamedInThree ==
  ASSUME NEW a \in Session, NEW b \in Session, NEW c \in Session, NEW id,
         a.id # b.id, a.id # c.id, b.id # c.id
  PROVE  Named(<<a, b, c>>, id) =
           IF a.id = id THEN {a.pta} ELSE IF b.id = id THEN {b.pta}
           ELSE IF c.id = id THEN {c.pta} ELSE {}
<1>. DEFINE ss == <<a, b, c>>
<1>1. DOMAIN ss = {1, 2, 3} /\ ss[1] = a /\ ss[2] = b /\ ss[3] = c
  OBVIOUS
<1>2. Named(ss, id) = {ss[i].pta : i \in {j \in {1, 2, 3} : ss[j].id = id}}
  BY <1>1 DEF Named
<1>. HIDE DEF ss
<1>3. CASE a.id = id
  BY <1>1, <1>2, <1>3 DEF ss
<1>4. CASE b.id = id
  BY <1>1, <1>2, <1>4 DEF ss
<1>. QED BY <1>1, <1>2, <1>3, <1>4 DEF ss

\* A short list is known by its elements.
LEMMA Listed ==
  ASSUME NEW ss \in Seq(Session)
  PROVE  /\ Len(ss) = 1 => ss = <<ss[1]>>
         /\ Len(ss) = 2 => ss = <<ss[1], ss[2]>>
         /\ Len(ss) = 3 => ss = <<ss[1], ss[2], ss[3]>>
BY SeqEqual

\* A list with one more session at its end.
LEMMA Appended ==
  ASSUME NEW ss \in Seq(Session), NEW e \in Session
  PROVE  /\ Append(ss, e) \in Seq(Session) /\ Len(Append(ss, e)) = Len(ss) + 1
         /\ \A i \in 1..Len(ss) : Append(ss, e)[i] = ss[i]
         /\ Append(ss, e)[Len(ss) + 1] = e
BY AppendProperties

\* Opening: the first two sessions the TA adds get the numbers 2 and 3.
LEMMA OpenSecond ==
  ASSUME NEW p \in Ptas
  PROVE  new_session_id(<<System>>) = 2 /\ OpenSession(<<System>>, p) = <<System, S(2, p)>>
<1>. DEFINE ss == <<System>>
<1>1. ss \in Seq(Session) /\ ss # << >> /\ Last(ss).id = 1 /\ Ids(ss) = {1}
  BY DEF System, S, Session, Ptas, Last, Ids
<1>2. Len(ss) = 1 /\ ss[1] = System
  OBVIOUS
<1>. HIDE DEF ss
<1>3. new_session_id(ss) = 2
  BY <1>1, NextSessionId
<1>4. OpenSession(ss, p) = Append(ss, S(2, p)) /\ S(2, p) \in Session
  BY <1>3 DEF OpenSession, S, Session
<1>. DEFINE longer == Append(ss, S(2, p))
<1>5. /\ longer \in Seq(Session) /\ Len(longer) = 2
      /\ longer[1] = System /\ longer[2] = S(2, p)
  <2>1. /\ longer \in Seq(Session) /\ Len(longer) = Len(ss) + 1
        /\ \A i \in 1..Len(ss) : longer[i] = ss[i]
        /\ longer[Len(ss) + 1] = S(2, p)
    BY <1>1, <1>4, Appended
  <2>. HIDE DEF longer
  <2>. QED BY <1>2, <2>1
<1>. HIDE DEF longer
<1>6. longer = <<System, S(2, p)>>
  BY <1>5, Listed
<1>. QED BY <1>3, <1>4, <1>6 DEF ss, longer

\* The second one.
LEMMA OpenThird ==
  ASSUME NEW p \in Ptas, NEW q \in Ptas
  PROVE  /\ new_session_id(<<System, S(2, q)>>) = 3
         /\ OpenSession(<<System, S(2, q)>>, p) = <<System, S(2, q), S(3, p)>>
<1>. DEFINE ss == <<System, S(2, q)>>
<1>1. ss \in Seq(Session) /\ ss # << >> /\ Last(ss).id = 2
  BY DEF System, S, Session, Ptas, Last
<1>2. Ids(ss) = {1, 2}
  BY DEF System, S, Ids
<1>3. Len(ss) = 2 /\ ss[1] = System /\ ss[2] = S(2, q)
  OBVIOUS
<1>. HIDE DEF ss
<1>4. new_session_id(ss) = 3
  BY <1>1, <1>2, NextSessionId
<1>5. OpenSession(ss, p) = Append(ss, S(3, p)) /\ S(3, p) \in Session
  BY <1>4 DEF OpenSession, S, Session
<1>. DEFINE longer == Append(ss, S(3, p))
<1>6. /\ longer \in Seq(Session) /\ Len(longer) = 3
      /\ longer[1] = System /\ longer[2] = S(2, q) /\ longer[3] = S(3, p)
  <2>1. /\ longer \in Seq(Session) /\ Len(longer) = Len(ss) + 1
        /\ \A i \in 1..Len(ss) : longer[i] = ss[i]
        /\ longer[Len(ss) + 1] = S(3, p)
    BY <1>1, <1>5, Appended
  <2>. HIDE DEF longer
  <2>. QED BY <1>3, <2>1
<1>. HIDE DEF longer
<1>7. longer = <<System, S(2, q), S(3, p)>>
  BY <1>6, Listed
<1>. QED BY <1>4, <1>5, <1>7 DEF ss, longer

\* An element is taken out of a list, the others keep their order.
LEMMA Removed ==
  ASSUME NEW ss \in Seq(Session), NEW k \in 1..Len(ss)
  PROVE  /\ RemoveAt(ss, k) \in Seq(Session)
         /\ Len(RemoveAt(ss, k)) = Len(ss) - 1
         /\ \A i \in 1..(Len(ss) - 1) : RemoveAt(ss, k)[i] = IF i < k THEN ss[i] ELSE ss[i + 1]
<1>1. Len(ss) \in Nat /\ k \in Nat /\ k >= 1 /\ k <= Len(ss) /\ \A i \in 1..Len(ss) : ss[i] \in Session
  BY LenProperties, ElementOfSeq
<1>. DEFINE front == SubSeq(ss, 1, k - 1)
            back  == SubSeq(ss, k + 1, Len(ss))
<1>2. /\ front \in Seq(Session) /\ Len(front) = k - 1
      /\ \A i \in 1..(k - 1) : front[i] = ss[i]
  <2>1. k - 1 \in Int /\ \A i \in 1..(k - 1) : ss[i] \in Session
    BY <1>1
  <2>2. /\ front \in Seq(Session)
        /\ Len(front) = IF 1 <= k - 1 THEN (k - 1) - 1 + 1 ELSE 0
        /\ \A i \in 1..((k - 1) - 1 + 1) : front[i] = ss[1 + i - 1]
    BY <2>1, SubSeqProperties
  <2>. HIDE DEF front
  <2>. QED BY <1>1, <2>2
<1>3. /\ back \in Seq(Session) /\ Len(back) = Len(ss) - k
      /\ \A i \in 1..(Len(ss) - k) : back[i] = ss[k + i]
  <2>1. k + 1 \in Int /\ \A i \in (k + 1)..Len(ss) : ss[i] \in Session
    BY <1>1
  <2>2. /\ back \in Seq(Session)
        /\ Len(back) = IF k + 1 <= Len(ss) THEN Len(ss) - (k + 1) + 1 ELSE 0
        /\ \A i \in 1..(Len(ss) - (k + 1) + 1) : back[i] = ss[(k + 1) + i - 1]
    BY <1>1, <2>1, SubSeqProperties
  <2>. HIDE DEF back
  <2>3. Len(back) = Len(ss) - k
    BY <1>1, <2>2
  <2>4. ASSUME NEW i \in 1..(Len(ss) - k) PROVE back[i] = ss[k + i]
    <3>1. i \in 1..(Len(ss) - (k + 1) + 1) /\ (k + 1) + i - 1 = k + i
      BY <1>1
    <3>. QED BY <2>2, <3>1
  <2>. QED BY <2>2, <2>3, <2>4
<1>4. RemoveAt(ss, k) = front \o back
  BY DEF RemoveAt
<1>. HIDE DEF front, back
<1>5. /\ front \o back \in Seq(Session)
      /\ Len(front \o back) = Len(ss) - 1
      /\ \A i \in 1..(Len(ss) - 1) :
           (front \o back)[i] = IF i <= k - 1 THEN front[i] ELSE back[i - (k - 1)]
  <2>1. /\ front \o back \in Seq(Session)
        /\ Len(front \o back) = Len(front) + Len(back)
        /\ \A i \in 1..(Len(front) + Len(back)) :
             (front \o back)[i] = IF i <= Len(front) THEN front[i] ELSE back[i - Len(front)]
    BY <1>2, <1>3, ConcatProperties
  <2>2. Len(front) + Len(back) = Len(ss) - 1
    BY <1>1, <1>2, <1>3
  <2>. QED BY <1>2, <2>1, <2>2
<1>6. \A i \in 1..(Len(ss) - 1) : (front \o back)[i] = IF i < k THEN ss[i] ELSE ss[i + 1]
  BY <1>1, <1>2, <1>3, <1>5
<1>. QED BY <1>4, <1>5, <1>6

\* Closing: the session with the number is taken out of the list.
LEMMA CloseAt ==
  ASSUME NEW ss \in Seq(Session), NEW k \in 1..Len(ss),
         \A i \in 1..Len(ss) : ss[i].id = ss[k].id => i = k
  PROVE  CloseSession(ss, ss[k].id) = RemoveAt(ss, k)
<1>1. DOMAIN ss = 1..Len(ss)
  BY LenProperties
<1>2. (CHOOSE i \in DOMAIN ss : ss[i].id = ss[k].id) = k /\ ss[k].id \in Ids(ss)
  BY <1>1 DEF Ids
<1>. QED BY <1>2 DEF CloseSession

\* Every other session keeps its place before or moves up.
LEMMA CloseRemoves ==
  ASSUME NEW ss \in Seq(Session), NEW k \in 1..Len(ss),
         \A i \in 1..Len(ss) : ss[i].id = ss[k].id => i = k
  PROVE  /\ CloseSession(ss, ss[k].id) \in Seq(Session)
         /\ Len(CloseSession(ss, ss[k].id)) = Len(ss) - 1
         /\ \A i \in 1..(Len(ss) - 1) :
              CloseSession(ss, ss[k].id)[i] = IF i < k THEN ss[i] ELSE ss[i + 1]
<1>1. CloseSession(ss, ss[k].id) = RemoveAt(ss, k)
  BY CloseAt
<1>2. /\ RemoveAt(ss, k) \in Seq(Session)
      /\ Len(RemoveAt(ss, k)) = Len(ss) - 1
      /\ \A i \in 1..(Len(ss) - 1) : RemoveAt(ss, k)[i] = IF i < k THEN ss[i] ELSE ss[i + 1]
  BY Removed
<1>. QED BY <1>1, <1>2, Zenon

\* A null handle names none.
LEMMA CloseNone ==
  ASSUME NEW ss, NEW id, id \notin Ids(ss)
  PROVE  CloseSession(ss, id) = ss
BY DEF CloseSession

\* Of two sessions the TA closes its only one.
LEMMA CloseSecond ==
  ASSUME NEW p \in Ptas
  PROVE  CloseSession(<<System, S(2, p)>>, 2) = <<System>>
<1>. DEFINE ss == <<System, S(2, p)>>
<1>1. ss \in Seq(Session)
  BY DEF System, S, Session, Ptas
<1>2. Len(ss) = 2 /\ ss[1] = System /\ ss[1].id = 1 /\ ss[2].id = 2
  BY DEF System, S
<1>. HIDE DEF ss
<1>. DEFINE rest == CloseSession(ss, ss[2].id)
<1>3. rest \in Seq(Session) /\ Len(rest) = 1 /\ rest[1] = ss[1]
  <2>1. /\ rest \in Seq(Session) /\ Len(rest) = Len(ss) - 1
        /\ \A i \in 1..(Len(ss) - 1) : rest[i] = IF i < 2 THEN ss[i] ELSE ss[i + 1]
    <3>1. 2 \in 1..Len(ss) /\ \A i \in 1..Len(ss) : ss[i].id = ss[2].id => i = 2
      BY <1>2
    <3>. QED BY <1>1, <3>1, CloseRemoves
  <2>. HIDE DEF rest
  <2>. QED BY <1>2, <2>1
<1>. HIDE DEF rest
<1>4. rest = <<ss[1]>>
  BY <1>3, Listed
<1>. QED BY <1>2, <1>4 DEF ss, rest

\* Of three it closes either, and the other keeps its number.
LEMMA CloseOfThree ==
  ASSUME NEW p \in Ptas, NEW q \in Ptas
  PROVE  /\ CloseSession(<<System, S(2, p), S(3, q)>>, 2) = <<System, S(3, q)>>
         /\ CloseSession(<<System, S(2, p), S(3, q)>>, 3) = <<System, S(2, p)>>
<1>. DEFINE ss == <<System, S(2, p), S(3, q)>>
<1>1. ss \in Seq(Session)
  BY DEF System, S, Session, Ptas
<1>2. /\ Len(ss) = 3 /\ ss[1] = System /\ ss[2] = S(2, p) /\ ss[3] = S(3, q)
      /\ ss[1].id = 1 /\ ss[2].id = 2 /\ ss[3].id = 3
  BY DEF System, S
<1>. HIDE DEF ss
<1>3. CloseSession(ss, ss[2].id) = <<ss[1], ss[3]>>
  <2>. DEFINE rest == CloseSession(ss, ss[2].id)
  <2>0. 2 \in 1..Len(ss) /\ \A i \in 1..Len(ss) : ss[i].id = ss[2].id => i = 2
    BY <1>2
  <2>1. /\ rest \in Seq(Session) /\ Len(rest) = Len(ss) - 1
        /\ \A i \in 1..(Len(ss) - 1) : rest[i] = IF i < 2 THEN ss[i] ELSE ss[i + 1]
    BY <1>1, <2>0, CloseRemoves
  <2>. HIDE DEF rest
  <2>2. Len(rest) = 2 /\ rest[1] = ss[1] /\ rest[2] = ss[3]
    BY <1>2, <2>1
  <2>3. rest = <<ss[1], ss[3]>>
    BY <2>1, <2>2, Listed
  <2>. QED BY <2>3 DEF rest
<1>4. CloseSession(ss, ss[3].id) = <<ss[1], ss[2]>>
  <2>. DEFINE rest == CloseSession(ss, ss[3].id)
  <2>0. 3 \in 1..Len(ss) /\ \A i \in 1..Len(ss) : ss[i].id = ss[3].id => i = 3
    BY <1>2
  <2>1. /\ rest \in Seq(Session) /\ Len(rest) = Len(ss) - 1
        /\ \A i \in 1..(Len(ss) - 1) : rest[i] = IF i < 3 THEN ss[i] ELSE ss[i + 1]
    BY <1>1, <2>0, CloseRemoves
  <2>. HIDE DEF rest
  <2>2. Len(rest) = 2 /\ rest[1] = ss[1] /\ rest[2] = ss[2]
    BY <1>2, <2>1
  <2>3. rest = <<ss[1], ss[2]>>
    BY <2>1, <2>2, Listed
  <2>. QED BY <2>3 DEF rest
<1>. QED BY <1>2, <1>3, <1>4 DEF ss

-----------------------------------------------------------------------------
(***************************************************************************)
(* The sessions and the two handles together: the ten cases there are.     *)
(***************************************************************************)
Are(ss, att, sock) ==
  sessions = ss /\ attestation_session = att /\ socket_session = sock

Fresh          == Are(<<System>>, 0, 0)
Attested       == Are(<<System, S(2, "attestation")>>, 2, 0)
AttestedSocket == Are(<<System, S(2, "attestation"), S(3, "socket")>>, 2, 3)
Disposed       == Are(<<System>>, 2, 0)
DisposedSocket == Are(<<System, S(3, "socket")>>, 2, 3)
Confused       == Are(<<System, S(2, "socket")>>, 2, 2)
BothClosed     == Are(<<System>>, 2, 2)
Socket         == Are(<<System, S(2, "socket")>>, 0, 2)
SocketAttested == Are(<<System, S(2, "socket"), S(3, "attestation")>>, 3, 2)
SocketDisposed == Are(<<System, S(2, "socket")>>, 3, 2)

Held == \/ Fresh \/ Attested \/ AttestedSocket \/ Disposed \/ DisposedSocket \/ Confused
        \/ BothClosed \/ Socket \/ SocketAttested \/ SocketDisposed

\* What a number names in each of the lists.
LEMMA Names ==
  ASSUME NEW p \in Ptas, NEW q \in Ptas
  PROVE  /\ Named(<<System>>, 2) = {}
         /\ Named(<<System, S(2, p)>>, 2) = {p} /\ Named(<<System, S(2, p)>>, 3) = {}
         /\ Named(<<System, S(3, p)>>, 2) = {} /\ Named(<<System, S(3, p)>>, 3) = {p}
         /\ Named(<<System, S(2, p), S(3, q)>>, 2) = {p}
         /\ Named(<<System, S(2, p), S(3, q)>>, 3) = {q}
<1>1. \A n \in Nat, r \in Ptas : S(n, r) \in Session /\ S(n, r).id = n /\ S(n, r).pta = r
  BY DEF S, Session
<1>2. System \in Session /\ System.id = 1 /\ System.id # 2 /\ System.id # 3
  BY <1>1 DEF System, Ptas
<1>3. /\ S(2, p) \in Session /\ S(2, p).id = 2 /\ S(2, p).pta = p
      /\ S(3, p) \in Session /\ S(3, p).id = 3 /\ S(3, p).pta = p
      /\ S(3, q) \in Session /\ S(3, q).id = 3 /\ S(3, q).pta = q
  BY <1>1
<1>4. System.id # S(2, p).id /\ System.id # S(3, p).id /\ System.id # S(3, q).id
  BY <1>2, <1>3
<1>5. 2 # 3 /\ S(2, p).id # S(3, q).id
  BY <1>3
<1>6. Named(<<System>>, 2) = {}
  BY <1>2, NamedInOne, Zenon
<1>7. Named(<<System, S(2, p)>>, 2) = {p} /\ Named(<<System, S(2, p)>>, 3) = {}
  <2>1. \A id : Named(<<System, S(2, p)>>, id) =
          IF System.id = id THEN {System.pta} ELSE IF S(2, p).id = id THEN {S(2, p).pta} ELSE {}
    BY <1>2, <1>3, <1>4, NamedInTwo
  <2>. QED BY <1>2, <1>3, <2>1
<1>8. Named(<<System, S(3, p)>>, 2) = {} /\ Named(<<System, S(3, p)>>, 3) = {p}
  <2>1. \A id : Named(<<System, S(3, p)>>, id) =
          IF System.id = id THEN {System.pta} ELSE IF S(3, p).id = id THEN {S(3, p).pta} ELSE {}
    BY <1>2, <1>3, <1>4, NamedInTwo
  <2>. QED BY <1>2, <1>3, <2>1
<1>9. Named(<<System, S(2, p), S(3, q)>>, 2) = {p} /\ Named(<<System, S(2, p), S(3, q)>>, 3) = {q}
  <2>1. \A id : Named(<<System, S(2, p), S(3, q)>>, id) =
          IF System.id = id THEN {System.pta} ELSE IF S(2, p).id = id THEN {S(2, p).pta}
          ELSE IF S(3, q).id = id THEN {S(3, q).pta} ELSE {}
    <3>. DEFINE b == S(2, p)
                c == S(3, q)
    <3>1. System \in Session /\ b \in Session /\ c \in Session
      BY <1>2, <1>3
    <3>2. System.id # b.id /\ System.id # c.id /\ b.id # c.id
      BY <1>4, <1>5
    <3>. HIDE DEF b, c
    <3>3. \A id : Named(<<System, b, c>>, id) =
            IF System.id = id THEN {System.pta} ELSE IF b.id = id THEN {b.pta}
            ELSE IF c.id = id THEN {c.pta} ELSE {}
      BY <3>1, <3>2, NamedInThree
    <3>. QED BY <3>3 DEF b, c
  <2>. QED BY <1>2, <1>3, <2>1
<1>. QED BY <1>6, <1>7, <1>8, <1>9

\* What the two handles name in each case.
Named2(att, sock) ==
  /\ attestation_session # 0 /\ Named(sessions, attestation_session) = att
  /\ socket_session # 0 /\ Named(sessions, socket_session) = sock
NamedAtt(att) ==
  attestation_session # 0 /\ Named(sessions, attestation_session) = att /\ socket_session = 0
NamedSock(sock) ==
  attestation_session = 0 /\ socket_session # 0 /\ Named(sessions, socket_session) = sock

\* What the two stored numbers name in each of the ten cases.
LEMMA HandlesName ==
  /\ Fresh => attestation_session = 0 /\ socket_session = 0
  /\ Attested => NamedAtt({"attestation"})
  /\ AttestedSocket => Named2({"attestation"}, {"socket"})
  /\ Disposed => NamedAtt({})
  /\ DisposedSocket => Named2({}, {"socket"})
  /\ Confused => Named2({"socket"}, {"socket"})
  /\ BothClosed => Named2({}, {})
  /\ Socket => NamedSock({"socket"})
  /\ SocketAttested => Named2({"attestation"}, {"socket"})
  /\ SocketDisposed => Named2({}, {"socket"})
<1>. USE DEF Are, Named2, NamedAtt, NamedSock
<1>0. "socket" \in Ptas /\ "attestation" \in Ptas
  BY DEF Ptas
<1>1. Fresh => attestation_session = 0 /\ socket_session = 0
  BY DEF Fresh
<1>2. Attested => NamedAtt({"attestation"})
  <2>1. /\ Named(<<System, S(2, "attestation")>>, 2) = {"attestation"}
    BY <1>0, Names
  <2>. QED BY <2>1 DEF Attested
<1>3. AttestedSocket => Named2({"attestation"}, {"socket"})
  <2>1. /\ Named(<<System, S(2, "attestation"), S(3, "socket")>>, 2) = {"attestation"}
        /\ Named(<<System, S(2, "attestation"), S(3, "socket")>>, 3) = {"socket"}
    BY <1>0, Names
  <2>. QED BY <2>1 DEF AttestedSocket
<1>4. Disposed => NamedAtt({})
  <2>1. /\ Named(<<System>>, 2) = {}
    BY <1>0, Names
  <2>. QED BY <2>1 DEF Disposed
<1>5. DisposedSocket => Named2({}, {"socket"})
  <2>1. /\ Named(<<System, S(3, "socket")>>, 2) = {}
        /\ Named(<<System, S(3, "socket")>>, 3) = {"socket"}
    BY <1>0, Names
  <2>. QED BY <2>1 DEF DisposedSocket
<1>6. Confused => Named2({"socket"}, {"socket"})
  <2>1. /\ Named(<<System, S(2, "socket")>>, 2) = {"socket"}
    BY <1>0, Names
  <2>. QED BY <2>1 DEF Confused
<1>7. BothClosed => Named2({}, {})
  <2>1. /\ Named(<<System>>, 2) = {}
    BY <1>0, Names
  <2>. QED BY <2>1 DEF BothClosed
<1>8. Socket => NamedSock({"socket"})
  <2>1. /\ Named(<<System, S(2, "socket")>>, 2) = {"socket"}
    BY <1>0, Names
  <2>. QED BY <2>1 DEF Socket
<1>9. SocketAttested => Named2({"attestation"}, {"socket"})
  <2>1. /\ Named(<<System, S(2, "socket"), S(3, "attestation")>>, 3) = {"attestation"}
        /\ Named(<<System, S(2, "socket"), S(3, "attestation")>>, 2) = {"socket"}
    BY <1>0, Names
  <2>. QED BY <2>1 DEF SocketAttested
<1>10. SocketDisposed => Named2({}, {"socket"})
  <2>1. /\ Named(<<System, S(2, "socket")>>, 3) = {}
        /\ Named(<<System, S(2, "socket")>>, 2) = {"socket"}
    BY <1>0, Names
  <2>. QED BY <2>1 DEF SocketDisposed
<1>. QED BY <1>1, <1>2, <1>3, <1>4, <1>5, <1>6, <1>7, <1>8, <1>9, <1>10

\* That is the view of PtaSessions.
LEMMA Views ==
  /\ Fresh => View = [att |-> "null", sock |-> "null"]
  /\ Attested => View = [att |-> "open", sock |-> "null"]
  /\ AttestedSocket => View = [att |-> "open", sock |-> "open"]
  /\ Disposed => View = [att |-> "closed", sock |-> "null"]
  /\ DisposedSocket => View = [att |-> "closed", sock |-> "open"]
  /\ Confused => View = [att |-> "socket", sock |-> "open"]
  /\ BothClosed => View = [att |-> "closed", sock |-> "closed"]
  /\ Socket => View = [att |-> "null", sock |-> "open"]
  /\ SocketAttested => View = [att |-> "open", sock |-> "open"]
  /\ SocketDisposed => View = [att |-> "closed", sock |-> "open"]
BY HandlesName DEF Named2, NamedAtt, NamedSock, View, Reaches
\* Numbers that name nothing.
LEMMA NamesNothing ==
  /\ \A ss, id : Named(ss, id) = {} => id \notin Ids(ss)
  /\ Fresh => Named(sessions, 0) = {}
  /\ Socket => Named(sessions, 0) = {}
<1>1. \A ss, id : Named(ss, id) = {} => id \notin Ids(ss)
  BY DEF Named, Ids
<1>2. System \in Session /\ System.id # 0 /\ S(2, "socket") \in Session
  BY DEF System, S, Session, Ptas
<1>3. S(2, "socket").id # 0 /\ System.id # S(2, "socket").id
  BY DEF System, S
<1>4. Named(<<System>>, 0) = {}
  BY <1>2, NamedInOne
<1>5. Named(<<System, S(2, "socket")>>, 0) = {}
  BY <1>2, <1>3, NamedInTwo
<1>. QED BY <1>1, <1>4, <1>5 DEF Fresh, Socket, Are

\* invoke_socket_pta opens the session of a null handle, and uses the one there is.  With
\* the attestation session closed, the new one has its number.
LEMMA SocketOpens ==
  ASSUME Held, ~Dangling(WithSocketSession, SocketHandle),
         socket_session' = SocketHandle, sessions' = WithSocketSession,
         attestation_session' = attestation_session
  PROVE  /\ Fresh => Socket'
         /\ Attested => AttestedSocket'
         /\ Disposed => Confused'
         /\ AttestedSocket => AttestedSocket'
         /\ DisposedSocket => DisposedSocket'
         /\ Confused => Confused'
         /\ Socket => Socket'
         /\ SocketAttested => SocketAttested'
         /\ SocketDisposed => SocketDisposed'
         /\ ~BothClosed
<1>0. "socket" \in Ptas /\ "attestation" \in Ptas
  BY DEF Ptas
<1>1. CASE socket_session = 0
  <2>1. SocketHandle = new_session_id(sessions) /\ WithSocketSession = OpenSession(sessions, "socket")
    BY <1>1 DEF SocketHandle, WithSocketSession
  <2>2. /\ new_session_id(<<System>>) = 2
        /\ OpenSession(<<System>>, "socket") = <<System, S(2, "socket")>>
    BY <1>0, OpenSecond
  <2>3. /\ new_session_id(<<System, S(2, "attestation")>>) = 3
        /\ OpenSession(<<System, S(2, "attestation")>>, "socket") =
             <<System, S(2, "attestation"), S(3, "socket")>>
    BY <1>0, OpenThird
  <2>4. Fresh => Socket'
    BY <2>1, <2>2 DEF Fresh, Socket, Are
  <2>5. Disposed => Confused'
    BY <2>1, <2>2 DEF Disposed, Confused, Are
  <2>6. Attested => AttestedSocket'
    BY <2>1, <2>3 DEF Attested, AttestedSocket, Are
  <2>. QED BY <1>1, <2>4, <2>5, <2>6 DEF AttestedSocket, DisposedSocket, Confused, BothClosed, Socket,
                                      SocketAttested, SocketDisposed, Are
<1>2. CASE socket_session # 0
  <2>1. SocketHandle = socket_session /\ WithSocketSession = sessions
    BY <1>2 DEF SocketHandle, WithSocketSession
  <2>2. UNCHANGED <<sessions, attestation_session, socket_session>>
    BY <2>1
  <2>3. ~BothClosed
    BY <2>1, HandlesName DEF Dangling, Named2
  <2>. QED BY <1>2, <2>2, <2>3 DEF Fresh, Attested, Disposed, AttestedSocket, DisposedSocket, Confused,
                                Socket, SocketAttested, SocketDisposed, Are
<1>. QED BY <1>1, <1>2

\* ensure_attestation_service_up does so for the attestation session, whatever the handle
\* names by then.
LEMMA AttestationOpens ==
  ASSUME Held, ~Dangling(WithAttestationSession, AttestationHandle),
         attestation_session' = AttestationHandle, sessions' = WithAttestationSession,
         socket_session' = socket_session
  PROVE  /\ Fresh => Attested'
         /\ Socket => SocketAttested'
         /\ Attested => Attested'
         /\ AttestedSocket => AttestedSocket'
         /\ Confused => Confused'
         /\ SocketAttested => SocketAttested'
         /\ ~Disposed /\ ~DisposedSocket /\ ~BothClosed /\ ~SocketDisposed
<1>0. "socket" \in Ptas /\ "attestation" \in Ptas
  BY DEF Ptas
<1>1. CASE attestation_session = 0
  <2>1. /\ AttestationHandle = new_session_id(sessions)
        /\ WithAttestationSession = OpenSession(sessions, "attestation")
    BY <1>1 DEF AttestationHandle, WithAttestationSession
  <2>2. /\ new_session_id(<<System>>) = 2
        /\ OpenSession(<<System>>, "attestation") = <<System, S(2, "attestation")>>
    BY <1>0, OpenSecond
  <2>3. /\ new_session_id(<<System, S(2, "socket")>>) = 3
        /\ OpenSession(<<System, S(2, "socket")>>, "attestation") =
             <<System, S(2, "socket"), S(3, "attestation")>>
    BY <1>0, OpenThird
  <2>4. Fresh => Attested'
    BY <2>1, <2>2 DEF Fresh, Attested, Are
  <2>5. Socket => SocketAttested'
    BY <2>1, <2>3 DEF Socket, SocketAttested, Are
  <2>. QED BY <1>1, <2>4, <2>5 DEF Attested, AttestedSocket, Disposed, DisposedSocket, Confused,
                                BothClosed, SocketAttested, SocketDisposed, Are
<1>2. CASE attestation_session # 0
  <2>1. AttestationHandle = attestation_session /\ WithAttestationSession = sessions
    BY <1>2 DEF AttestationHandle, WithAttestationSession
  <2>2. UNCHANGED <<sessions, attestation_session, socket_session>>
    BY <2>1
  <2>3. ~Disposed /\ ~DisposedSocket /\ ~BothClosed /\ ~SocketDisposed
    BY <2>1, HandlesName DEF Dangling, Named2, NamedAtt
  <2>. QED BY <1>2, <2>2, <2>3 DEF Fresh, Attested, AttestedSocket, Confused, Socket, SocketAttested, Are
<1>. QED BY <1>1, <1>2

\* close_attestation_session closes what the handle names, and the handle stays.
LEMMA AttestationCloses ==
  ASSUME Held, attestation_session # 0 => ~Dangling(sessions, attestation_session),
         sessions' = CloseSession(sessions, attestation_session),
         UNCHANGED <<attestation_session, socket_session>>
  PROVE  /\ Fresh => Fresh'
         /\ Socket => Socket'
         /\ Attested => Disposed'
         /\ AttestedSocket => DisposedSocket'
         /\ Confused => BothClosed'
         /\ SocketAttested => SocketDisposed'
         /\ ~Disposed /\ ~DisposedSocket /\ ~BothClosed /\ ~SocketDisposed
<1>0. "socket" \in Ptas /\ "attestation" \in Ptas
  BY DEF Ptas
<1>1. (Fresh => Fresh') /\ (Socket => Socket')
  <2>1. Fresh \/ Socket => CloseSession(sessions, 0) = sessions /\ attestation_session = 0
    BY NamesNothing, CloseNone DEF Fresh, Socket, Are
  <2>. QED BY <2>1 DEF Fresh, Socket, Are
<1>2. Attested => Disposed'
  <2>1. CloseSession(<<System, S(2, "attestation")>>, 2) = <<System>>
    BY <1>0, CloseSecond
  <2>. QED BY <2>1 DEF Attested, Disposed, Are
<1>3. Confused => BothClosed'
  <2>1. CloseSession(<<System, S(2, "socket")>>, 2) = <<System>>
    BY <1>0, CloseSecond
  <2>. QED BY <2>1 DEF Confused, BothClosed, Are
<1>4. AttestedSocket => DisposedSocket'
  <2>1. CloseSession(<<System, S(2, "attestation"), S(3, "socket")>>, 2) = <<System, S(3, "socket")>>
    BY <1>0, CloseOfThree
  <2>. QED BY <2>1 DEF AttestedSocket, DisposedSocket, Are
<1>5. SocketAttested => SocketDisposed'
  <2>1. CloseSession(<<System, S(2, "socket"), S(3, "attestation")>>, 3) = <<System, S(2, "socket")>>
    BY <1>0, CloseOfThree
  <2>. QED BY <2>1 DEF SocketAttested, SocketDisposed, Are
<1>6. ~Disposed /\ ~DisposedSocket /\ ~BothClosed /\ ~SocketDisposed
  BY HandlesName DEF Dangling, Named2, NamedAtt
<1>. QED BY <1>1, <1>2, <1>3, <1>4, <1>5, <1>6
-----------------------------------------------------------------------------
(***************************************************************************)
(* The inductive invariant WInv.                                           *)
(***************************************************************************)
Closed == Disposed \/ DisposedSocket \/ Confused \/ BothClosed \/ SocketDisposed

\* What the application must have done for the handles to be as they are.
HandlesPast ==
  /\ Held
  /\ attestation_session = 2 => "early_collect" \in past
  /\ Closed => "disposed" \in past
  /\ Disposed => is_ra_quote_available
  /\ Confused /\ ~is_ra_quote_available => "collect_failed" \in past
  /\ BothClosed => "collect_failed" \in past

\* The connection of a context is lost with the socket session and not otherwise.
Connected == ~is_ra_context_available => conn \in conns \/ BothClosed

\* What is open or allocated belongs to the context, unless a call failed.
Owned ==
  /\ is_ra_context_available \in BOOLEAN /\ msg3 \in BOOLEAN
  /\ is_ra_context_available => ~msg3
  /\ "handshake_failed" \notin past => conns \subseteq (IF is_ra_context_available THEN {} ELSE {conn})
  /\ {"received_twice", "received_nothing"} \cap past = {} => bufs = IF msg3 THEN 1 ELSE 0

WInv ==
  /\ alive \in BOOLEAN
  /\ alive => HandlesPast /\ Connected
  /\ ~alive => "disposed" \in past
  /\ Owned

\* A step that leaves the sessions and their handles alone keeps the case.
LEMMA SameHandles ==
  ASSUME UNCHANGED <<sessions, attestation_session, socket_session>>
  PROVE  /\ Held' = Held /\ Closed' = Closed /\ View' = View
         /\ Disposed' = Disposed /\ Confused' = Confused /\ BothClosed' = BothClosed
BY DEF Held, Closed, View, Fresh, Attested, AttestedSocket, Disposed, DisposedSocket, Confused,
       BothClosed, Socket, SocketAttested, SocketDisposed, Are

\* The cases exclude each other as far as the proof needs it.
LEMMA Different ==
  /\ Confused => ~Disposed /\ ~BothClosed /\ attestation_session = 2
  /\ BothClosed => ~Disposed
  /\ Attested \/ AttestedSocket => attestation_session = 2
  /\ Attested \/ AttestedSocket \/ Fresh \/ Socket \/ SocketAttested => ~Closed
  /\ Disposed \/ DisposedSocket \/ BothClosed => attestation_session = 2
  /\ DisposedSocket \/ SocketDisposed => ~Disposed /\ ~Confused /\ ~BothClosed
  /\ Socket \/ SocketAttested \/ SocketDisposed \/ Fresh => attestation_session # 2
<1>1. \A p \in {"socket", "attestation"} :
        /\ <<System>> # <<System, S(2, p)>> /\ <<System>> # <<System, S(3, p)>>
  OBVIOUS
<1>2. <<System, S(2, "socket")>> # <<System, S(2, "attestation")>>
  BY DEF S
<1>. QED BY <1>1, <1>2 DEF Closed, Fresh, Attested, AttestedSocket, Disposed, DisposedSocket, Confused,
                        BothClosed, Socket, SocketAttested, SocketDisposed, Are
\* History only grows.
LEMMA PastGrows == ASSUME Next PROVE past \subseteq past'
BY DEF Next, CollectRefused, CollectQuote, DisposeQuote, HandshakeRefused, NotConnected, Handshake,
       ReceiveData, Dispose, Panics

-----------------------------------------------------------------------------
(* One lemma per part of the invariant.                                      *)

\* A panic comes from a handle whose session was closed.
LEMMA PanicsStep ==
  ASSUME HandlesPast, Panics PROVE "disposed" \in past
<1>1. PICK h \in {attestation_session, socket_session} \ {0} : Named(sessions, h) = {}
  BY DEF Panics, Dangling
<1>2. Closed
  <2>1. ~Fresh
    BY <1>1 DEF Fresh, Are
  <2>2. ~Attested
    BY <1>1, HandlesName DEF NamedAtt
  <2>3. ~AttestedSocket /\ ~SocketAttested
    BY <1>1, HandlesName DEF Named2
  <2>4. ~Socket
    BY <1>1, HandlesName DEF NamedSock
  <2>. QED BY <2>1, <2>2, <2>3, <2>4 DEF HandlesPast, Held, Closed
<1>. QED BY <1>2 DEF HandlesPast

\* The handles of a TA that goes on are in one of the ten cases, reached as they say.
LEMMA HandlesStep ==
  ASSUME HandlesPast, Next, alive' PROVE HandlesPast'
<1>0. past \subseteq past'
  BY PastGrows
<1>1. ASSUME UNCHANGED handles, is_ra_quote_available' = is_ra_quote_available
      PROVE  HandlesPast'
  BY <1>0, <1>1, SameHandles DEF handles, HandlesPast
<1>2. CASE CollectRefused
  <2>1. UNCHANGED <<sessions, attestation_session, socket_session>> /\ attestation_session = 0
    BY <1>2 DEF CollectRefused, handles
  <2>2. ~Disposed /\ ~Confused /\ ~BothClosed
    BY <2>1, Different
  <2>. QED BY <1>0, <2>1, <2>2, SameHandles DEF HandlesPast
<1>3. CASE CollectQuote
  <2>1. /\ Fresh => Attested'
        /\ Socket => SocketAttested'
        /\ Attested => Attested'
        /\ AttestedSocket => AttestedSocket'
        /\ Confused => Confused'
        /\ SocketAttested => SocketAttested'
        /\ ~Disposed /\ ~DisposedSocket /\ ~BothClosed /\ ~SocketDisposed
    BY <1>3, AttestationOpens DEF CollectQuote, HandlesPast
  <2>2. Fresh => "early_collect" \in past'
    BY <1>3 DEF CollectQuote, Fresh, Are
  <2>3. Confused => "collect_failed" \in past'
    <3>1. ASSUME Confused PROVE ~Reaches(WithAttestationSession, AttestationHandle, "attestation")
      <4>1. AttestationHandle = attestation_session /\ WithAttestationSession = sessions
        BY <3>1 DEF Confused, Are, AttestationHandle, WithAttestationSession
      <4>2. Named(sessions, attestation_session) = {"socket"}
        BY <3>1, HandlesName DEF Named2
      <4>. QED BY <4>1, <4>2 DEF Reaches
    <3>. QED BY <1>3, <3>1 DEF CollectQuote
  <2>4. CASE Confused
    <3>1. Confused' /\ "disposed" \in past' /\ "early_collect" \in past'
      BY <1>0, <2>1, <2>4, Different DEF HandlesPast, Closed
    <3>2. (Confused => ~Disposed /\ ~BothClosed /\ attestation_session = 2)'
      BY Different, PTL
    <3>. QED BY <2>3, <2>4, <3>1, <3>2 DEF HandlesPast, Held
  <2>5. CASE ~Confused
    <3>1. Attested' \/ AttestedSocket' \/ SocketAttested'
      BY <2>1, <2>5 DEF HandlesPast, Held
    <3>2. /\ (Attested \/ AttestedSocket \/ Fresh \/ Socket \/ SocketAttested => ~Closed)'
          /\ (Socket \/ SocketAttested \/ SocketDisposed \/ Fresh => attestation_session # 2)'
      BY Different, PTL
    <3>3. Attested' \/ AttestedSocket' => "early_collect" \in past'
      <4>1. (Attested \/ AttestedSocket => attestation_session = 2)'
        BY Different, PTL
      <4>2. Socket \/ SocketAttested => attestation_session' # 2
        BY <2>1, <3>2
      <4>3. Attested \/ AttestedSocket => attestation_session = 2
        BY Different
      <4>4. Fresh \/ Attested \/ AttestedSocket \/ Socket \/ SocketAttested
        BY <2>1, <2>5 DEF HandlesPast, Held
      <4>. QED BY <1>0, <2>2, <4>1, <4>2, <4>3, <4>4 DEF HandlesPast
    <3>4. ~Closed'
      BY <3>1, <3>2
    <3>. QED BY <3>1, <3>2, <3>3, <3>4 DEF HandlesPast, Held, Closed
  <2>. QED BY <2>4, <2>5
<1>4. CASE DisposeQuote
  <2>1. /\ Fresh => Fresh'
        /\ Socket => Socket'
        /\ Attested => Disposed'
        /\ AttestedSocket => DisposedSocket'
        /\ Confused => BothClosed'
        /\ SocketAttested => SocketDisposed'
        /\ ~Disposed /\ ~DisposedSocket /\ ~BothClosed /\ ~SocketDisposed
    BY <1>4, AttestationCloses DEF DisposeQuote, HandlesPast
  <2>2. /\ "disposed" \in past' /\ is_ra_quote_available' /\ attestation_session' = attestation_session
        /\ ~is_ra_quote_available
    BY <1>4 DEF DisposeQuote
  <2>3. Held'
    BY <2>1 DEF HandlesPast, Held
  <2>4. BothClosed' => "collect_failed" \in past'
    <3>1. ~Confused => ~BothClosed'
      <4>1. /\ (BothClosed => ~Disposed)'
            /\ (DisposedSocket \/ SocketDisposed => ~Disposed /\ ~Confused /\ ~BothClosed)'
            /\ (Attested \/ AttestedSocket \/ Fresh \/ Socket \/ SocketAttested => ~Closed)'
        BY Different, PTL
      <4>. QED BY <2>1, <4>1 DEF HandlesPast, Held, Closed
    <3>. QED BY <1>0, <2>2, <3>1 DEF HandlesPast
  <2>. QED BY <1>0, <2>2, <2>3, <2>4 DEF HandlesPast
<1>5. CASE NotConnected \/ Handshake
  <2>1. /\ ~Dangling(WithSocketSession, SocketHandle)
        /\ socket_session' = SocketHandle /\ sessions' = WithSocketSession
        /\ attestation_session' = attestation_session
        /\ is_ra_quote_available' = is_ra_quote_available
    BY <1>5 DEF NotConnected, Handshake, Reaches, Dangling, slots
  <2>2. /\ Fresh => Socket'
        /\ Attested => AttestedSocket'
        /\ Disposed => Confused'
        /\ AttestedSocket => AttestedSocket'
        /\ DisposedSocket => DisposedSocket'
        /\ Confused => Confused'
        /\ Socket => Socket'
        /\ SocketAttested => SocketAttested'
        /\ SocketDisposed => SocketDisposed'
        /\ ~BothClosed
    BY <2>1, SocketOpens DEF HandlesPast
  <2>3. Held'
    BY <2>2 DEF HandlesPast, Held
  <2>4. /\ (Attested \/ AttestedSocket \/ Fresh \/ Socket \/ SocketAttested => ~Closed)'
        /\ (Confused => ~Disposed /\ ~BothClosed /\ attestation_session = 2)'
        /\ (DisposedSocket \/ SocketDisposed => ~Disposed /\ ~Confused /\ ~BothClosed)'
    BY Different, PTL
  <2>5. Closed' => Closed
    BY <2>2, <2>4 DEF HandlesPast, Held, Closed
  <2>6. ~Disposed' /\ ~BothClosed'
    BY <2>2, <2>4 DEF HandlesPast, Held, Closed
  <2>7. Confused' => Confused \/ Disposed
    BY <2>2, <2>4 DEF HandlesPast, Held, Closed
  <2>. QED BY <1>0, <2>1, <2>3, <2>5, <2>6, <2>7 DEF HandlesPast
<1>6. CASE HandshakeRefused \/ ReceiveData \/ Dispose
  BY <1>1, <1>6 DEF HandshakeRefused, ReceiveData, Dispose, slots
<1>7. ~Panics
  BY DEF Panics
<1>. QED BY <1>2, <1>3, <1>4, <1>5, <1>6, <1>7 DEF Next

\* Only the socket session takes the connection of a context with it.
LEMMA ConnectedStep ==
  ASSUME HandlesPast, HandlesPast', Connected, Next, alive' PROVE Connected'
<1>1. CASE CollectRefused \/ ReceiveData
  <2>1. UNCHANGED <<sessions, attestation_session, socket_session, conn, conns, is_ra_context_available>>
    BY <1>1 DEF CollectRefused, ReceiveData, context, handles, slots
  <2>. QED BY <2>1, SameHandles DEF Connected
<1>2. CASE CollectQuote
  <2>1. UNCHANGED <<conn, conns, is_ra_context_available>>
    BY <1>2 DEF CollectQuote, context
  <2>2. ~BothClosed
    BY <1>2, AttestationOpens DEF CollectQuote, HandlesPast
  <2>. QED BY <2>1, <2>2 DEF Connected
<1>3. CASE DisposeQuote
  <2>1. /\ UNCHANGED <<conn, is_ra_context_available>>
        /\ conns' = IF Reaches(sessions, attestation_session, "socket") THEN {} ELSE conns
    BY <1>3 DEF DisposeQuote
  <2>2. ~BothClosed /\ (Confused => BothClosed') /\ ~Disposed /\ ~DisposedSocket /\ ~SocketDisposed
    BY <1>3, AttestationCloses DEF DisposeQuote, HandlesPast
  <2>3. ~Confused => ~Reaches(sessions, attestation_session, "socket")
    <3>1. Fresh \/ Socket => Named(sessions, attestation_session) = {}
      BY NamesNothing DEF Fresh, Socket, Are
    <3>2. Attested \/ AttestedSocket \/ SocketAttested =>
            Named(sessions, attestation_session) = {"attestation"}
      BY HandlesName DEF Named2, NamedAtt
    <3>. QED BY <2>2, <3>1, <3>2 DEF HandlesPast, Held, Reaches
  <2>. QED BY <2>1, <2>2, <2>3 DEF Connected
<1>4. CASE HandshakeRefused \/ NotConnected
  <2>1. is_ra_context_available /\ UNCHANGED slots
    BY <1>4 DEF HandshakeRefused, NotConnected
  <2>2. is_ra_context_available'
    BY <2>1 DEF slots
  <2>. QED BY <2>2 DEF Connected
<1>5. CASE Handshake
  BY <1>5 DEF Handshake, Connected
<1>6. CASE Dispose
  BY <1>6 DEF Dispose, Connected
<1>7. ~Panics
  BY DEF Panics
<1>. QED BY <1>1, <1>2, <1>3, <1>4, <1>5, <1>6, <1>7 DEF Next

\* Whatever is left when no context is in use was left by a call that failed.
LEMMA OwnedStep ==
  ASSUME Owned, Next PROVE Owned'
<1>1. CASE CollectRefused
  BY <1>1 DEF CollectRefused, context, Owned
<1>2. CASE CollectQuote
  <2>1. UNCHANGED <<is_ra_context_available, conns, conn, bufs, msg3>> /\ past \subseteq past'
    BY <1>2 DEF CollectQuote, context
  <2>. QED BY <2>1 DEF Owned
<1>3. CASE DisposeQuote
  <2>1. /\ UNCHANGED <<is_ra_context_available, conn, bufs, msg3>> /\ past \subseteq past'
        /\ conns' \subseteq conns
    BY <1>3 DEF DisposeQuote
  <2>. QED BY <2>1 DEF Owned
<1>4. CASE HandshakeRefused \/ NotConnected
  <2>1. /\ UNCHANGED <<is_ra_context_available, bufs>> /\ msg3' = FALSE /\ is_ra_context_available
        /\ past' = past \cup {"handshake_failed"}
    BY <1>4 DEF HandshakeRefused, NotConnected, slots
  <2>2. ~msg3
    BY <2>1 DEF Owned
  <2>. QED BY <2>1, <2>2 DEF Owned
<1>5. CASE Handshake
  BY <1>5 DEF Handshake, Owned
<1>6. CASE ReceiveData
  <2>1. UNCHANGED <<is_ra_context_available, conns, conn>> /\ past \subseteq past' /\ ~is_ra_context_available
    BY <1>6 DEF ReceiveData, slots
  <2>2. CASE msg3' = TRUE
    BY <1>6, <2>1, <2>2 DEF ReceiveData, Owned
  <2>3. CASE msg3' = FALSE
    BY <1>6, <2>1, <2>3 DEF ReceiveData, Owned
  <2>. QED BY <1>6, <2>2, <2>3 DEF ReceiveData
<1>7. CASE Dispose
  <2>1. /\ is_ra_context_available' = TRUE /\ msg3' = FALSE /\ past' = past
        /\ bufs' = (IF msg3 THEN bufs - 1 ELSE bufs) /\ conns' = conns \ {conn}
        /\ ~is_ra_context_available
    BY <1>7 DEF Dispose
  <2>2. "handshake_failed" \notin past' => conns' = {}
    BY <2>1 DEF Owned
  <2>3. {"received_twice", "received_nothing"} \cap past' = {} => bufs' = 0
    BY <2>1 DEF Owned
  <2>. QED BY <2>1, <2>2, <2>3 DEF Owned
<1>8. CASE Panics
  BY <1>8 DEF Panics, slots, Owned
<1>. QED BY <1>1, <1>2, <1>3, <1>4, <1>5, <1>6, <1>7, <1>8 DEF Next
-----------------------------------------------------------------------------
(* Theorems.                                                                 *)

\* The sessions of the TA and the numbers it keeps of them are always in one of ten cases,
\* handles of the kernel are never reused, and a context has a connection of its own.
THEOREM WasiRaInvariant == Spec => []WInv
<1>1. Init => WInv
  <2>. SUFFICES ASSUME Init PROVE WInv
    OBVIOUS
  <2>1. Fresh
    BY DEF Init, Fresh, Are, System, S
  <2>2. HandlesPast
    BY <2>1, Different DEF Init, HandlesPast, Held, Closed
  <2>3. Connected /\ Owned
    BY DEF Init, Connected, Owned
  <2>. QED BY <2>2, <2>3 DEF Init, WInv
<1>2. WInv /\ [Next]_vars => WInv'
  <2>. SUFFICES ASSUME WInv, [Next]_vars PROVE WInv'
    OBVIOUS
  <2>1. CASE UNCHANGED vars
    <3>1. /\ UNCHANGED <<sessions, attestation_session, socket_session>>
          /\ UNCHANGED <<is_ra_context_available, is_ra_quote_available, conns, conn, bufs, msg3,
                         alive, past>>
      BY <2>1 DEF vars, slots, context, handles
    <3>. QED BY <3>1, SameHandles DEF WInv, HandlesPast, Connected, Owned
  <2>2. CASE Next
    <3>1. alive /\ HandlesPast /\ Connected /\ Owned
      BY <2>2 DEF Next, WInv
    <3>2. Owned'
      BY <2>2, <3>1, OwnedStep
    <3>3. CASE Panics
      <4>1. alive' = FALSE /\ past' = past
        BY <3>3 DEF Panics
      <4>. QED BY <3>1, <3>2, <3>3, <4>1, PanicsStep DEF WInv
    <3>4. CASE ~Panics
      <4>1. alive' = alive
        BY <2>2, <3>4 DEF Next, CollectRefused, CollectQuote, DisposeQuote, HandshakeRefused,
                          NotConnected, Handshake, ReceiveData, Dispose
      <4>2. HandlesPast' /\ Connected'
        BY <2>2, <3>1, <4>1, HandlesStep, ConnectedStep
      <4>. QED BY <3>1, <3>2, <4>1, <4>2 DEF WInv
    <3>. QED BY <3>3, <3>4
  <2>. QED BY <2>1, <2>2
<1>. QED BY <1>1, <1>2, PTL DEF Spec

\* A TA panics on a session handle only in an application that disposed of a quote before.
THEOREM OnlyDisposeMakesPanic == Spec => []PanicsOnlyAfterDispose
<1>1. WInv => PanicsOnlyAfterDispose
  BY DEF WInv, PanicsOnlyAfterDispose
<1>. QED BY <1>1, WasiRaInvariant, PTL

\* A context in use has its connection, except after the one sequence of calls in which
\* dispose_quote closes the socket session: collect before the first handshake, dispose,
\* handshake, collect again, dispose again.
THEOREM ContextKeepsConnection == Spec => []ContextConnected
<1>1. WInv => ContextConnected
  BY Different DEF WInv, HandlesPast, Closed, Connected, ContextConnected
<1>. QED BY <1>1, WasiRaInvariant, PTL

\* Connections and buffers outlive their context only through handshakes that failed, and
\* through a second receive_data or one that met the end of the stream.
THEOREM DisposeLeaksNothing == Spec => []NothingLeaks
<1>1. WInv => NothingLeaks
  BY DEF WInv, Owned, NothingLeaks
<1>. QED BY <1>1, WasiRaInvariant, PTL

\* The numbers OP-TEE gives to sessions show in nothing but the view of PtaSessions: every
\* call of a TA that goes on is one of its steps or none.
THEOREM SessionNumbersAreView == Spec => SessionsAsViewed
<1>1. Init => View = NoSessions
  <2>1. Init => Fresh
    BY DEF Init, Fresh, Are, System, S
  <2>. QED BY <2>1, Views DEF NoSessions
<1>2. WInv /\ [Next]_vars => [alive' => View' = View \/ View' \in SessionSteps(View)]_vars
  <2>. SUFFICES ASSUME WInv, Next, alive' PROVE View' = View \/ View' \in SessionSteps(View)
    OBVIOUS
  <2>0. HandlesPast
    BY DEF Next, WInv
  <2>. DEFINE V(a, k) == [att |-> a, sock |-> k]
  <2>1. /\ (Fresh => View = V("null", "null"))'
        /\ (Attested => View = V("open", "null"))'
        /\ (AttestedSocket => View = V("open", "open"))'
        /\ (Disposed => View = V("closed", "null"))'
        /\ (DisposedSocket => View = V("closed", "open"))'
        /\ (Confused => View = V("socket", "open"))'
        /\ (BothClosed => View = V("closed", "closed"))'
        /\ (Socket => View = V("null", "open"))'
        /\ (SocketAttested => View = V("open", "open"))'
        /\ (SocketDisposed => View = V("closed", "open"))'
    BY Views, PTL
  <2>2. CASE CollectQuote
    <3>1. /\ Fresh => Attested'
          /\ Socket => SocketAttested'
          /\ Attested => Attested'
          /\ AttestedSocket => AttestedSocket'
          /\ Confused => Confused'
          /\ SocketAttested => SocketAttested'
          /\ ~Disposed /\ ~DisposedSocket /\ ~BothClosed /\ ~SocketDisposed
      BY <2>0, <2>2, AttestationOpens DEF CollectQuote, HandlesPast
    <3>2. View' = OpenAttestationSession(View)
      BY <2>0, <2>1, <3>1, Views DEF HandlesPast, Held, OpenAttestationSession
    <3>. QED BY <3>2 DEF SessionSteps
  <2>3. CASE DisposeQuote
    <3>1. /\ Fresh => Fresh'
          /\ Socket => Socket'
          /\ Attested => Disposed'
          /\ AttestedSocket => DisposedSocket'
          /\ Confused => BothClosed'
          /\ SocketAttested => SocketDisposed'
          /\ ~Disposed /\ ~DisposedSocket /\ ~BothClosed /\ ~SocketDisposed
      BY <2>0, <2>3, AttestationCloses DEF DisposeQuote, HandlesPast
    <3>2. View' = CloseAttestationSession(View)
      BY <2>0, <2>1, <3>1, Views DEF HandlesPast, Held, CloseAttestationSession
    <3>. QED BY <3>2 DEF SessionSteps
  <2>4. CASE NotConnected \/ Handshake
    <3>0. /\ ~Dangling(WithSocketSession, SocketHandle)
          /\ socket_session' = SocketHandle /\ sessions' = WithSocketSession
          /\ attestation_session' = attestation_session
      BY <2>4 DEF NotConnected, Handshake, Reaches, Dangling, slots
    <3>1. /\ Fresh => Socket'
          /\ Attested => AttestedSocket'
          /\ Disposed => Confused'
          /\ AttestedSocket => AttestedSocket'
          /\ DisposedSocket => DisposedSocket'
          /\ Confused => Confused'
          /\ Socket => Socket'
          /\ SocketAttested => SocketAttested'
          /\ SocketDisposed => SocketDisposed'
          /\ ~BothClosed
      BY <2>0, <3>0, SocketOpens DEF HandlesPast
    <3>2. View' = OpenSocketSession(View)
      BY <2>0, <2>1, <3>1, Views DEF HandlesPast, Held, OpenSocketSession
    <3>. QED BY <3>2 DEF SessionSteps
  <2>5. CASE CollectRefused \/ HandshakeRefused \/ ReceiveData \/ Dispose
    BY <2>5, SameHandles DEF CollectRefused, HandshakeRefused, ReceiveData, Dispose, handles
  <2>. QED BY <2>2, <2>3, <2>4, <2>5 DEF Next, Panics
<1>. QED BY <1>1, <1>2, WasiRaInvariant, PTL DEF Spec, SessionsAsViewed
===============================================================================
