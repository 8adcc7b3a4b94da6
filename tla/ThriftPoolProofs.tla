-------------------------- MODULE ThriftPoolProofs --------------------------
(***************************************************************************)
(* Proofs about the Thrift connection pool, for any number of callers and  *)
(* connections and any MaxConn, and about the server behind it.            *)
(***************************************************************************)
EXTENDS ThriftCalls, FiniteSetTheorems, SequenceTheorems, TLAPS

(* Lists of connections.                                                   *)
Members(s) == {s[i] : i \in 1..Len(s)}
NoRepeats(s) == \A i, j \in 1..Len(s) : s[i] = s[j] => i = j

(* What is left of a list without its head, as Get and Release leave it.   *)
LEMMA TailOfList ==
  ASSUME NEW S, NEW s \in Seq(S), s # <<>>
  PROVE  /\ Tail(s) \in Seq(S) /\ Len(Tail(s)) = Len(s) - 1
         /\ Head(s) \in Members(s) /\ Head(s) \in S
         /\ Members(Tail(s)) \subseteq Members(s)
         /\ Members(s) \subseteq Members(Tail(s)) \cup {Head(s)}
         /\ NoRepeats(s) => NoRepeats(Tail(s)) /\ Head(s) \notin Members(Tail(s))
<1>1. /\ Tail(s) \in Seq(S) /\ Len(Tail(s)) = Len(s) - 1
      /\ Len(s) \in Nat /\ Len(s) >= 1
      /\ Head(s) = s[1] /\ s[1] \in S
      /\ \A i \in 1..(Len(s) - 1) : Tail(s)[i] = s[i + 1]
  OBVIOUS
<1>2. \A i \in 1..(Len(s) - 1) : i + 1 \in 1..Len(s) /\ i + 1 # 1
  BY <1>1
<1>3. 1 \in 1..Len(s)
  BY <1>1
<1>4. Members(Tail(s)) \subseteq Members(s)
  BY <1>1, <1>2 DEF Members
<1>5. ASSUME NoRepeats(s)
      PROVE  NoRepeats(Tail(s)) /\ Head(s) \notin Members(Tail(s))
  BY <1>1, <1>2, <1>3, <1>5 DEF NoRepeats, Members
<1>6. Members(s) \subseteq Members(Tail(s)) \cup {Head(s)}
  <2> SUFFICES ASSUME NEW i \in 1..Len(s), i # 1
               PROVE  s[i] \in Members(Tail(s))
    BY <1>1 DEF Members
  <2>1. i - 1 \in 1..Len(Tail(s)) /\ Tail(s)[i - 1] = s[i]
    BY <1>1
  <2> QED BY <2>1 DEF Members
<1> QED BY <1>1, <1>3, <1>4, <1>5, <1>6 DEF Members

(* A list without its last element, as CheckTimeout leaves it.             *)
LEMMA FrontOfSeq ==
  ASSUME NEW S, NEW s \in Seq(S), s # <<>>
  PROVE  /\ SubSeq(s, 1, Len(s) - 1) \in Seq(S)
         /\ Len(SubSeq(s, 1, Len(s) - 1)) = Len(s) - 1
         /\ \A i \in 1..(Len(s) - 1) : SubSeq(s, 1, Len(s) - 1)[i] = s[i]
<1> DEFINE n == Len(s) - 1
<1>1. n \in Nat /\ \A i \in 1..n : s[i] \in S
  <2>1. Len(s) \in Nat /\ Len(s) >= 1
    OBVIOUS
  <2> QED BY <2>1
<1> HIDE DEF n
<1>2. /\ SubSeq(s, 1, n) \in Seq(S)
      /\ Len(SubSeq(s, 1, n)) = IF 1 <= n THEN n - 1 + 1 ELSE 0
      /\ \A i \in 1..(n - 1 + 1) : SubSeq(s, 1, n)[i] = s[1 + i - 1]
  BY <1>1, SubSeqProperties
<1>3. Len(SubSeq(s, 1, n)) = n /\ \A i \in 1..n : SubSeq(s, 1, n)[i] = s[i]
  BY <1>1, <1>2
<1> QED BY <1>2, <1>3 DEF n

(* A list without its last element.                                        *)
LEMMA FrontOfList ==
  ASSUME NEW S, NEW s \in Seq(S), s # <<>>, NEW t, t = SubSeq(s, 1, Len(s) - 1)
  PROVE  /\ t \in Seq(S) /\ Len(t) = Len(s) - 1
         /\ s[Len(s)] \in Members(s) /\ s[Len(s)] \in S
         /\ Members(t) \subseteq Members(s)
         /\ Members(s) \subseteq Members(t) \cup {s[Len(s)]}
         /\ NoRepeats(s) => NoRepeats(t) /\ s[Len(s)] \notin Members(t)
<1>1. /\ Len(s) \in Nat /\ Len(s) >= 1
      /\ t \in Seq(S) /\ Len(t) = Len(s) - 1
      /\ s[Len(s)] \in S
      /\ \A i \in 1..(Len(s) - 1) : t[i] = s[i]
  <2>1. Len(s) \in Nat /\ Len(s) >= 1 /\ s[Len(s)] \in S
    OBVIOUS
  <2> QED BY <2>1, FrontOfSeq
<1>2. Len(s) \in 1..Len(s)
  BY <1>1
<1>3. \A i \in 1..(Len(s) - 1) : i \in 1..Len(s) /\ i # Len(s)
  BY <1>1
<1>4. Members(t) \subseteq Members(s)
  BY <1>1, <1>3 DEF Members
<1>5. ASSUME NoRepeats(s)
      PROVE  NoRepeats(t) /\ s[Len(s)] \notin Members(t)
  BY <1>1, <1>2, <1>3, <1>5 DEF NoRepeats, Members
<1>6. Members(s) \subseteq Members(t) \cup {s[Len(s)]}
  <2> SUFFICES ASSUME NEW i \in 1..Len(s), i # Len(s)
               PROVE  s[i] \in Members(t)
    BY DEF Members
  <2>1. i \in 1..Len(t) /\ t[i] = s[i]
    BY <1>1
  <2> QED BY <2>1 DEF Members
<1> QED BY <1>1, <1>2, <1>4, <1>5, <1>6 DEF Members

(* The members of a list with a new head.                                  *)
LEMMA PushMembers ==
  ASSUME NEW S, NEW s \in Seq(S), NEW c \in S, NEW t \in Seq(S),
         Len(t) = Len(s) + 1, t[1] = c, \A i \in 1..Len(s) : t[i + 1] = s[i]
  PROVE  Members(t) = Members(s) \cup {c}
<1>1. ASSUME NEW x \in Members(t)
      PROVE  x \in Members(s) \cup {c}
  <2>1. PICK i \in 1..Len(t) : x = t[i]
    BY DEF Members
  <2>2. CASE i # 1
    <3>1. i - 1 \in 1..Len(s) /\ t[i] = s[i - 1]
      BY <2>2
    <3> QED BY <2>1, <3>1 DEF Members
  <2> QED BY <2>1, <2>2
<1>2. ASSUME NEW x \in Members(s)
      PROVE  x \in Members(t)
  <2>1. PICK i \in 1..Len(s) : x = s[i]
    BY DEF Members
  <2>2. i + 1 \in 1..Len(t) /\ t[i + 1] = x
    BY <2>1
  <2> QED BY <2>2 DEF Members
<1>3. c \in Members(t)
  <2>1. 1 \in 1..Len(t)
    OBVIOUS
  <2> QED BY <2>1 DEF Members
<1> QED BY <1>1, <1>2, <1>3

(* A list with a new head, as Put leaves it.                               *)
Pushed(c, s) == <<c>> \o s

(* Put adds its connection to the list's members, and repeats nothing new. *)
LEMMA PushOnList ==
  ASSUME NEW s \in Seq(Conns), NEW c \in Conns
  PROVE  /\ Pushed(c, s) \in Seq(Conns) /\ Len(Pushed(c, s)) = Len(s) + 1
         /\ Members(Pushed(c, s)) = Members(s) \cup {c}
         /\ NoRepeats(s) /\ c \notin Members(s) => NoRepeats(Pushed(c, s))
<1> DEFINE t == Pushed(c, s)
<1>1. /\ Len(s) \in Nat
      /\ t \in Seq(Conns) /\ Len(t) = Len(s) + 1
      /\ t[1] = c
      /\ \A i \in 1..Len(s) : t[i + 1] = s[i]
  BY DEF Pushed
<1> HIDE DEF t
<1>2. \A i \in 1..(Len(s) + 1) : i = 1 \/ (i - 1 \in 1..Len(s) /\ t[i] = s[i - 1])
  BY <1>1
<1>3. Members(t) = Members(s) \cup {c}
  <2>1. \A u \in Seq(Conns) :
          /\ Len(u) = Len(s) + 1 /\ u[1] = c
          /\ \A i \in 1..Len(s) : u[i + 1] = s[i]
          => Members(u) = Members(s) \cup {c}
    BY PushMembers
  <2> QED BY <1>1, <2>1
<1>4. ASSUME NoRepeats(s), c \notin Members(s)
      PROVE  NoRepeats(t)
  <2> SUFFICES ASSUME NEW i \in 1..Len(t), NEW j \in 1..Len(t), t[i] = t[j]
               PROVE  i = j
    BY DEF NoRepeats
  <2>1. \A k \in 1..Len(s) : s[k] # c
    BY <1>4 DEF Members
  <2>2. CASE i = 1 \/ j = 1
    BY <1>1, <1>2, <2>1, <2>2
  <2>3. CASE i # 1 /\ j # 1
    <3>1. i - 1 \in 1..Len(s) /\ j - 1 \in 1..Len(s) /\ s[i - 1] = s[j - 1]
      BY <1>1, <1>2, <2>3
    <3>2. i - 1 = j - 1
      BY <1>4, <3>1 DEF NoRepeats
    <3> QED BY <1>1, <3>2
  <2> QED BY <2>2, <2>3
<1> QED BY <1>1, <1>3, <1>4 DEF t

-----------------------------------------------------------------------------
(* Types, and what the place of a goroutine says of its variables. *)

(* A caller has a connection exactly between Get's or Reconnect's dial, or *)
(* Get's pop, and the step that gives it up.                               *)
HoldingPcs == {"check", "use", "reconnect", "recheck", "retry", "put", "putcheck",
               "push", "close"}

Places ==
  /\ \A p \in Callers : (pc[p] \in HoldingPcs) <=> (conn[p] # NoConn)
  /\ expired # NoConn => reaper = "close"
  /\ reaper = "close" => expired # NoConn
  /\ releases = 0 => owner = "run"

TypeInv == TypeOK /\ Places

(* It holds at the start ...                                               *)
LEMMA InitTypes == Init => TypeInv
<1> SUFFICES ASSUME Init
             PROVE  TypeInv
  OBVIOUS
<1>1. idle \in Seq(Conns) /\ Len(idle) \in Nat
  BY DEF Init, InitCount, maxInitConnCount
<1>2. IdleConns \subseteq Conns
  BY <1>1 DEF IdleConns
<1>3. count \in Int /\ open \subseteq Conns
  BY <1>1, <1>2 DEF Init
<1>4. raw \in Conns \cup {NoConn}
  BY <1>2 DEF Init
<1>5. doomed \in Seq(Conns)
  BY DEF Init
<1>6. releases \in 0..MaxReleases
  BY MaxReleasesAssumption DEF Init
<1>7. /\ pc \in [Callers -> CallerPcs]
      /\ conn \in [Callers -> Conns \cup {NoConn}]
  BY DEF Init, CallerPcs
<1>8. Places
  BY DEF Init, Places, HoldingPcs
<1>9. /\ status \in {"open", "stop"}
      /\ reaper \in {"scan", "close", "count"}
      /\ expired \in Conns \cup {NoConn}
      /\ owner \in {"run", "zero", "drain", "closing", "released"}
  BY DEF Init
<1> QED BY <1>1, <1>3, <1>4, <1>5, <1>6, <1>7, <1>8, <1>9 DEF TypeInv, TypeOK

(* A caller moves, and its connection with it.                             *)
LEMMA MoveCaller ==
  ASSUME TypeInv, NEW p \in Callers,
         NEW l \in CallerPcs, Goto(p, l),
         NEW c \in Conns \cup {NoConn}, conn' = [conn EXCEPT ![p] = c],
         (l \in HoldingPcs) <=> (c # NoConn)
  PROVE  /\ pc' \in [Callers -> CallerPcs]
         /\ conn' \in [Callers -> Conns \cup {NoConn}]
         /\ \A q \in Callers : (pc'[q] \in HoldingPcs) <=> (conn'[q] # NoConn)
<1>1. /\ pc \in [Callers -> CallerPcs] /\ pc' = [pc EXCEPT ![p] = l]
      /\ conn \in [Callers -> Conns \cup {NoConn}]
      /\ \A q \in Callers : (pc[q] \in HoldingPcs) <=> (conn[q] # NoConn)
  BY DEF TypeInv, TypeOK, Places, Goto
<1> QED BY <1>1

(* A step that takes and gives up no connection keeps Places.              *)
LEMMA MoveOnly ==
  ASSUME TypeInv, NEW p \in Callers,
         NEW l \in CallerPcs, Goto(p, l), UNCHANGED conn,
         (l \in HoldingPcs) <=> (pc[p] \in HoldingPcs)
  PROVE  /\ pc' \in [Callers -> CallerPcs]
         /\ conn' \in [Callers -> Conns \cup {NoConn}]
         /\ \A q \in Callers : (pc'[q] \in HoldingPcs) <=> (conn'[q] # NoConn)
<1>1. /\ pc \in [Callers -> CallerPcs] /\ pc' = [pc EXCEPT ![p] = l]
      /\ conn \in [Callers -> Conns \cup {NoConn}] /\ conn' = conn
      /\ \A q \in Callers : (pc[q] \in HoldingPcs) <=> (conn[q] # NoConn)
  BY DEF TypeInv, TypeOK, Places, Goto
<1> QED BY <1>1

(* What Get does under the lock.                                           *)
LEMMA TakeTypes ==
  ASSUME TypeInv, NEW p \in Callers, pc[p] \in {"acquire", "wait"}, TakeSlotOrConn(p)
  PROVE  /\ idle' \in Seq(Conns) /\ count' \in Int
         /\ pc' \in [Callers -> CallerPcs]
         /\ conn' \in [Callers -> Conns \cup {NoConn}]
         /\ \A q \in Callers : (pc'[q] \in HoldingPcs) <=> (conn'[q] # NoConn)
<1>1. CASE idle = <<>> /\ count' = count + 1 /\ Goto(p, "dial") /\ UNCHANGED <<idle, conn>>
  <2>1. "dial" \in CallerPcs /\ ("dial" \in HoldingPcs <=> pc[p] \in HoldingPcs)
    BY DEF CallerPcs, HoldingPcs
  <2>2. idle' \in Seq(Conns) /\ count' \in Int
    BY <1>1 DEF TypeInv, TypeOK
  <2> QED BY <1>1, <2>1, <2>2, MoveOnly
<1>2. CASE /\ idle # <<>>
           /\ conn' = [conn EXCEPT ![p] = Head(idle)]
           /\ idle' = Tail(idle)
           /\ Goto(p, "check")
           /\ UNCHANGED count
  <2>1. idle \in Seq(Conns) /\ count' \in Int
    BY <1>2 DEF TypeInv, TypeOK
  <2>2. Tail(idle) \in Seq(Conns) /\ Head(idle) \in Conns
    BY <1>2, <2>1, TailOfList
  <2>3. "check" \in CallerPcs /\ "check" \in HoldingPcs /\ Head(idle) # NoConn
    BY <2>2, NoConnAssumption DEF CallerPcs, HoldingPcs
  <2> QED BY <1>2, <2>1, <2>2, <2>3, MoveCaller
<1> QED BY <1>1, <1>2 DEF TakeSlotOrConn

(* The steps of a caller that leave its connection alone.                  *)
LEMMA CallerOnlyMoves ==
  ASSUME TypeInv, NEW p \in Callers,
         \/ Call(p) \/ GiveUp(p) \/ CheckPasses(p) \/ CallReturns(p) \/ CallFails(p)
         \/ RetryEnds(p) \/ PutStatus(p)
         \/ (Acquire(p) /\ Goto(p, "wait") /\ UNCHANGED <<idle, count, conn>>)
  PROVE  TypeInv'
<1>1. UNCHANGED <<idle, count, status, open, raw, conn, reaper, expired, owner, doomed, releases>>
  BY DEF Call, GiveUp, CheckPasses, CallReturns, CallFails, RetryEnds, PutStatus, Acquire,
         reaperVars, ownerVars
<1>2. PICK l \in CallerPcs : Goto(p, l) /\ ((l \in HoldingPcs) <=> (pc[p] \in HoldingPcs))
  <2>1. CASE Call(p)
    BY <2>1 DEF Call, CallerPcs, HoldingPcs
  <2>2. CASE GiveUp(p)
    BY <2>2 DEF GiveUp, CallerPcs, HoldingPcs
  <2>3. CASE CheckPasses(p)
    BY <2>3 DEF CheckPasses, CallerPcs, HoldingPcs
  <2>4. CASE CallReturns(p)
    BY <2>4 DEF CallReturns, CallerPcs, HoldingPcs
  <2>5. CASE CallFails(p)
    BY <2>5 DEF CallFails, CallerPcs, HoldingPcs
  <2>6. CASE RetryEnds(p)
    BY <2>6 DEF RetryEnds, CallerPcs, HoldingPcs
  <2>7. CASE PutStatus(p)
    BY <2>7 DEF PutStatus, CallerPcs, HoldingPcs
  <2>8. CASE Acquire(p) /\ Goto(p, "wait")
    BY <2>8 DEF Acquire, CallerPcs, HoldingPcs
  <2> QED BY <2>1, <2>2, <2>3, <2>4, <2>5, <2>6, <2>7, <2>8
<1>3. /\ pc' \in [Callers -> CallerPcs]
      /\ \A q \in Callers : (pc'[q] \in HoldingPcs) <=> (conn'[q] # NoConn)
  BY <1>1, <1>2, MoveOnly
<1> QED BY <1>1, <1>3 DEF TypeInv, TypeOK, Places

(* The steps of a caller that give its connection up, or come back without *)
(* one.                                                                    *)
LEMMA CallerGivesUp ==
  ASSUME TypeInv, NEW p \in Callers,
         DialFails(p) \/ CheckFails(p) \/ ReconnectClose(p) \/ PutPush(p) \/ PutClose(p)
  PROVE  TypeInv'
<1>1. UNCHANGED <<status, raw, reaper, expired, owner, doomed, releases>>
  BY DEF DialFails, CheckFails, ReconnectClose, PutPush, PutClose, reaperVars, ownerVars
<1>2. PICK l \in {"out", "redial"} : Goto(p, l)
  BY DEF DialFails, CheckFails, ReconnectClose, PutPush, PutClose
<1>3. conn' = [conn EXCEPT ![p] = NoConn]
  <2>1. CASE DialFails(p)
    <3>1. pc[p] \notin HoldingPcs /\ UNCHANGED conn
      BY <2>1 DEF DialFails, HoldingPcs
    <3> QED BY <3>1 DEF TypeInv, TypeOK, Places
  <2> QED BY <2>1 DEF CheckFails, ReconnectClose, PutPush, PutClose
<1>4. /\ pc' \in [Callers -> CallerPcs]
      /\ conn' \in [Callers -> Conns \cup {NoConn}]
      /\ \A q \in Callers : (pc'[q] \in HoldingPcs) <=> (conn'[q] # NoConn)
  <2>1. l \in CallerPcs /\ l \notin HoldingPcs
    BY DEF CallerPcs, HoldingPcs
  <2> QED BY <1>2, <1>3, <2>1, MoveCaller
<1>5. count' \in Int
  BY DEF TypeInv, TypeOK, DialFails, CheckFails, ReconnectClose, PutPush, PutClose
<1>6. open' \subseteq Conns
  BY DEF TypeInv, TypeOK, DialFails, CheckFails, ReconnectClose, PutPush, PutClose
<1>7. idle' \in Seq(Conns)
  <2>1. CASE PutPush(p)
    <3>1. pc[p] \in HoldingPcs
      BY <2>1 DEF PutPush, HoldingPcs
    <3>2. idle \in Seq(Conns) /\ conn[p] \in Conns
      BY <3>1 DEF TypeInv, TypeOK, Places
    <3> QED BY <2>1, <3>2, PushOnList DEF PutPush, Pushed
  <2> QED BY <2>1 DEF TypeInv, TypeOK, DialFails, CheckFails, ReconnectClose, PutClose
<1> QED BY <1>1, <1>4, <1>5, <1>6, <1>7 DEF TypeInv, TypeOK, Places

(* ... and every step of a caller, the agent and Release keeps it.         *)
LEMMA NextTypes == TypeInv /\ [Next]_vars => TypeInv'
<1> SUFFICES ASSUME TypeInv, [Next]_vars
             PROVE  TypeInv'
  OBVIOUS
<1>1. ASSUME NEW p \in Callers, Acquire(p) \/ Reacquire(p)
      PROVE  TypeInv'
  <2>1. UNCHANGED <<status, open, raw, reaper, expired, owner, doomed, releases>>
    BY <1>1 DEF Acquire, Reacquire, reaperVars, ownerVars
  <2>2. CASE TakeSlotOrConn(p)
    <3>1. pc[p] \in {"acquire", "wait"}
      BY <1>1 DEF Acquire, Reacquire
    <3> QED BY <2>1, <2>2, <3>1, TakeTypes DEF TypeInv, TypeOK, Places
  <2>3. CASE ~TakeSlotOrConn(p)
    BY <1>1, <2>3, CallerOnlyMoves DEF Acquire, Reacquire
  <2> QED BY <2>2, <2>3
<1>2. ASSUME NEW p \in Callers, DialSucceeds(p)
      PROVE  TypeInv'
  <2>1. PICK c \in Fresh : /\ open' = open \cup {c} /\ raw' = c
                           /\ conn' = [conn EXCEPT ![p] = c]
    BY <1>2 DEF DialSucceeds
  <2>2. c \in Conns /\ c # NoConn
    BY NoConnAssumption DEF Fresh
  <2>3. PICK l \in {"check", "recheck"} : Goto(p, l)
    BY <1>2 DEF DialSucceeds
  <2>4. l \in CallerPcs /\ l \in HoldingPcs
    BY DEF CallerPcs, HoldingPcs
  <2>5. /\ pc' \in [Callers -> CallerPcs]
        /\ conn' \in [Callers -> Conns \cup {NoConn}]
        /\ \A q \in Callers : (pc'[q] \in HoldingPcs) <=> (conn'[q] # NoConn)
    BY <2>1, <2>2, <2>3, <2>4, MoveCaller
  <2>6. open' \subseteq Conns /\ raw' \in Conns \cup {NoConn}
    BY <2>1, <2>2 DEF TypeInv, TypeOK
  <2>7. UNCHANGED <<idle, count, status, reaper, expired, owner, doomed, releases>>
    BY <1>2 DEF DialSucceeds, reaperVars, ownerVars
  <2> QED BY <2>5, <2>6, <2>7 DEF TypeInv, TypeOK, Places
<1>3. ASSUME NEW p \in Callers, PutCheck(p)
      PROVE  TypeInv'
  <2>1. UNCHANGED <<idle, status, open, raw, conn, reaper, expired, owner, doomed, releases>>
    BY <1>3 DEF PutCheck, reaperVars, ownerVars
  <2>2. PICK l \in {"close", "push"} : Goto(p, l) /\ pc[p] = "putcheck"
    BY <1>3 DEF PutCheck
  <2>3. l \in CallerPcs /\ (l \in HoldingPcs <=> pc[p] \in HoldingPcs)
    BY <2>2 DEF CallerPcs, HoldingPcs
  <2>4. /\ pc' \in [Callers -> CallerPcs]
        /\ \A q \in Callers : (pc'[q] \in HoldingPcs) <=> (conn'[q] # NoConn)
    BY <2>1, <2>2, <2>3, MoveOnly
  <2>5. count' \in Int
    BY <1>3 DEF PutCheck, TypeInv, TypeOK
  <2> QED BY <2>1, <2>4, <2>5 DEF TypeInv, TypeOK, Places
<1>4. CASE ReapTake
  <2>1. idle \in Seq(Conns) /\ idle # <<>>
    BY <1>4 DEF ReapTake, TypeInv, TypeOK
  <2>2. idle' \in Seq(Conns) /\ expired' \in Conns
    BY <1>4, <2>1, FrontOfList DEF ReapTake
  <2> QED BY <1>4, <2>2, NoConnAssumption DEF ReapTake, TypeInv, TypeOK, Places, callerVars, ownerVars
<1>5. CASE ReapClose
  BY <1>5 DEF ReapClose, TypeInv, TypeOK, Places, callerVars, ownerVars
<1>6. CASE ReapCount
  BY <1>6 DEF ReapCount, TypeInv, TypeOK, Places, callerVars, ownerVars
<1>7. CASE ReleaseStop
  BY <1>7, MaxReleasesAssumption DEF ReleaseStop, TypeInv, TypeOK, Places, callerVars, reaperVars
<1>8. CASE ReleaseZero
  BY <1>8 DEF ReleaseZero, TypeInv, TypeOK, Places, callerVars, reaperVars
<1>9. CASE ReleaseDrain
  BY <1>9 DEF ReleaseDrain, TypeInv, TypeOK, Places, callerVars, reaperVars
<1>10. CASE ReleaseClose
  <2>1. doomed' \in Seq(Conns)
    <3>1. doomed \in Seq(Conns) /\ (doomed' = doomed \/ (doomed # <<>> /\ doomed' = Tail(doomed)))
      BY <1>10 DEF ReleaseClose, TypeInv, TypeOK
    <3>2. doomed # <<>> => Tail(doomed) \in Seq(Conns)
      BY <3>1, TailOfList DEF Members, NoRepeats
    <3> QED BY <3>1, <3>2
  <2>2. open' \subseteq Conns
    BY <1>10 DEF ReleaseClose, TypeInv, TypeOK
  <2> QED BY <1>10, <2>1, <2>2 DEF ReleaseClose, TypeInv, TypeOK, Places, callerVars, reaperVars
<1>11. CASE Recover
  BY <1>11 DEF Recover, TypeInv, TypeOK, Places, callerVars, reaperVars
<1>12. CASE PeerCloses
  BY <1>12 DEF PeerCloses, TypeInv, TypeOK, Places, callerVars, reaperVars, ownerVars
<1>13. CASE UNCHANGED vars
  BY <1>13 DEF vars, TypeInv, TypeOK, Places, callerVars, reaperVars, ownerVars
<1> QED
  BY <1>1, <1>2, <1>3, <1>4, <1>5, <1>6, <1>7, <1>8, <1>9, <1>10, <1>11, <1>12, <1>13,
     CallerOnlyMoves, CallerGivesUp DEF Next, Step, Reap, Release

(* Types hold in every state, Release and Recover included.                *)
THEOREM TypeCorrect == Spec => []TypeOK
<1>1. Spec => []TypeInv
  BY InitTypes, NextTypes, PTL DEF Spec
<1> QED BY <1>1, PTL DEF TypeInv

-----------------------------------------------------------------------------
(* Ownership. *)

(* The lists that hold connections, and the connections ClearConn and the  *)
(* callers have.                                                           *)
owned == <<idle, doomed, expired, conn>>

(* At the start nobody has a connection ...                                *)
LEMMA InitOneOwner == Init => OneOwner
<1> SUFFICES ASSUME Init
             PROVE  OneOwner
  OBVIOUS
<1>1. TypeInv
  BY InitTypes
<1>2. /\ \A i, j \in 1..Len(idle) : idle[i] = idle[j] => i = j
      /\ doomed = <<>> /\ expired = NoConn
      /\ \A p \in Callers : conn[p] = NoConn
  BY DEF Init
<1>3. DoomedConns = {}
  BY <1>2 DEF DoomedConns
<1>4. NoConn \notin IdleConns
  BY <1>1, NoConnAssumption DEF IdleConns, TypeInv, TypeOK
<1> QED BY <1>2, <1>3, <1>4 DEF OneOwner

(* Giving a connection up leaves the others as they were.                  *)
LEMMA GiveUpOwner ==
  ASSUME TypeInv, OneOwner, NEW p \in Callers, conn' = [conn EXCEPT ![p] = NoConn],
         UNCHANGED <<idle, doomed, expired>>
  PROVE  OneOwner'
<1>1. \A q \in Callers : conn'[q] = IF q = p THEN NoConn ELSE conn[q]
  BY DEF TypeInv, TypeOK
<1>2. IdleConns' = IdleConns /\ DoomedConns' = DoomedConns
  BY DEF IdleConns, DoomedConns
<1> QED BY <1>1, <1>2 DEF OneOwner

(* Get takes the first idle connection off the list.                       *)
LEMMA TakeOwner ==
  ASSUME TypeInv, OneOwner, NEW p \in Callers, idle # <<>>,
         conn' = [conn EXCEPT ![p] = Head(idle)], idle' = Tail(idle),
         UNCHANGED <<doomed, expired>>
  PROVE  OneOwner'
<1>1. \A q \in Callers : conn'[q] = IF q = p THEN Head(idle) ELSE conn[q]
  BY DEF TypeInv, TypeOK
<1>2. /\ Head(idle) \in IdleConns
      /\ IdleConns' \subseteq IdleConns
      /\ NoRepeats(idle') /\ Head(idle) \notin IdleConns'
  BY TailOfList DEF TypeInv, TypeOK, OneOwner, NoRepeats, Members, IdleConns
<1>3. DoomedConns' = DoomedConns /\ expired' = expired /\ doomed' = doomed
  BY DEF DoomedConns
<1> QED BY <1>1, <1>2, <1>3 DEF OneOwner, NoRepeats

(* A connection just dialled is nobody else's.                             *)
LEMMA DialOwner ==
  ASSUME TypeInv, OneOwner, NEW p \in Callers, NEW c \in Fresh,
         conn' = [conn EXCEPT ![p] = c], UNCHANGED <<idle, doomed, expired>>
  PROVE  OneOwner'
<1>1. \A q \in Callers : conn'[q] = IF q = p THEN c ELSE conn[q]
  BY DEF TypeInv, TypeOK
<1>2. /\ c \notin IdleConns \cup DoomedConns \cup {expired}
      /\ \A q \in Callers : conn[q] # c
  BY DEF Fresh
<1>3. IdleConns' = IdleConns /\ DoomedConns' = DoomedConns
  BY DEF IdleConns, DoomedConns
<1> QED BY <1>1, <1>2, <1>3 DEF OneOwner

(* Put gives its connection to the list.                                   *)
LEMMA PushOwner ==
  ASSUME TypeInv, OneOwner, NEW p \in Callers, conn[p] # NoConn,
         idle' = <<conn[p]>> \o idle, conn' = [conn EXCEPT ![p] = NoConn],
         UNCHANGED <<doomed, expired>>
  PROVE  OneOwner'
<1>1. \A q \in Callers : conn'[q] = IF q = p THEN NoConn ELSE conn[q]
  BY DEF TypeInv, TypeOK
<1>2. conn[p] \notin IdleConns /\ conn[p] \in Conns
  BY DEF OneOwner, TypeInv, TypeOK
<1>3. IdleConns' = IdleConns \cup {conn[p]} /\ NoRepeats(idle')
  <2>1. idle \in Seq(Conns) /\ NoRepeats(idle) /\ conn[p] \notin Members(idle)
    BY <1>2 DEF OneOwner, NoRepeats, TypeInv, TypeOK, Members, IdleConns
  <2>2. idle' = Pushed(conn[p], idle)
    BY DEF Pushed
  <2>3. Members(idle') = Members(idle) \cup {conn[p]} /\ NoRepeats(idle')
    BY <1>2, <2>1, <2>2, PushOnList
  <2> QED BY <2>3 DEF Members, IdleConns
<1>4. DoomedConns' = DoomedConns /\ expired' = expired /\ doomed' = doomed
  BY DEF DoomedConns
<1> QED BY <1>1, <1>2, <1>3, <1>4 DEF OneOwner, NoRepeats

(* The agent takes expired connections off the list.                       *)
LEMMA ReapOwner ==
  ASSUME TypeInv, OneOwner, ReapTake
  PROVE  OneOwner'
<1>1. /\ idle' = SubSeq(idle, 1, Len(idle) - 1) /\ idle # <<>>
      /\ expired' = idle[Len(idle)]
      /\ conn' = conn /\ doomed' = doomed
  BY DEF ReapTake, callerVars, ownerVars
<1>2. idle \in Seq(Conns) /\ NoRepeats(idle)
  BY DEF TypeInv, TypeOK, OneOwner, NoRepeats
<1> DEFINE t == SubSeq(idle, 1, Len(idle) - 1)
           c == idle[Len(idle)]
<1>3. /\ c \in Members(idle) /\ Members(t) \subseteq Members(idle)
      /\ NoRepeats(t) /\ c \notin Members(t)
  <2>1. \A u : u = SubSeq(idle, 1, Len(idle) - 1) =>
          /\ idle[Len(idle)] \in Members(idle) /\ Members(u) \subseteq Members(idle)
          /\ NoRepeats(u) /\ idle[Len(idle)] \notin Members(u)
    BY <1>1, <1>2, FrontOfList
  <2> QED BY <2>1
<1>4. /\ expired' \in IdleConns /\ IdleConns' \subseteq IdleConns
      /\ NoRepeats(idle') /\ expired' \notin IdleConns'
  <2>1. idle' = t /\ expired' = c
    BY <1>1
  <2> HIDE DEF t, c
  <2> QED BY <1>3, <2>1 DEF Members, IdleConns, NoRepeats
<1>5. DoomedConns' = DoomedConns
  BY <1>1 DEF DoomedConns
<1> QED BY <1>1, <1>4, <1>5 DEF OneOwner, NoRepeats

(* Release empties the list.                                               *)
LEMMA ReleaseOwner ==
  ASSUME TypeInv, OneOwner, ReleaseDrain \/ ReleaseClose
  PROVE  OneOwner'
<1>0. NoConn \notin IdleConns
  BY NoConnAssumption DEF IdleConns, TypeInv, TypeOK
<1>1. CASE ReleaseDrain
  <2>1. /\ doomed' = idle /\ idle' = <<>>
        /\ conn' = conn /\ expired' = expired
    BY <1>1 DEF ReleaseDrain, callerVars, reaperVars
  <2>2. DoomedConns' = IdleConns /\ IdleConns' = {}
    BY <2>1 DEF IdleConns, DoomedConns
  <2> QED BY <2>1, <2>2 DEF OneOwner
<1>2. CASE ReleaseClose /\ doomed # <<>>
  <2>1. /\ doomed' = Tail(doomed) /\ idle' = idle
        /\ conn' = conn /\ expired' = expired
    BY <1>2 DEF ReleaseClose, callerVars, reaperVars
  <2>2. /\ DoomedConns' \subseteq DoomedConns /\ NoRepeats(doomed')
    BY <1>2, <2>1, TailOfList DEF TypeInv, TypeOK, OneOwner, NoRepeats, Members, DoomedConns
  <2>3. IdleConns' = IdleConns
    BY <2>1 DEF IdleConns
  <2> QED BY <2>1, <2>2, <2>3 DEF OneOwner, NoRepeats
<1>3. CASE ReleaseClose /\ doomed = <<>>
  <2>1. UNCHANGED owned
    BY <1>3 DEF ReleaseClose, callerVars, reaperVars, owned
  <2> QED BY <2>1 DEF owned, OneOwner, IdleConns, DoomedConns
<1> QED BY <1>1, <1>2, <1>3

(* ... and every step leaves a connection with one owner.                  *)
LEMMA NextOneOwner == TypeInv /\ OneOwner /\ [Next]_vars => OneOwner'
<1> SUFFICES ASSUME TypeInv, OneOwner, [Next]_vars
             PROVE  OneOwner'
  OBVIOUS
<1>1. CASE UNCHANGED owned
  BY <1>1 DEF owned, OneOwner, IdleConns, DoomedConns
<1>2. ASSUME NEW p \in Callers, Acquire(p) \/ Reacquire(p)
      PROVE  OneOwner'
  <2>1. UNCHANGED <<doomed, expired>>
    BY <1>2 DEF Acquire, Reacquire, reaperVars, ownerVars
  <2>2. \/ UNCHANGED owned
        \/ idle # <<>> /\ conn' = [conn EXCEPT ![p] = Head(idle)] /\ idle' = Tail(idle)
    BY <1>2, <2>1 DEF Acquire, Reacquire, TakeSlotOrConn, owned
  <2> QED BY <1>1, <2>1, <2>2, TakeOwner
<1>3. ASSUME NEW p \in Callers, DialSucceeds(p)
      PROVE  OneOwner'
  <2>1. UNCHANGED <<idle, doomed, expired>>
    BY <1>3 DEF DialSucceeds, reaperVars, ownerVars
  <2> QED BY <1>3, <2>1, DialOwner DEF DialSucceeds
<1>4. ASSUME NEW p \in Callers, CheckFails(p) \/ ReconnectClose(p) \/ PutClose(p)
      PROVE  OneOwner'
  <2>1. UNCHANGED <<idle, doomed, expired>> /\ conn' = [conn EXCEPT ![p] = NoConn]
    BY <1>4 DEF CheckFails, ReconnectClose, PutClose, reaperVars, ownerVars
  <2> QED BY <2>1, GiveUpOwner
<1>5. ASSUME NEW p \in Callers, PutPush(p)
      PROVE  OneOwner'
  <2>1. conn[p] # NoConn
    BY <1>5 DEF PutPush, TypeInv, Places, HoldingPcs
  <2>2. UNCHANGED <<doomed, expired>>
    BY <1>5 DEF PutPush, reaperVars, ownerVars
  <2> QED BY <1>5, <2>1, <2>2, PushOwner DEF PutPush
<1>6. ASSUME NEW p \in Callers,
             \/ Call(p) \/ GiveUp(p) \/ DialFails(p) \/ CheckPasses(p) \/ CallReturns(p)
             \/ CallFails(p) \/ RetryEnds(p) \/ PutStatus(p) \/ PutCheck(p)
      PROVE  OneOwner'
  <2>1. UNCHANGED owned
    BY <1>6 DEF Call, GiveUp, DialFails, CheckPasses, CallReturns, CallFails, RetryEnds,
                PutStatus, PutCheck, reaperVars, ownerVars, owned
  <2> QED BY <1>1, <2>1
<1>7. CASE ReapClose
  <2>1. expired' = NoConn /\ UNCHANGED <<idle, doomed, conn>>
    BY <1>7 DEF ReapClose, callerVars, ownerVars
  <2>2. IdleConns' = IdleConns /\ DoomedConns' = DoomedConns
    BY <2>1 DEF IdleConns, DoomedConns
  <2>3. NoConn \notin IdleConns \cup DoomedConns
    BY NoConnAssumption DEF IdleConns, DoomedConns, TypeInv, TypeOK
  <2> QED BY <2>1, <2>2, <2>3 DEF OneOwner
<1>8. CASE ReapCount \/ ReleaseStop \/ ReleaseZero \/ Recover \/ PeerCloses \/ UNCHANGED vars
  <2>1. UNCHANGED owned
    BY <1>8 DEF ReapCount, ReleaseStop, ReleaseZero, Recover, PeerCloses, vars, callerVars,
                reaperVars, ownerVars, owned
  <2> QED BY <1>1, <2>1
<1> QED
  BY <1>2, <1>3, <1>4, <1>5, <1>6, <1>7, <1>8, ReapOwner, ReleaseOwner
     DEF Next, Step, Reap, Release

(* No connection is ever in two hands, for any number of callers and while *)
(* the pool is released and recovered any number of times.                 *)
THEOREM OneOwnerAlways == Spec => []OneOwner
<1>1. Spec => []TypeInv
  BY InitTypes, NextTypes, PTL DEF Spec
<1> QED BY <1>1, InitOneOwner, NextOneOwner, PTL DEF Spec

-----------------------------------------------------------------------------
(* Accounting. *)

ReaperCount == IF reaper = "scan" THEN 0 ELSE 1

(* The callers that are counted are finitely many.                         *)
LEMMA CountedFinite == IsFiniteSet(Counted) /\ Cardinality(Counted) \in Nat
<1>1. IsFiniteSet(Callers) /\ Counted \in SUBSET Callers
  BY CallersAssumption DEF Counted
<1> QED BY <1>1, FS_Subset, FS_CardinalityType

(* A caller moves into, out of, or inside the part of Do that is counted.  *)
LEMMA CountedMoves ==
  ASSUME TypeInv, NEW p \in Callers, NEW l \in CallerPcs, Goto(p, l)
  PROVE  /\ (pc[p] \in CountedPcs <=> l \in CountedPcs) => Counted' = Counted
         /\ pc[p] \notin CountedPcs /\ l \in CountedPcs =>
              Cardinality(Counted') = Cardinality(Counted) + 1
         /\ pc[p] \in CountedPcs /\ l \notin CountedPcs =>
              Cardinality(Counted') = Cardinality(Counted) - 1
<1>1. \A q \in Callers : pc'[q] = IF q = p THEN l ELSE pc[q]
  BY DEF Goto, TypeInv, TypeOK
<1>2. Counted' = {q \in Callers : pc'[q] \in CountedPcs}
  BY DEF Counted, CountedPcs
<1>3. CASE pc[p] \in CountedPcs <=> l \in CountedPcs
  BY <1>1, <1>2, <1>3 DEF Counted
<1>4. CASE pc[p] \notin CountedPcs /\ l \in CountedPcs
  <2>1. Counted' = Counted \cup {p} /\ p \notin Counted
    BY <1>1, <1>2, <1>4 DEF Counted
  <2> QED BY <1>4, <2>1, CountedFinite, FS_AddElement
<1>5. CASE pc[p] \in CountedPcs /\ l \notin CountedPcs
  <2>1. Counted' = Counted \ {p} /\ p \in Counted
    BY <1>1, <1>2, <1>5 DEF Counted
  <2> QED BY <1>5, <2>1, CountedFinite, FS_RemoveElement
<1> QED BY <1>3, <1>4, <1>5

(* Until the first Release the limit is never passed: Get compares and     *)
(* increments under the lock, and everything else decrements.              *)
Limited == releases = 0 => status = "open" /\ count <= MaxConn

CountInv == CountExact /\ Limited

(* Nobody is counted at the start ...                                      *)
LEMMA InitCounted == Init => CountInv
<1> SUFFICES ASSUME Init
             PROVE  CountInv
  OBVIOUS
<1>1. Counted = {}
  BY DEF Init, Counted, CountedPcs
<1>2. Cardinality(Counted) = 0
  BY <1>1, FS_EmptySet
<1>3. count = Len(idle) /\ reaper = "scan" /\ status = "open"
  BY DEF Init
<1>4. Len(idle) \in Nat /\ Len(idle) <= MaxConn
  BY MaxConnAssumption DEF Init, InitCount, maxInitConnCount
<1> QED BY <1>2, <1>3, <1>4 DEF CountInv, CountExact, Limited

(* A step of a caller from one place to another, with what it does to      *)
(* count and to the list.                                                  *)
LEMMA CallerCount ==
  ASSUME TypeInv, CountInv, NEW p \in Callers, Step(p) \/ Call(p), releases = 0
  PROVE  CountInv'
<1>0. /\ count \in Int /\ Len(idle) \in Nat /\ Cardinality(Counted) \in Nat
      /\ idle \in Seq(Conns) /\ ReaperCount \in {0, 1}
      /\ count = Len(idle) + Cardinality(Counted) + ReaperCount
      /\ status = "open" /\ count <= MaxConn /\ MaxConn \in Nat
  BY CountedFinite, MaxConnAssumption
     DEF TypeInv, TypeOK, CountInv, CountExact, Limited, ReaperCount
<1>r. UNCHANGED <<status, reaper, releases>> /\ ReaperCount' = ReaperCount
  BY DEF Step, Call, Acquire, Reacquire, GiveUp, DialSucceeds, DialFails, CheckPasses,
         CheckFails, CallReturns, CallFails, ReconnectClose, RetryEnds, PutStatus, PutCheck,
         PutPush, PutClose, reaperVars, ownerVars, ReaperCount
<1>q. ASSUME count' = Len(idle') + Cardinality(Counted') + ReaperCount', count' <= MaxConn
      PROVE  CountInv'
  BY <1>0, <1>r, <1>q DEF CountInv, CountExact, Limited, ReaperCount
<1>1. CASE Acquire(p) \/ Reacquire(p)
  <2>1. CASE idle = <<>> /\ count < MaxConn /\ count' = count + 1 /\ Goto(p, "dial") /\ idle' = idle
    <3>1. pc[p] \notin CountedPcs /\ "dial" \in CountedPcs /\ "dial" \in CallerPcs
      BY <1>1 DEF Acquire, Reacquire, CountedPcs, CallerPcs
    <3>2. Cardinality(Counted') = Cardinality(Counted) + 1
      BY <2>1, <3>1, CountedMoves
    <3> QED BY <1>0, <1>r, <1>q, <2>1, <3>2
  <2>2. CASE idle # <<>> /\ idle' = Tail(idle) /\ Goto(p, "check") /\ count' = count
    <3>1. pc[p] \notin CountedPcs /\ "check" \in CountedPcs /\ "check" \in CallerPcs
      BY <1>1 DEF Acquire, Reacquire, CountedPcs, CallerPcs
    <3>2. Cardinality(Counted') = Cardinality(Counted) + 1
      BY <2>2, <3>1, CountedMoves
    <3>3. Len(idle') = Len(idle) - 1
      BY <1>0, <2>2, TailOfList
    <3> QED BY <1>0, <1>r, <1>q, <2>2, <3>2, <3>3
  <2>3. CASE Goto(p, "wait") /\ UNCHANGED <<idle, count>>
    <3>1. pc[p] \notin CountedPcs /\ "wait" \notin CountedPcs /\ "wait" \in CallerPcs
      BY <1>1 DEF Acquire, Reacquire, CountedPcs, CallerPcs
    <3>2. Counted' = Counted
      BY <2>3, <3>1, CountedMoves
    <3> QED BY <1>0, <1>r, <1>q, <2>3, <3>2
  <2> QED BY <1>1, <2>1, <2>2, <2>3 DEF Acquire, Reacquire, TakeSlotOrConn
<1>2. CASE DialFails(p) \/ CheckFails(p)
  <2>1. Goto(p, "out") /\ count' = count - 1 /\ idle' = idle
    BY <1>2 DEF DialFails, CheckFails
  <2>2. pc[p] \in CountedPcs /\ "out" \notin CountedPcs /\ "out" \in CallerPcs
    BY <1>2 DEF DialFails, CheckFails, CountedPcs, CallerPcs
  <2>3. Cardinality(Counted') = Cardinality(Counted) - 1
    BY <2>1, <2>2, CountedMoves
  <2> QED BY <1>0, <1>r, <1>q, <2>1, <2>3
<1>3. CASE PutPush(p)
  <2>1. Goto(p, "out") /\ count' = count /\ idle' = <<conn[p]>> \o idle
    BY <1>3 DEF PutPush
  <2>2. pc[p] \in CountedPcs /\ "out" \notin CountedPcs /\ "out" \in CallerPcs
    BY <1>3 DEF PutPush, CountedPcs, CallerPcs
  <2>3. Cardinality(Counted') = Cardinality(Counted) - 1
    BY <2>1, <2>2, CountedMoves
  <2>4. conn[p] \in Conns
    BY <1>3 DEF PutPush, TypeInv, TypeOK, Places, HoldingPcs
  <2>5. Len(idle') = Len(idle) + 1
    BY <1>0, <2>1, <2>4, PushOnList DEF Pushed
  <2> QED BY <1>0, <1>r, <1>q, <2>1, <2>3, <2>5
<1>4. CASE PutCheck(p)
  <2>1. pc[p] \in CountedPcs /\ "close" \notin CountedPcs /\ "push" \in CountedPcs
        /\ "close" \in CallerPcs /\ "push" \in CallerPcs
    BY <1>4 DEF PutCheck, CountedPcs, CallerPcs
  <2>2. CASE Goto(p, "close") /\ count' = count - 1
    <3>1. Cardinality(Counted') = Cardinality(Counted) - 1 /\ idle' = idle
      BY <1>4, <2>1, <2>2, CountedMoves DEF PutCheck
    <3> QED BY <1>0, <1>r, <1>q, <2>2, <3>1
  <2>3. CASE Goto(p, "push") /\ count' = count
    <3>1. Counted' = Counted /\ idle' = idle
      BY <1>4, <2>1, <2>3, CountedMoves DEF PutCheck
    <3> QED BY <1>0, <1>r, <1>q, <2>3, <3>1
  <2> QED BY <1>4, <2>2, <2>3 DEF PutCheck
(* Everything else stays on its side of the line: Put on an open pool does *)
(* not go straight to the close that only a closed pool asks for.          *)
<1>5. CASE \/ Call(p) \/ GiveUp(p) \/ DialSucceeds(p) \/ CheckPasses(p) \/ CallReturns(p)
           \/ CallFails(p) \/ ReconnectClose(p) \/ RetryEnds(p) \/ PutStatus(p) \/ PutClose(p)
  <2>1. UNCHANGED <<idle, count>>
    BY <1>5 DEF Call, GiveUp, DialSucceeds, CheckPasses, CallReturns, CallFails,
                ReconnectClose, RetryEnds, PutStatus, PutClose
  <2>2. PICK l \in CallerPcs : Goto(p, l) /\ (pc[p] \in CountedPcs <=> l \in CountedPcs)
    <3>1. CASE Call(p) \/ GiveUp(p) \/ PutClose(p)
      BY <3>1 DEF Call, GiveUp, PutClose, CallerPcs, CountedPcs
    <3>2. CASE DialSucceeds(p) \/ CheckPasses(p)
      BY <3>2 DEF DialSucceeds, CheckPasses, CallerPcs, CountedPcs
    <3>3. CASE CallReturns(p) \/ CallFails(p) \/ ReconnectClose(p) \/ RetryEnds(p)
      BY <3>3 DEF CallReturns, CallFails, ReconnectClose, RetryEnds, CallerPcs, CountedPcs
    <3>4. CASE PutStatus(p)
      BY <1>0, <3>4 DEF PutStatus, CallerPcs, CountedPcs
    <3> QED BY <1>5, <3>1, <3>2, <3>3, <3>4
  <2>3. Counted' = Counted
    BY <2>2, CountedMoves
  <2> QED BY <1>0, <1>r, <1>q, <2>1, <2>3
<1> QED BY <1>1, <1>2, <1>3, <1>4, <1>5 DEF Step

(* ... and every step counts whom it gives a connection.                   *)
LEMMA NextCount == TypeInv /\ CountInv /\ [Next]_vars => CountInv'
<1> SUFFICES ASSUME TypeInv, CountInv, [Next]_vars, releases' = 0
             PROVE  CountInv'
  BY DEF CountInv, CountExact, Limited
<1>0. releases = 0 /\ ~ReleaseStop
  <2>1. ~ReleaseStop
    BY DEF ReleaseStop, TypeInv, TypeOK
  <2> QED BY <2>1 DEF Next, Step, Call, Acquire, Reacquire, GiveUp, DialSucceeds, DialFails,
         CheckPasses, CheckFails, CallReturns, CallFails, ReconnectClose, RetryEnds, PutStatus,
         PutCheck, PutPush, PutClose, Reap, ReapTake, ReapClose, ReapCount, Release,
         ReleaseZero, ReleaseDrain, ReleaseClose, Recover, PeerCloses, vars, ownerVars
<1>1. /\ count \in Int /\ Len(idle) \in Nat /\ Cardinality(Counted) \in Nat
      /\ idle \in Seq(Conns)
      /\ count = Len(idle) + Cardinality(Counted) + (IF reaper = "scan" THEN 0 ELSE 1)
      /\ status = "open" /\ count <= MaxConn /\ MaxConn \in Nat
      /\ owner = "run"
  BY <1>0, CountedFinite, MaxConnAssumption
     DEF TypeInv, TypeOK, Places, CountInv, CountExact, Limited
<1>2. CASE ReapTake
  <2>1. /\ idle' = SubSeq(idle, 1, Len(idle) - 1) /\ idle # <<>>
        /\ reaper = "scan" /\ reaper' = "close"
        /\ UNCHANGED <<count, status, pc>>
    BY <1>2 DEF ReapTake, callerVars, ownerVars
  <2>2. Len(idle') = Len(idle) - 1
    <3>1. idle \in Seq(Conns) /\ idle # <<>>
      BY <1>1, <2>1
    <3>2. Len(SubSeq(idle, 1, Len(idle) - 1)) = Len(idle) - 1
      BY <3>1, FrontOfSeq
    <3> QED BY <2>1, <3>2
  <2>3. Counted' = Counted
    BY <2>1 DEF Counted
  <2> QED BY <1>1, <2>1, <2>2, <2>3 DEF CountInv, CountExact, Limited
<1>3. CASE ReapClose
  <2>1. /\ reaper = "close" /\ reaper' = "count"
        /\ UNCHANGED <<idle, count, status, pc>>
    BY <1>3 DEF ReapClose, callerVars, ownerVars
  <2>2. Counted' = Counted
    BY <2>1 DEF Counted
  <2> QED BY <1>1, <2>1, <2>2 DEF CountInv, CountExact, Limited
<1>4. CASE ReapCount
  <2>1. /\ reaper = "count" /\ reaper' = "scan" /\ count' = count - 1
        /\ UNCHANGED <<idle, status, pc>>
    BY <1>4 DEF ReapCount, callerVars, ownerVars
  <2>2. Counted' = Counted
    BY <2>1 DEF Counted
  <2> QED BY <1>1, <2>1, <2>2 DEF CountInv, CountExact, Limited
<1>5. CASE PeerCloses \/ UNCHANGED vars
  <2>1. UNCHANGED <<idle, count, status, pc, reaper>>
    BY <1>5 DEF PeerCloses, vars, callerVars, reaperVars, ownerVars
  <2>2. Counted' = Counted
    BY <2>1 DEF Counted
  <2> QED BY <1>1, <2>1, <2>2 DEF CountInv, CountExact, Limited
<1>6. ~(ReleaseZero \/ ReleaseDrain \/ ReleaseClose \/ Recover)
  BY <1>1 DEF ReleaseZero, ReleaseDrain, ReleaseClose, Recover
<1> QED BY <1>0, <1>2, <1>3, <1>4, <1>5, <1>6, CallerCount DEF Next, Reap, Release

(* count is what it stands for until the first Release, for any number of  *)
(* callers and any interleaving of the updates outside the lock.           *)
THEOREM CountExactAlways == Spec => []CountExact
<1>1. Spec => []TypeInv
  BY InitTypes, NextTypes, PTL DEF Spec
<1>2. Spec => []CountInv
  BY <1>1, InitCounted, NextCount, PTL DEF Spec
<1> QED BY <1>2, PTL DEF CountInv

-----------------------------------------------------------------------------
(* The limit. *)

(* Until the first Release nothing is open that count does not count: a    *)
(* caller that leaves the counted part of Do with a connection has seen it *)
(* disconnected.                                                           *)
Accounted(c) ==
  \/ c \in IdleConns
  \/ c = expired
  \/ \E p \in Counted : conn[p] = c

OpenAccounted == releases = 0 => \A c \in open : Accounted(c)

(* No connection is open at the start ...                                  *)
LEMMA InitOpen == Init => OpenAccounted
BY DEF Init, OpenAccounted, Accounted

(* A caller that opens or passes on a connection accounts for it.          *)
LEMMA CallerOpen ==
  ASSUME TypeInv, CountInv, OpenAccounted, NEW p \in Callers, Step(p) \/ Call(p), releases = 0
  PROVE  \A c \in open' : Accounted(c)'
<1>0. /\ idle \in Seq(Conns) /\ status = "open" /\ count <= MaxConn
      /\ open \subseteq Conns /\ NoConn \notin open
      /\ pc \in [Callers -> CallerPcs] /\ conn \in [Callers -> Conns \cup {NoConn}]
      /\ count \in Int /\ MaxConn \in Nat
      /\ \A c \in open : Accounted(c)
  BY NoConnAssumption, MaxConnAssumption DEF TypeInv, TypeOK, CountInv, Limited, OpenAccounted
<1>r. expired' = expired
  BY DEF Step, Call, Acquire, Reacquire, GiveUp, DialSucceeds, DialFails, CheckPasses,
         CheckFails, CallReturns, CallFails, ReconnectClose, RetryEnds, PutStatus, PutCheck,
         PutPush, PutClose, reaperVars
<1>h. \A q \in Counted : pc[q] \in CountedPcs /\ q \in Callers
  BY DEF Counted
(* It is enough to look at the connections that p or the list let go.      *)
<1>k. ASSUME \A q \in Callers : q # p => pc'[q] = pc[q] /\ conn'[q] = conn[q],
             \A c \in open' : \/ c \in open /\ c \notin IdleConns /\ c # conn[p]
                              \/ Accounted(c)'
      PROVE  \A c \in open' : Accounted(c)'
  <2> SUFFICES ASSUME NEW c \in open', c \in open, c \notin IdleConns, c # conn[p]
               PROVE  Accounted(c)'
    BY <1>k
  <2>1. c = expired \/ \E q \in Counted : conn[q] = c
    BY <1>0 DEF Accounted
  <2>2. CASE c = expired
    BY <1>r, <2>2 DEF Accounted
  <2>3. ASSUME NEW q \in Counted, conn[q] = c
        PROVE  Accounted(c)'
    <3>1. q \in Callers /\ q # p /\ pc[q] \in CountedPcs
      BY <2>3, <1>h
    <3>2. q \in Counted' /\ conn'[q] = c
      BY <1>k, <2>3, <3>1 DEF Counted, CountedPcs
    <3> QED BY <3>2 DEF Accounted
  <2> QED BY <2>1, <2>2, <2>3
<1>1. CASE Acquire(p) \/ Reacquire(p)
  <2>0. open' = open /\ pc[p] \in {"acquire", "wait"} /\ conn[p] = NoConn
    BY <1>1 DEF Acquire, Reacquire, TypeInv, Places, HoldingPcs
  <2>1. CASE idle # <<>> /\ idle' = Tail(idle) /\ Goto(p, "check")
             /\ conn' = [conn EXCEPT ![p] = Head(idle)]
    <3>0. idle \in Seq(Conns) /\ idle # <<>> /\ idle' = Tail(idle)
      BY <1>0, <2>1
    <3>1. IdleConns \subseteq IdleConns' \cup {Head(idle)}
      <4>1. Members(idle) \subseteq Members(Tail(idle)) \cup {Head(idle)}
        BY <3>0, TailOfList
      <4>2. IdleConns = Members(idle) /\ IdleConns' = Members(Tail(idle))
        BY <3>0 DEF IdleConns, Members
      <4> QED BY <4>1, <4>2
    <3>2. p \in Counted' /\ conn'[p] = Head(idle)
      BY <1>0, <2>1 DEF Goto, Counted, CountedPcs
    <3>3. \A q \in Callers : q # p => pc'[q] = pc[q] /\ conn'[q] = conn[q]
      BY <1>0, <2>1 DEF Goto
    <3>4. \A c \in open' : (c \in open /\ c \notin IdleConns /\ c # conn[p]) \/ Accounted(c)'
      BY <1>0, <2>0, <3>1, <3>2 DEF Accounted
    <3> QED BY <1>k, <3>3, <3>4
  <2>2. CASE (Goto(p, "dial") \/ Goto(p, "wait")) /\ UNCHANGED <<idle, conn>>
    <3>1. IdleConns' = IdleConns
      BY <2>2 DEF IdleConns
    <3>2. \A q \in Callers : q # p => pc'[q] = pc[q] /\ conn'[q] = conn[q]
      BY <1>0, <2>2 DEF Goto
    <3>3. \A c \in open' : (c \in open /\ c \notin IdleConns /\ c # conn[p]) \/ Accounted(c)'
      BY <1>0, <2>0, <3>1 DEF Accounted
    <3> QED BY <1>k, <3>2, <3>3
  <2> QED BY <1>1, <2>1, <2>2 DEF Acquire, Reacquire, TakeSlotOrConn
<1>2. CASE DialSucceeds(p)
  <2>1. PICK c \in Fresh : open' = open \cup {c} /\ conn' = [conn EXCEPT ![p] = c]
    BY <1>2 DEF DialSucceeds
  <2>2. (Goto(p, "check") \/ Goto(p, "recheck")) /\ idle' = idle
    BY <1>2 DEF DialSucceeds
  <2>3. IdleConns' = IdleConns
    BY <2>2 DEF IdleConns
  <2>4. conn[p] = NoConn
    BY <1>2 DEF DialSucceeds, TypeInv, Places, HoldingPcs
  <2>5. p \in Counted' /\ conn'[p] = c
    BY <1>0, <2>1, <2>2 DEF Goto, Counted, CountedPcs
  <2>6. \A q \in Callers : q # p => pc'[q] = pc[q] /\ conn'[q] = conn[q]
    BY <1>0, <2>1, <2>2 DEF Goto
  <2>7. \A d \in open' : (d \in open /\ d \notin IdleConns /\ d # conn[p]) \/ Accounted(d)'
    BY <1>0, <2>1, <2>3, <2>4, <2>5 DEF Accounted
  <2> QED BY <1>k, <2>6, <2>7
(* p has no connection, or one that is not open any more.                  *)
<1>3. CASE \/ Call(p) \/ GiveUp(p) \/ DialFails(p) \/ CheckFails(p) \/ ReconnectClose(p)
           \/ PutClose(p)
  <2>1. idle' = idle /\ open' \subseteq open
    BY <1>3 DEF Call, GiveUp, DialFails, CheckFails, ReconnectClose, PutClose
  <2>2. conn[p] \notin open'
    <3>1. CASE Call(p) \/ GiveUp(p) \/ DialFails(p)
      <4>1. conn[p] = NoConn
        BY <3>1 DEF Call, GiveUp, DialFails, TypeInv, Places, HoldingPcs
      <4> QED BY <1>0, <2>1, <4>1
    <3>2. CASE CheckFails(p) \/ ReconnectClose(p) \/ PutClose(p)
      BY <3>2 DEF CheckFails, ReconnectClose, PutClose
    <3> QED BY <1>3, <3>1, <3>2
  <2>3. \A q \in Callers : q # p => pc'[q] = pc[q] /\ conn'[q] = conn[q]
    BY <1>0, <1>3 DEF Call, GiveUp, DialFails, CheckFails, ReconnectClose, PutClose, Goto
  <2>4. IdleConns' = IdleConns
    BY <2>1 DEF IdleConns
  <2>5. \A c \in open' : (c \in open /\ c \notin IdleConns /\ c # conn[p]) \/ Accounted(c)'
    BY <2>1, <2>2, <2>4 DEF Accounted
  <2> QED BY <1>k, <2>3, <2>5
(* p keeps its connection, and stays counted.                              *)
<1>4. CASE \/ CheckPasses(p) \/ CallReturns(p) \/ CallFails(p) \/ RetryEnds(p) \/ PutStatus(p)
           \/ (PutCheck(p) /\ Goto(p, "push"))
  <2>1. UNCHANGED <<idle, open, conn>>
    BY <1>4 DEF CheckPasses, CallReturns, CallFails, RetryEnds, PutStatus, PutCheck
  <2>2. PICK l \in CountedPcs : Goto(p, l)
    BY <1>0, <1>4 DEF CheckPasses, CallReturns, CallFails, RetryEnds, PutStatus, CountedPcs
  <2>3. p \in Counted' /\ conn'[p] = conn[p]
    BY <1>0, <2>1, <2>2 DEF Goto, Counted, CountedPcs
  <2>4. \A q \in Callers : q # p => pc'[q] = pc[q] /\ conn'[q] = conn[q]
    BY <1>0, <2>1, <2>2 DEF Goto
  <2>5. IdleConns' = IdleConns
    BY <2>1 DEF IdleConns
  <2>6. \A c \in open' : (c \in open /\ c \notin IdleConns /\ c # conn[p]) \/ Accounted(c)'
    BY <2>1, <2>3, <2>5 DEF Accounted
  <2> QED BY <1>k, <2>4, <2>6
<1>5. CASE PutCheck(p) /\ ~Goto(p, "push")
  <2>1. UNCHANGED <<idle, open, conn>> /\ Goto(p, "close") /\ conn[p] \notin open
    BY <1>0, <1>5 DEF PutCheck
  <2>2. \A q \in Callers : q # p => pc'[q] = pc[q] /\ conn'[q] = conn[q]
    BY <1>0, <2>1 DEF Goto
  <2>3. IdleConns' = IdleConns
    BY <2>1 DEF IdleConns
  <2>4. \A c \in open' : (c \in open /\ c \notin IdleConns /\ c # conn[p]) \/ Accounted(c)'
    BY <2>1, <2>3 DEF Accounted
  <2> QED BY <1>k, <2>2, <2>4
<1>6. CASE PutPush(p)
  <2>1. /\ idle' = <<conn[p]>> \o idle /\ open' = open
        /\ conn' = [conn EXCEPT ![p] = NoConn] /\ Goto(p, "out")
    BY <1>6 DEF PutPush
  <2>2. conn[p] \in Conns
    BY <1>0, <1>6 DEF PutPush, TypeInv, Places, HoldingPcs
  <2>3. IdleConns' = IdleConns \cup {conn[p]}
    <3>0. idle \in Seq(Conns)
      BY <1>0
    <3>1. /\ idle' \in Seq(Conns) /\ Len(idle') = Len(idle) + 1
          /\ idle'[1] = conn[p]
          /\ \A i \in 1..Len(idle) : idle'[i + 1] = idle[i]
      BY <2>1, <2>2, <3>0
    <3>2. \A t \in Seq(Conns) :
            /\ Len(t) = Len(idle) + 1 /\ t[1] = conn[p]
            /\ \A i \in 1..Len(idle) : t[i + 1] = idle[i]
            => Members(t) = Members(idle) \cup {conn[p]}
      BY <2>2, <3>0, PushMembers
    <3> QED BY <3>1, <3>2 DEF Members, IdleConns
  <2>4. \A q \in Callers : q # p => pc'[q] = pc[q] /\ conn'[q] = conn[q]
    BY <1>0, <2>1 DEF Goto
  <2>5. \A c \in open' : (c \in open /\ c \notin IdleConns /\ c # conn[p]) \/ Accounted(c)'
    BY <2>1, <2>3 DEF Accounted
  <2> QED BY <1>k, <2>4, <2>5
<1> QED BY <1>1, <1>2, <1>3, <1>4, <1>5, <1>6 DEF Step

(* ... and every step accounts for what is open.                           *)
LEMMA NextOpen == TypeInv /\ CountInv /\ OpenAccounted /\ [Next]_vars => OpenAccounted'
<1> SUFFICES ASSUME TypeInv, CountInv, OpenAccounted, [Next]_vars, releases' = 0
             PROVE  \A c \in open' : Accounted(c)'
  BY DEF OpenAccounted
<1>0. releases = 0 /\ ~ReleaseStop
  <2>1. ~ReleaseStop
    BY DEF ReleaseStop, TypeInv, TypeOK
  <2> QED BY <2>1 DEF Next, Step, Call, Acquire, Reacquire, GiveUp, DialSucceeds, DialFails,
         CheckPasses, CheckFails, CallReturns, CallFails, ReconnectClose, RetryEnds, PutStatus,
         PutCheck, PutPush, PutClose, Reap, ReapTake, ReapClose, ReapCount, Release,
         ReleaseZero, ReleaseDrain, ReleaseClose, Recover, PeerCloses, vars, ownerVars
<1>1. owner = "run" /\ \A c \in open : Accounted(c)
  BY <1>0 DEF TypeInv, Places, OpenAccounted
<1>2. CASE ReapTake
  <2>1. /\ idle' = SubSeq(idle, 1, Len(idle) - 1) /\ idle # <<>>
        /\ expired' = idle[Len(idle)] /\ reaper = "scan"
        /\ UNCHANGED <<open, pc, conn>>
    BY <1>2 DEF ReapTake, callerVars, ownerVars
  <2>2. IdleConns \subseteq IdleConns' \cup {expired'}
    <3>0. idle \in Seq(Conns)
      BY DEF TypeInv, TypeOK
    <3>1. \A t : t = SubSeq(idle, 1, Len(idle) - 1) =>
            Members(idle) \subseteq Members(t) \cup {idle[Len(idle)]}
      BY <2>1, <3>0, FrontOfList
    <3>2. IdleConns = Members(idle) /\ IdleConns' = Members(SubSeq(idle, 1, Len(idle) - 1))
      BY <2>1 DEF Members, IdleConns
    <3> QED BY <2>1, <3>1, <3>2
  <2>3. expired = NoConn /\ NoConn \notin open
    BY <2>1, NoConnAssumption DEF TypeInv, TypeOK, Places
  <2>4. Counted' = Counted
    BY <2>1 DEF Counted
  <2> QED BY <1>1, <2>1, <2>2, <2>3, <2>4 DEF Accounted
<1>3. CASE ReapClose
  <2>1. open' = open \ {expired} /\ UNCHANGED <<idle, pc, conn>>
    BY <1>3 DEF ReapClose, callerVars, ownerVars
  <2>2. Counted' = Counted /\ IdleConns' = IdleConns
    BY <2>1 DEF Counted, IdleConns
  <2> QED BY <1>1, <2>1, <2>2 DEF Accounted
<1>4. CASE ReapCount \/ PeerCloses \/ UNCHANGED vars
  <2>1. open' \subseteq open /\ UNCHANGED <<idle, expired, pc, conn>>
    BY <1>4 DEF ReapCount, PeerCloses, vars, callerVars, reaperVars, ownerVars
  <2>2. Counted' = Counted /\ IdleConns' = IdleConns
    BY <2>1 DEF Counted, IdleConns
  <2> QED BY <1>1, <2>1, <2>2 DEF Accounted
<1>5. ~(ReleaseZero \/ ReleaseDrain \/ ReleaseClose \/ Recover)
  BY <1>1 DEF ReleaseZero, ReleaseDrain, ReleaseClose, Recover
<1> QED BY <1>0, <1>2, <1>3, <1>4, <1>5, CallerOpen DEF Next, Reap, Release

(* Two finite sets together.                                              *)
LEMMA UnionBound ==
  ASSUME NEW A, NEW B, IsFiniteSet(A), IsFiniteSet(B)
  PROVE  /\ IsFiniteSet(A \cup B)
         /\ Cardinality(A \cup B) <= Cardinality(A) + Cardinality(B)
<1>1. IsFiniteSet(A \cap B)
  BY FS_Subset
<1>2. /\ Cardinality(A) \in Nat /\ Cardinality(B) \in Nat /\ Cardinality(A \cap B) \in Nat
      /\ IsFiniteSet(A \cup B)
      /\ Cardinality(A \cup B) = Cardinality(A) + Cardinality(B) - Cardinality(A \cap B)
  BY <1>1, FS_CardinalityType, FS_Union
<1> QED BY <1>2

(* What is accounted for is no more than what is counted.                  *)
LEMMA OpenWithinCount ==
  TypeInv /\ CountInv /\ OpenAccounted => AtMostMaxConn
<1> SUFFICES ASSUME TypeInv, CountInv, OpenAccounted, releases = 0
             PROVE  Cardinality(open) <= MaxConn
  BY DEF AtMostMaxConn
<1>1. /\ count = Len(idle) + Cardinality(Counted) + ReaperCount
      /\ count <= MaxConn /\ Len(idle) \in Nat /\ count \in Int /\ MaxConn \in Nat
  BY MaxConnAssumption DEF CountInv, CountExact, Limited, ReaperCount, TypeInv, TypeOK
<1> DEFINE H == {conn[p] : p \in Counted}
           E == IF reaper = "scan" THEN {} ELSE {expired}
<1>2. IsFiniteSet(IdleConns) /\ Cardinality(IdleConns) <= Len(idle)
  <2> DEFINE I == 1..Len(idle)
             f == [i \in I |-> idle[i]]
  <2>1. IsFiniteSet(I) /\ Cardinality(I) = Len(idle)
    <3>1. ASSUME NEW n \in Nat
          PROVE  IsFiniteSet(1..n) /\ Cardinality(1..n) = n
      BY FS_Interval
    <3>2. Len(idle) \in Nat
      BY <1>1
    <3> QED BY <3>1, <3>2
  <2>2. f \in Surjection(I, IdleConns)
    BY DEF Surjection, IdleConns
  <2> HIDE DEF f, I
  <2>3. IsFiniteSet(IdleConns) /\ Cardinality(IdleConns) <= Cardinality(I)
    BY <2>1, <2>2, FS_Surjection
  <2> QED BY <2>1, <2>3
<1>3. IsFiniteSet(H) /\ Cardinality(H) <= Cardinality(Counted)
  <2> DEFINE f == [p \in Counted |-> conn[p]]
  <2>1. f \in Surjection(Counted, H)
    BY DEF Surjection
  <2> HIDE DEF f, H
  <2> QED BY <2>1, CountedFinite, FS_Surjection
<1>4. IsFiniteSet(E) /\ Cardinality(E) = ReaperCount
  BY FS_EmptySet, FS_Singleton DEF ReaperCount
<1>5. open \subseteq (IdleConns \cup H) \cup E
  <2> SUFFICES ASSUME NEW c \in open
               PROVE  c \in (IdleConns \cup H) \cup E
    OBVIOUS
  <2>1. Accounted(c) /\ c # NoConn
    BY NoConnAssumption DEF OpenAccounted, TypeInv, TypeOK
  <2>2. CASE c = expired
    BY <2>1, <2>2 DEF TypeInv, TypeOK, Places
  <2> QED BY <2>1, <2>2 DEF Accounted
<1> HIDE DEF H, E
<1>6. /\ IsFiniteSet(IdleConns \cup H)
      /\ Cardinality(IdleConns \cup H) <= Cardinality(IdleConns) + Cardinality(H)
  BY <1>2, <1>3, UnionBound
<1>7. /\ IsFiniteSet((IdleConns \cup H) \cup E)
      /\ Cardinality((IdleConns \cup H) \cup E) <= Cardinality(IdleConns \cup H) + Cardinality(E)
  BY <1>4, <1>6, UnionBound
<1>8. Cardinality(open) <= Cardinality((IdleConns \cup H) \cup E)
  BY <1>5, <1>7, FS_Subset
<1>9. /\ Cardinality(open) \in Nat /\ Cardinality(IdleConns) \in Nat /\ Cardinality(H) \in Nat
      /\ Cardinality(E) \in Nat /\ Cardinality(IdleConns \cup H) \in Nat
      /\ Cardinality((IdleConns \cup H) \cup E) \in Nat /\ Cardinality(Counted) \in Nat
  <2>1. IsFiniteSet(open)
    BY <1>5, <1>7, FS_Subset
  <2> QED BY <1>2, <1>3, <1>4, <1>6, <1>7, <2>1, CountedFinite, FS_CardinalityType
<1> QED BY <1>1, <1>2, <1>3, <1>4, <1>6, <1>7, <1>8, <1>9

(* The pool never has more than MaxConn connections open before the first  *)
(* Release, for any number of callers, connections and any MaxConn.        *)
THEOREM NeverOverMaxConn == Spec => []AtMostMaxConn
<1>1. Spec => []TypeInv
  BY InitTypes, NextTypes, PTL DEF Spec
<1>2. Spec => []CountInv
  BY <1>1, InitCounted, NextCount, PTL DEF Spec
<1>3. Spec => []OpenAccounted
  BY <1>1, <1>2, InitOpen, NextOpen, PTL DEF Spec
<1> QED BY <1>1, <1>2, <1>3, OpenWithinCount, PTL

-----------------------------------------------------------------------------
(* The server that the connections lead to (ThriftServer): for any         *)
(* callers, connections, stoppers and bounds, with or without a timeout of *)
(* Stop.                                                                   *)
(* 0 is no connection, bounds are numbers, and "free" is no stopper.       *)
ServerBounds == /\ IsFiniteSet(Links) /\ 0 \notin Links
                /\ MaxCalls \in Nat /\ MaxFailures \in Nat
                /\ StopTimeout \in BOOLEAN /\ "free" \notin Stoppers

(* A connection: who handles a request is in its handler, one that is open *)
(* has both its goroutines, and one that is still to be served neither.    *)
LinkType ==
  [cli : {"none", "open", "closed"}, srv : {"none", "queued", "accepted", "open", "closed"},
   req : Seq(Server!Kinds), rep : {0, 1}, now : {"none"} \union Server!Kinds \union {"abandoned"},
   serving : {"none", "check", "read", "handler", "ended"}, closer : {"none", "wait", "ended"}]
Runs(x) == x.serving \notin {"none", "ended"}
LinkOK(x) ==
  /\ x \in LinkType
  /\ x.now # "none" => x.serving = "handler"
  /\ x.srv = "open" => Runs(x) /\ x.closer = "wait"
  /\ x.srv \in {"none", "queued", "accepted"} => x.serving = "none" /\ x.closer = "none"
LinksOK == link \in [Links -> LinkType] /\ \A c \in Links : LinkOK(link[c])

(* A caller that calls has a kind of call, and one that sends or waits for *)
(* its reply a connection.                                                 *)
CallerType ==
  [pc : {"idle", "dial", "send", "recv"}, conn : {0} \union Links,
   kind : {"none"} \union Server!Kinds, tries : {0, 1}]
CallerOK(y) ==
  /\ y.pc # "idle" => y.kind \in Server!Kinds
  /\ y.pc \in {"send", "recv"} => y.conn \in Links
CallersOK ==
  /\ caller \in [Callers -> CallerType]
  /\ \A k \in Callers : CallerOK(caller[k])

ServerTypes ==
  /\ failures \in 0..MaxFailures /\ calls \in 0..MaxCalls
  /\ listener \in {"open", "closed"} /\ stopChan \in {"open", "closed"}
  /\ backlog \in Seq(Links)

(* Stop is called by several, but only the one that holds the mutex is     *)
(* within it; once that has let it go nobody is, and nothing is left to    *)
(* run.                                                                    *)
StopInv ==
  /\ closed \in BOOLEAN /\ mu \in {"free"} \union Stoppers
  /\ stop \in [Stoppers -> {"idle", "interrupt", "wait", "close chan", "join", "done"}]
  /\ \A s \in Stoppers : stop[s] \notin {"idle", "done"} => mu = s
  /\ \A s \in Stoppers : stop[s] # "idle" => closed
  /\ mu # "free" => closed /\ \A s \in Stoppers : stop[s] # "done"
  /\ closed /\ mu = "free" => \A c \in Links : ~Runs(link[c]) /\ link[c].closer # "wait"

(* The connection that was accepted last is the accepting goroutine's.     *)
AcceptInv ==
  /\ accept \in [pc : {"accept", "lock", "ended"}, conn : {0} \union Links]
  /\ accept.pc = "accept" => accept.conn = 0
  /\ \A c \in Links : link[c].srv = "accepted" => accept.conn = c
  /\ accept.pc = "ended" /\ accept.conn # 0 => closed

(* Who waits to be accepted waits once, and is left alone until then.      *)
QueueInv ==
  /\ NoRepeats(backlog)
  /\ \A c \in Members(backlog) : link[c].srv = "queued"
  /\ accept.pc = "lock" /\ accept.conn # 0 => link[accept.conn].srv = "accepted"

ServerInv == LinksOK /\ CallersOK /\ ServerTypes /\ StopInv /\ AcceptInv /\ QueueInv

(* The queue with one connection more.                                     *)
LEMMA ListAfterAppend ==
  ASSUME NEW S, NEW s \in Seq(S), NEW c \in S, c \notin Members(s)
  PROVE  /\ Append(s, c) \in Seq(S)
         /\ Members(Append(s, c)) = Members(s) \cup {c}
         /\ NoRepeats(s) => NoRepeats(Append(s, c))
<1>1. /\ Len(s) \in Nat /\ Append(s, c) \in Seq(S) /\ Len(Append(s, c)) = Len(s) + 1
      /\ \A i \in 1..Len(s) : Append(s, c)[i] = s[i] /\ s[i] # c
      /\ Append(s, c)[Len(s) + 1] = c
  BY DEF Members
<1>2. 1..(Len(s) + 1) = (1..Len(s)) \cup {Len(s) + 1} /\ Len(s) + 1 \notin 1..Len(s)
  BY <1>1
<1>3. Members(Append(s, c)) = Members(s) \cup {c}
  BY <1>1, <1>2 DEF Members
<1>4. ASSUME NoRepeats(s), NEW i \in 1..(Len(s) + 1), NEW j \in 1..(Len(s) + 1),
             Append(s, c)[i] = Append(s, c)[j]
      PROVE  i = j
  BY <1>1, <1>2, <1>4 DEF NoRepeats
<1> QED BY <1>1, <1>3, <1>4 DEF NoRepeats

(* The types of the server's variables.                                   *)
LEMMA ServerInvTyped == ServerBounds /\ ServerInv => Server!TypeOK
<1>1. 0..1 = {0, 1}
  OBVIOUS
<1> QED BY <1>1 DEF ServerInv, LinksOK, LinkType, CallersOK, CallerType, ServerTypes, StopInv,
                    AcceptInv, Server!TypeOK

(* At the start nobody calls, and no connection is used.                   *)
LEMMA ServerInit == ServerBounds /\ Server!Init => ServerInv
<1> SUFFICES ASSUME ServerBounds, Server!Init PROVE ServerInv
  OBVIOUS
<1>1. LinkOK(Server!Unused)
  BY DEF LinkOK, LinkType, Server!Unused, Server!Kinds
<1>2. LinksOK
  BY <1>1 DEF LinksOK, LinkOK, Server!Init
<1>3. CallersOK
  BY DEF CallersOK, CallerOK, CallerType, Server!Init
<1>4. ServerTypes
  BY DEF ServerBounds, ServerTypes, Server!Init
<1>5. StopInv
  BY DEF StopInv, Server!Init
<1>6. AcceptInv
  BY DEF AcceptInv, Server!Init, Server!Unused
<1>7. QueueInv
  BY DEF QueueInv, Server!Init, NoRepeats, Members
<1> QED BY <1>2, <1>3, <1>4, <1>5, <1>6, <1>7 DEF ServerInv

(* One connection changes; another may be settled with it, when both ends  *)
(* and both goroutines of it have gone.                                    *)
Becomes(c, x) ==
  link' = [link EXCEPT ![c] = x] \/ link' = Server!Settle([link EXCEPT ![c] = x])

(* The other connections are the same, or their names are free again.      *)
LEMMA Changing ==
  ASSUME LinksOK, NEW c \in Links, NEW x, LinkOK(x), Becomes(c, x)
  PROVE  /\ LinksOK'
         /\ link'[c] = x \/ (link'[c] = Server!Unused /\ x.srv = "closed")
         /\ \A d \in Links \ {c} :
              link'[d] = link[d] \/ (link'[d] = Server!Unused /\ link[d].srv = "closed")
<1>1. LinkOK(Server!Unused)
  BY DEF LinkOK, LinkType, Server!Unused, Server!Kinds
<1>2. /\ link' = [d \in Links |-> link'[d]]
      /\ link'[c] = x \/ (link'[c] = Server!Unused /\ x.srv = "closed")
      /\ \A d \in Links \ {c} :
           link'[d] = link[d] \/ (link'[d] = Server!Unused /\ link[d].srv = "closed")
  BY DEF Becomes, Server!Settle, Server!Gone, LinksOK
<1>3. \A d \in Links : LinkOK(link'[d])
  BY <1>1, <1>2 DEF LinksOK
<1>4. \A d \in Links : link'[d] \in LinkType
  BY <1>3 DEF LinkOK
<1>5. link' \in [Links -> LinkType]
  BY <1>2, <1>4
<1> QED BY <1>2, <1>3, <1>5 DEF LinksOK, LinkOK

(* What a connection may become without the help of the accepting          *)
(* goroutine: it is not accepted, and no goroutine begins.                 *)
Tame(c, x) ==
  /\ link[c].srv \in {"queued", "accepted"} => x.srv = link[c].srv
  /\ x.srv = "accepted" => link[c].srv = "accepted"
  /\ Runs(x) => Runs(link[c])
  /\ x.closer = "wait" => link[c].closer = "wait"

(* Such a change disturbs neither Stop nor the accepting goroutine.        *)
LEMMA LinkStep ==
  ASSUME LinksOK, StopInv, AcceptInv, QueueInv, backlog \in Seq(Links),
         NEW c \in Links, NEW x, LinkOK(x), Tame(c, x), Becomes(c, x),
         UNCHANGED <<accept, closed, mu, stop>>
  PROVE  /\ LinksOK' /\ StopInv' /\ AcceptInv'
         /\ backlog' = backlog => QueueInv'
<1>1. /\ link'[c] = x \/ (link'[c] = Server!Unused /\ x.srv = "closed")
      /\ \A d \in Links \ {c} :
           link'[d] = link[d] \/ (link'[d] = Server!Unused /\ link[d].srv = "closed")
  BY Changing
<1>2. \A d \in Links : /\ link'[d].srv = "accepted" => link[d].srv = "accepted"
                       /\ Runs(link'[d]) => Runs(link[d])
                       /\ link'[d].closer = "wait" => link[d].closer = "wait"
                       /\ link[d].srv \in {"queued", "accepted"} => link'[d].srv = link[d].srv
  BY <1>1 DEF Tame, Runs, Server!Unused
<1>3. StopInv'
  BY <1>2 DEF StopInv
<1>4. AcceptInv'
  BY <1>2 DEF AcceptInv
<1>5. ASSUME backlog' = backlog PROVE QueueInv'
  <2>1. Members(backlog) \subseteq Links /\ Members(backlog)' = Members(backlog)
    BY <1>5 DEF Members
  <2> QED BY <1>2, <1>5, <2>1 DEF QueueInv, AcceptInv, NoRepeats
<1> QED BY <1>3, <1>4, <1>5, Changing

(* One caller changes.                                                     *)
LEMMA CallerChanges ==
  ASSUME CallersOK, NEW k \in Callers, NEW y \in CallerType, CallerOK(y),
         caller' = [caller EXCEPT ![k] = y]
  PROVE  CallersOK'
BY DEF CallersOK, CallerOK

(* A part of the invariant holds on while what it speaks of is the same.   *)
LEMMA StillCalling == CallersOK /\ UNCHANGED caller => CallersOK'
BY DEF CallersOK, CallerOK
(* ... the connections and their goroutines,                               *)
LEMMA StillLinked == LinksOK /\ UNCHANGED link => LinksOK'
BY DEF LinksOK, LinkOK
(* ... Stop,                                                               *)
LEMMA StillStopping ==
  ASSUME StopInv, closed' = closed, mu' = mu, stop' = stop, link' = link
  PROVE  StopInv'
BY DEF StopInv, Runs
(* ... the accepting goroutine,                                            *)
LEMMA StillAccepting == AcceptInv /\ UNCHANGED <<accept, closed, link>> => AcceptInv'
BY DEF AcceptInv
(* ... and the queue of those to be accepted.                              *)
LEMMA StillQueued ==
  ASSUME QueueInv, accept' = accept, backlog' = backlog, link' = link
  PROVE  QueueInv'
BY DEF QueueInv, NoRepeats, Members

-----------------------------------------------------------------------------
(* Each action keeps it: the callers *)

(* A call begins, of one kind or the other.                                *)
LEMMA CallKeeps ==
  ASSUME ServerBounds, ServerInv, NEW k \in Callers, NEW kind \in Server!Kinds, Server!Do(k, kind)
  PROVE  ServerInv'
<1>1. CallersOK'
  <2> DEFINE y == [caller[k] EXCEPT !.pc = IF caller[k].conn # 0 THEN "send" ELSE "dial",
                                    !.kind = kind, !.tries = 0]
  <2>1. caller' = [caller EXCEPT ![k] = y]
    BY DEF Server!Do, ServerInv, CallersOK
  <2>2. caller[k] \in CallerType /\ CallerOK(caller[k])
    BY DEF ServerInv, CallersOK
  <2>3. y \in CallerType /\ CallerOK(y)
    BY <2>2 DEF CallerType, CallerOK, Server!Kinds, Server!Do
  <2> QED BY <2>1, <2>3, CallerChanges DEF ServerInv
<1>2. ServerTypes'
  BY DEF Server!Do, ServerInv, ServerTypes, ServerBounds
<1>3. LinksOK' /\ StopInv' /\ AcceptInv' /\ QueueInv'
  BY StillLinked, StillStopping, StillAccepting, StillQueued DEF Server!Do, ServerInv
<1> QED BY <1>1, <1>2, <1>3 DEF ServerInv

(* A connection that nobody uses is queued.                                *)
LEMMA DialKeeps ==
  ASSUME ServerBounds, ServerInv, NEW k \in Callers, Server!Dial(k)
  PROVE  ServerInv'
<1>c. PICK c \in Links :
        /\ link[c] = Server!Unused
        /\ link' = [link EXCEPT ![c].cli = "open", ![c].srv = "queued"]
        /\ backlog' = Append(backlog, c)
        /\ caller' = [caller EXCEPT ![k].pc = "send", ![k].conn = c]
  BY DEF Server!Dial, Server!Free
<1>1. CallersOK'
  <2> DEFINE y == [caller[k] EXCEPT !.pc = "send", !.conn = c]
  <2>1. caller' = [caller EXCEPT ![k] = y]
    BY <1>c DEF Server!Dial, Server!Free, ServerInv, CallersOK
  <2>2. caller[k] \in CallerType /\ CallerOK(caller[k])
    BY DEF ServerInv, CallersOK
  <2>3. y \in CallerType /\ CallerOK(y)
    BY <2>2, <1>c DEF CallerType, CallerOK, Server!Kinds, Server!Dial, Server!Free
  <2> QED BY <2>1, <2>3, CallerChanges DEF ServerInv
<1>2. ServerTypes'
  BY <1>c DEF Server!Dial, Server!Free, ServerInv, ServerTypes, ServerBounds
<1>3. LinksOK' /\ StopInv' /\ AcceptInv'
  <2> DEFINE x == [link[c] EXCEPT !.cli = "open", !.srv = "queued"]
  <2>1. Becomes(c, x)
    BY <1>c DEF Server!Dial, Server!Free, Becomes, ServerInv, LinksOK
  <2>2. link[c] \in LinkType /\ LinkOK(link[c])
    BY <1>c DEF ServerInv, LinksOK
  <2>3. LinkOK(x) /\ Tame(c, x)
    <3>1. link[c].now = "none" /\ link[c].serving = "none" /\ link[c].closer = "none"
      BY <1>c DEF Server!Unused
    <3>2. link[c].srv = "none"
      BY <1>c DEF Server!Unused
    <3>3. x \in LinkType /\ x.srv = "queued" /\ x.now = "none" /\ x.serving = "none"
          /\ x.closer = "none"
      BY <2>2, <3>1 DEF LinkType
    <3> HIDE DEF x
    <3> QED BY <3>1, <3>2, <3>3 DEF LinkOK, Tame, Runs
  <2> QED BY <2>1, <2>3, <1>c, LinkStep DEF Server!Dial, Server!Free, ServerInv, ServerTypes
<1>4. QueueInv'
  <2>1. link[c].srv = "none" /\ backlog' = Append(backlog, c) /\ accept' = accept
    BY <1>c DEF Server!Dial, Server!Unused
  <2>2. Members(backlog) \subseteq Links /\ c \notin Members(backlog)
    BY <2>1 DEF Members, ServerInv, QueueInv, ServerTypes
  <2>3. NoRepeats(backlog') /\ Members(backlog') = Members(backlog) \cup {c}
    BY <1>c, <2>1, <2>2, ListAfterAppend DEF ServerInv, ServerTypes, QueueInv
  <2>4. /\ link'[c].srv = "queued"
        /\ \A d \in Links \ {c} : link'[d] = link[d]
    BY <1>c DEF ServerInv, LinksOK, LinkType
  <2> QED BY <2>1, <2>2, <2>3, <2>4 DEF ServerInv, AcceptInv, QueueInv
<1> QED BY <1>1, <1>2, <1>3, <1>4 DEF ServerInv

(* Nobody listens any more.                                                *)
LEMMA DialFailsKeeps ==
  ASSUME ServerBounds, ServerInv, NEW k \in Callers, Server!DialFails(k)
  PROVE  ServerInv'
<1>1. CallersOK'
  <2> DEFINE y == [caller[k] EXCEPT !.pc = "idle", !.kind = "none", !.tries = 0, !.conn = 0]
  <2>1. caller' = [caller EXCEPT ![k] = y]
    BY DEF Server!DialFails, Server!Returned, ServerInv, CallersOK
  <2>2. caller[k] \in CallerType /\ CallerOK(caller[k])
    BY DEF ServerInv, CallersOK
  <2>3. y \in CallerType /\ CallerOK(y)
    BY <2>2 DEF CallerType, CallerOK, Server!Kinds, Server!DialFails, Server!Returned
  <2> QED BY <2>1, <2>3, CallerChanges DEF ServerInv
<1>2. ServerTypes'
  BY DEF Server!DialFails, Server!Returned, ServerInv, ServerTypes, ServerBounds
<1>3. LinksOK' /\ StopInv' /\ AcceptInv' /\ QueueInv'
  BY StillLinked, StillStopping, StillAccepting, StillQueued
     DEF Server!DialFails, Server!Returned, ServerInv
<1> QED BY <1>1, <1>2, <1>3 DEF ServerInv

(* The reply has come.                                                     *)
LEMMA RecvKeeps ==
  ASSUME ServerBounds, ServerInv, NEW k \in Callers, Server!Recv(k)
  PROVE  ServerInv'
<1> DEFINE c == caller[k].conn
<1>c. c \in Links /\ caller[k].kind \in Server!Kinds
  BY DEF Server!Recv, ServerInv, CallersOK, CallerOK, CallerType
<1>1. CallersOK'
  <2> DEFINE y == [caller[k] EXCEPT !.pc = "idle", !.kind = "none", !.tries = 0, !.conn = c]
  <2>1. caller' = [caller EXCEPT ![k] = y]
    BY DEF Server!Recv, Server!Returned, ServerInv, CallersOK
  <2>2. caller[k] \in CallerType /\ CallerOK(caller[k])
    BY DEF ServerInv, CallersOK
  <2>3. y \in CallerType /\ CallerOK(y)
    BY <2>2, <1>c DEF CallerType, CallerOK, Server!Kinds, Server!Recv, Server!Returned
  <2> QED BY <2>1, <2>3, CallerChanges DEF ServerInv
<1>2. ServerTypes'
  BY DEF Server!Recv, Server!Returned, ServerInv, ServerTypes, ServerBounds
<1>3. LinksOK' /\ StopInv' /\ AcceptInv' /\ QueueInv'
  <2> DEFINE x == [link[c] EXCEPT !.rep = 0]
  <2>1. Becomes(c, x)
    BY <1>c DEF Server!Recv, Server!Returned, Becomes, ServerInv, LinksOK
  <2>2. link[c] \in LinkType /\ LinkOK(link[c])
    BY <1>c DEF ServerInv, LinksOK
  <2>3. LinkOK(x) /\ Tame(c, x)
    BY <2>2, <1>c DEF Server!Recv, Server!Returned, LinkOK, LinkType, Server!Kinds, Runs, Tame
  <2> QED BY <2>1, <2>3, <1>c, LinkStep DEF Server!Recv, Server!Returned, ServerInv, ServerTypes
<1> QED BY <1>1, <1>2, <1>3 DEF ServerInv

(* The client closes its end.                                              *)
LEMMA HangupKeeps ==
  ASSUME ServerBounds, ServerInv, NEW k \in Callers, Server!Hangup(k)
  PROVE  ServerInv'
<1> DEFINE c == caller[k].conn
<1>c. c \in Links
  BY DEF Server!Hangup, ServerBounds, ServerInv, CallersOK, CallerOK, CallerType
<1>1. CallersOK'
  <2> DEFINE y == [caller[k] EXCEPT !.conn = 0]
  <2>1. caller' = [caller EXCEPT ![k] = y]
    BY DEF Server!Hangup, ServerInv, CallersOK
  <2>2. caller[k] \in CallerType /\ CallerOK(caller[k])
    BY DEF ServerInv, CallersOK
  <2>3. y \in CallerType /\ CallerOK(y)
    BY <2>2, <1>c DEF CallerType, CallerOK, Server!Kinds, Server!Hangup
  <2> QED BY <2>1, <2>3, CallerChanges DEF ServerInv
<1>2. ServerTypes'
  BY DEF Server!Hangup, ServerInv, ServerTypes, ServerBounds
<1>3. LinksOK' /\ StopInv' /\ AcceptInv' /\ QueueInv'
  <2> DEFINE x == [link[c] EXCEPT !.cli = "closed"]
  <2>1. Becomes(c, x)
    BY <1>c DEF Server!Hangup, Becomes, ServerInv, LinksOK
  <2>2. link[c] \in LinkType /\ LinkOK(link[c])
    BY <1>c DEF ServerInv, LinksOK
  <2>3. LinkOK(x) /\ Tame(c, x)
    BY <2>2, <1>c DEF Server!Hangup, LinkOK, LinkType, Server!Kinds, Runs, Tame
  <2> QED BY <2>1, <2>3, <1>c, LinkStep DEF Server!Hangup, ServerInv, ServerTypes
<1> QED BY <1>1, <1>2, <1>3 DEF ServerInv

(* A request goes to the server, or is lost with its end.                  *)
LEMMA SendKeeps ==
  ASSUME ServerBounds, ServerInv, NEW k \in Callers, Server!Send(k)
  PROVE  ServerInv'
<1> DEFINE c == caller[k].conn
<1>c. c \in Links /\ caller[k].kind \in Server!Kinds
  BY DEF Server!Send, ServerInv, CallersOK, CallerOK, CallerType
<1>t. /\ caller[k] \in CallerType /\ CallerOK(caller[k])
      /\ link[c] \in LinkType /\ LinkOK(link[c])
  BY <1>c DEF ServerInv, CallersOK, LinksOK
<1>1. CallersOK'
  <2>1. CASE caller[k].kind = "oneway"
    <3> DEFINE y == [caller[k] EXCEPT !.pc = "idle", !.kind = "none", !.tries = 0, !.conn = c]
    <3>1. caller' = [caller EXCEPT ![k] = y]
      BY <2>1 DEF Server!Send, Server!Returned, ServerInv, CallersOK
    <3>2. y \in CallerType /\ CallerOK(y)
      BY <1>t, <1>c DEF CallerType, CallerOK, Server!Kinds
    <3> QED BY <3>1, <3>2, CallerChanges DEF ServerInv
  <2>2. CASE caller[k].kind # "oneway"
    <3> DEFINE y == [caller[k] EXCEPT !.pc = "recv"]
    <3>1. caller' = [caller EXCEPT ![k] = y]
      BY <2>2 DEF Server!Send, ServerInv, CallersOK
    <3>2. y \in CallerType /\ CallerOK(y)
      BY <1>t, <1>c DEF CallerType, CallerOK, Server!Kinds
    <3> QED BY <3>1, <3>2, CallerChanges DEF ServerInv
  <2> QED BY <2>1, <2>2
<1>2. ServerTypes'
  BY DEF Server!Send, ServerInv, ServerTypes
<1>3. LinksOK' /\ StopInv' /\ AcceptInv' /\ QueueInv'
  <2>1. CASE link[c].srv = "closed"
    BY <2>1, StillLinked, StillStopping, StillAccepting, StillQueued DEF Server!Send, ServerInv
  <2>2. CASE link[c].srv # "closed"
    <3> DEFINE x == [link[c] EXCEPT !.req = Append(link[c].req, caller[k].kind)]
    <3>1. Becomes(c, x)
      BY <1>c, <2>2 DEF Server!Send, Becomes, ServerInv, LinksOK
    <3>2. Append(link[c].req, caller[k].kind) \in Seq(Server!Kinds)
      BY <1>c, <1>t DEF LinkType
    <3>3. LinkOK(x) /\ Tame(c, x)
      BY <1>t, <3>2 DEF LinkOK, LinkType, Runs, Tame
    <3> QED BY <1>c, <3>1, <3>3, LinkStep DEF Server!Send, ServerInv, ServerTypes
  <2> QED BY <2>1, <2>2
<1> QED BY <1>1, <1>2, <1>3 DEF ServerInv

(* The end of the stream: the caller dials once more, or returns.          *)
LEMMA RecvFailsKeeps ==
  ASSUME ServerBounds, ServerInv, NEW k \in Callers, Server!RecvFails(k)
  PROVE  ServerInv'
<1> DEFINE c == caller[k].conn
<1>c. c \in Links /\ caller[k].kind \in Server!Kinds
  BY DEF Server!RecvFails, ServerInv, CallersOK, CallerOK, CallerType
<1>t. caller[k] \in CallerType /\ CallerOK(caller[k])
  BY DEF ServerInv, CallersOK
<1>1. CallersOK'
  <2>1. CASE caller[k].tries = 0
    <3> DEFINE y == [caller[k] EXCEPT !.pc = "dial", !.conn = 0, !.tries = 1]
    <3>1. caller' = [caller EXCEPT ![k] = y]
      BY <2>1 DEF Server!RecvFails, ServerInv, CallersOK
    <3>2. y \in CallerType /\ CallerOK(y)
      BY <1>t, <1>c DEF CallerType, CallerOK, Server!Kinds
    <3> QED BY <3>1, <3>2, CallerChanges DEF ServerInv
  <2>2. CASE caller[k].tries # 0
    <3> DEFINE y == [caller[k] EXCEPT !.pc = "idle", !.kind = "none", !.tries = 0, !.conn = 0]
    <3>1. caller' = [caller EXCEPT ![k] = y]
      BY <2>2 DEF Server!RecvFails, Server!Returned, ServerInv, CallersOK
    <3>2. y \in CallerType /\ CallerOK(y)
      BY <1>t DEF CallerType, CallerOK, Server!Kinds
    <3> QED BY <3>1, <3>2, CallerChanges DEF ServerInv
  <2> QED BY <2>1, <2>2
<1>2. ServerTypes'
  BY DEF Server!RecvFails, ServerInv, ServerTypes
<1>3. LinksOK' /\ StopInv' /\ AcceptInv' /\ QueueInv'
  <2> DEFINE x == [link[c] EXCEPT !.cli = "closed"]
  <2>1. Becomes(c, x)
    BY <1>c DEF Server!RecvFails, Becomes, ServerInv, LinksOK
  <2>2. link[c] \in LinkType /\ LinkOK(link[c])
    BY <1>c DEF ServerInv, LinksOK
  <2>3. LinkOK(x) /\ Tame(c, x)
    BY <2>2 DEF LinkOK, LinkType, Runs, Tame
  <2> QED BY <1>c, <2>1, <2>3, LinkStep DEF Server!RecvFails, ServerInv, ServerTypes
<1> QED BY <1>1, <1>2, <1>3 DEF ServerInv

-----------------------------------------------------------------------------
(* The accepting goroutine *)

(* It takes the first connection in the queue, and has had none.           *)
LEMMA AcceptConnKeeps ==
  ASSUME ServerBounds, ServerInv, Server!AcceptConn
  PROVE  ServerInv'
<1> DEFINE c == Head(backlog)
           x == [link[c] EXCEPT !.srv = "accepted"]
<1>1. /\ c \in Links /\ Tail(backlog) \in Seq(Links)
      /\ Members(Tail(backlog)) \subseteq Members(backlog) /\ c \in Members(backlog)
      /\ NoRepeats(Tail(backlog)) /\ c \notin Members(Tail(backlog))
      /\ link[c].srv = "queued"
  BY TailOfList DEF Server!AcceptConn, ServerInv, ServerTypes, QueueInv
<1>2. Becomes(c, x)
  BY <1>1 DEF Server!AcceptConn, Becomes, ServerInv, LinksOK
<1>3. link[c] \in LinkType /\ LinkOK(link[c])
  BY <1>1 DEF ServerInv, LinksOK
<1>4. /\ LinkOK(x) /\ x.srv = "accepted" /\ x.closer = link[c].closer
      /\ x.serving = link[c].serving
  BY <1>1, <1>3 DEF LinkOK, LinkType, Runs
<1> HIDE DEF x
<1>5. /\ LinksOK' /\ link'[c] = x
      /\ \A d \in Links \ {c} :
           link'[d] = link[d] \/ (link'[d] = Server!Unused /\ link[d].srv = "closed")
  BY <1>1, <1>2, <1>4, Changing DEF ServerInv
<1>6. CallersOK' /\ ServerTypes'
  BY <1>1, StillCalling DEF Server!AcceptConn, ServerInv, ServerTypes
<1>7. StopInv'
  <2>1. \A d \in Links : /\ Runs(link'[d]) => Runs(link[d])
                         /\ link'[d].closer = "wait" => link[d].closer = "wait"
    BY <1>4, <1>5 DEF Runs, Server!Unused
  <2> QED BY <2>1 DEF Server!AcceptConn, ServerInv, StopInv
<1>8. AcceptInv'
  <2> HIDE DEF c
  <2>1. accept' = [pc |-> "lock", conn |-> c] /\ accept.conn = 0
    BY DEF Server!AcceptConn, ServerInv, AcceptInv, c
  <2>2. \A d \in Links \ {c} : link'[d].srv # "accepted"
    BY <1>5, <2>1 DEF ServerInv, AcceptInv, ServerBounds, Server!Unused
  <2> QED BY <1>1, <2>1, <2>2 DEF AcceptInv
<1>9. QueueInv'
  <2> HIDE DEF c
  <2>1. accept' = [pc |-> "lock", conn |-> c] /\ backlog' = Tail(backlog)
    BY DEF Server!AcceptConn, c
  <2>2. \A d \in Members(Tail(backlog)) : d \in Links \ {c} /\ link[d].srv = "queued"
    <3>1. Members(backlog) \subseteq Links
      BY DEF ServerInv, ServerTypes, Members
    <3> QED BY <1>1, <3>1 DEF ServerInv, QueueInv
  <2>3. Members(backlog)' = Members(Tail(backlog)) /\ NoRepeats(backlog)'
    BY <1>1, <2>1
  <2> QED BY <1>4, <1>5, <2>1, <2>2, <2>3 DEF QueueInv
<1> QED BY <1>5, <1>6, <1>7, <1>8, <1>9 DEF ServerInv

(* Accept fails: nothing was accepted.                                     *)
LEMMA AcceptErrsKeeps ==
  ASSUME ServerBounds, ServerInv, Server!AcceptInterrupted \/ Server!AcceptFails
  PROVE  ServerInv'
<1>1. CallersOK' /\ LinksOK' /\ StopInv'
  BY StillCalling, StillLinked, StillStopping
     DEF Server!AcceptInterrupted, Server!AcceptFails, ServerInv
<1>2. ServerTypes'
  BY DEF Server!AcceptInterrupted, Server!AcceptFails, ServerInv, ServerTypes, ServerBounds
<1>3. AcceptInv'
  BY DEF Server!AcceptInterrupted, Server!AcceptFails, ServerInv, AcceptInv
<1>4. QueueInv'
  BY DEF Server!AcceptInterrupted, Server!AcceptFails, ServerInv, AcceptInv, QueueInv, NoRepeats,
         Members
<1> QED BY <1>1, <1>2, <1>3, <1>4 DEF ServerInv

(* A connection is served only while the server is not closed, and with    *)
(* both goroutines; none is served once Stop has returned.                 *)
LEMMA AcceptLockedKeeps ==
  ASSUME ServerBounds, ServerInv, Server!AcceptLocked
  PROVE  ServerInv'
<1>1. CallersOK' /\ ServerTypes'
  BY StillCalling DEF Server!AcceptLocked, ServerInv, ServerTypes
<1>2. CASE closed \/ accept.conn = 0
  <2>1. link' = link /\ accept' = [accept EXCEPT !.pc = "ended"]
    BY <1>2 DEF Server!AcceptLocked
  <2>2. LinksOK' /\ StopInv'
    BY <2>1, StillLinked, StillStopping DEF Server!AcceptLocked, ServerInv
  <2>3. AcceptInv'
    BY <1>2, <2>1 DEF Server!AcceptLocked, ServerInv, AcceptInv
  <2>4. QueueInv'
    BY <2>1 DEF Server!AcceptLocked, ServerInv, AcceptInv, QueueInv, NoRepeats, Members
  <2> QED BY <1>1, <2>2, <2>3, <2>4 DEF ServerInv
<1>3. CASE ~closed /\ accept.conn # 0
  <2> DEFINE c == accept.conn
             x == [link[c] EXCEPT !.srv = "open", !.serving = "check", !.closer = "wait"]
  <2>1. c \in Links
    BY <1>3 DEF ServerInv, AcceptInv
  <2>2. /\ Becomes(c, x) /\ accept' = [pc |-> "accept", conn |-> 0]
        /\ closed' = closed /\ mu' = mu /\ stop' = stop
    BY <1>3, <2>1 DEF Server!AcceptLocked, Becomes, ServerInv, LinksOK
  <2>3. link[c] \in LinkType /\ LinkOK(link[c]) /\ link[c].srv = "accepted"
    BY <1>3, <2>1 DEF ServerInv, LinksOK, QueueInv, Server!AcceptLocked
  <2>4. x \in LinkType /\ x.srv = "open"
    BY <2>3 DEF LinkType
  <2>5. LinkOK(x)
    BY <2>3, <2>4 DEF LinkOK, LinkType, Runs
  <2> HIDE DEF x
  <2>6. /\ LinksOK'
        /\ link'[c] = x
        /\ \A d \in Links \ {c} :
             link'[d] = link[d] \/ (link'[d] = Server!Unused /\ link[d].srv = "closed")
    BY <2>1, <2>2, <2>4, <2>5, Changing DEF ServerInv
  <2>7. StopInv'
    BY <1>3, <2>2 DEF ServerInv, StopInv
  <2>8. AcceptInv'
    BY <2>1, <2>2, <2>4, <2>6 DEF ServerInv, AcceptInv, Server!Unused
  <2>9. QueueInv'
    <3>1. backlog' = backlog /\ Members(backlog)' = Members(backlog)
      BY DEF Server!AcceptLocked, Members
    <3>2. \A d \in Members(backlog) : d \in Links \ {c} /\ link[d].srv = "queued"
      BY <2>3 DEF ServerInv, ServerTypes, QueueInv, Members
    <3> QED BY <2>2, <2>6, <3>1, <3>2 DEF ServerInv, QueueInv, NoRepeats
  <2> QED BY <1>1, <2>6, <2>7, <2>8, <2>9 DEF ServerInv
<1> QED BY <1>2, <1>3

-----------------------------------------------------------------------------
(* The goroutines of a connection *)

(* It looks at closed, and ends or reads on.                               *)
LEMMA CheckClosedKeeps ==
  ASSUME ServerBounds, ServerInv, NEW c \in Links, Server!CheckClosed(c)
  PROVE  ServerInv'
<1>1. CallersOK' /\ ServerTypes'
  BY StillCalling DEF Server!CheckClosed, ServerInv, ServerTypes
<1>2. link[c] \in LinkType /\ LinkOK(link[c])
  BY DEF ServerInv, LinksOK
<1>3. LinksOK' /\ StopInv' /\ AcceptInv' /\ QueueInv'
  <2>1. CASE closed
    <3> DEFINE x == [link[c] EXCEPT !.serving = "ended", !.srv = "closed", !.now = "none"]
    <3>1. Becomes(c, x)
      BY <2>1 DEF Server!CheckClosed, Server!Ended, Becomes, ServerInv, LinksOK
    <3>2. LinkOK(x) /\ Tame(c, x)
      BY <2>1, <1>2 DEF Server!CheckClosed, LinkOK, LinkType, Server!Kinds, Runs, Tame
    <3> QED BY <3>1, <3>2, LinkStep DEF Server!CheckClosed, ServerInv, ServerTypes
  <2>2. CASE ~closed
    <3> DEFINE x == [link[c] EXCEPT !.serving = "read"]
    <3>1. Becomes(c, x)
      BY <2>2 DEF Server!CheckClosed, Server!Ended, Becomes, ServerInv, LinksOK
    <3>2. LinkOK(x) /\ Tame(c, x)
      BY <2>2, <1>2 DEF Server!CheckClosed, LinkOK, LinkType, Server!Kinds, Runs, Tame
    <3> QED BY <3>1, <3>2, LinkStep DEF Server!CheckClosed, ServerInv, ServerTypes
  <2> QED BY <2>1, <2>2 DEF Server!CheckClosed
<1> QED BY <1>1, <1>3 DEF ServerInv

(* A request is read: it is answered, ends the loop, or is handled.        *)
LEMMA ReadKeeps ==
  ASSUME ServerBounds, ServerInv, NEW c \in Links, NEW outcome \in Server!Outcomes,
         Server!Read(c, outcome)
  PROVE  ServerInv'
<1>1. CallersOK' /\ ServerTypes'
  BY StillCalling DEF Server!Read, ServerInv, ServerTypes
<1>2. link[c] \in LinkType /\ LinkOK(link[c])
  BY DEF ServerInv, LinksOK
<1>r. Tail(link[c].req) \in Seq(Server!Kinds) /\ Head(link[c].req) \in Server!Kinds
  <2>1. link[c].req \in Seq(Server!Kinds) /\ link[c].req # <<>>
    BY <1>2 DEF Server!Read, LinkType
  <2> QED BY <2>1
<1>3. LinksOK' /\ StopInv' /\ AcceptInv' /\ QueueInv'
  <2>1. CASE outcome = "unknown method"
    <3> DEFINE x == [link[c] EXCEPT !.req = Tail(link[c].req), !.rep = 1, !.serving = "check"]
    <3>1. Becomes(c, x)
      BY <2>1 DEF Server!Read, Server!Ended, Becomes, ServerInv, LinksOK
    <3>2. LinkOK(x) /\ Tame(c, x)
      BY <2>1, <1>2, <1>r DEF Server!Read, LinkOK, LinkType, Server!Kinds, Runs, Tame
    <3> QED BY <3>1, <3>2, LinkStep DEF Server!Read, ServerInv, ServerTypes
  <2>2. CASE outcome = "unknown service"
    <3> DEFINE x == [link[c] EXCEPT !.serving = "ended", !.srv = "closed", !.now = "none"]
    <3>1. Becomes(c, x)
      BY <2>2 DEF Server!Read, Server!Ended, Becomes, ServerInv, LinksOK
    <3>2. LinkOK(x) /\ Tame(c, x)
      BY <2>2, <1>2, <1>r DEF Server!Read, LinkOK, LinkType, Server!Kinds, Runs, Tame
    <3> QED BY <3>1, <3>2, LinkStep DEF Server!Read, ServerInv, ServerTypes
  <2>3. CASE outcome = "abandoned"
    <3> DEFINE x == [link[c] EXCEPT !.req = Tail(link[c].req), !.now = outcome,
                                    !.serving = "handler"]
    <3>1. Becomes(c, x)
      BY <2>3 DEF Server!Read, Server!Ended, Becomes, ServerInv, LinksOK
    <3>2. LinkOK(x) /\ Tame(c, x)
      BY <2>3, <1>2, <1>r DEF Server!Read, LinkOK, LinkType, Server!Kinds, Runs, Tame
    <3> QED BY <3>1, <3>2, LinkStep DEF Server!Read, ServerInv, ServerTypes
  <2>4. CASE outcome = "handled"
    <3> DEFINE x == [link[c] EXCEPT !.req = Tail(link[c].req), !.now = Head(link[c].req),
                                    !.serving = "handler"]
    <3>1. Becomes(c, x)
      BY <2>4 DEF Server!Read, Server!Ended, Becomes, ServerInv, LinksOK
    <3>2. LinkOK(x) /\ Tame(c, x)
      BY <2>4, <1>2, <1>r DEF Server!Read, LinkOK, LinkType, Server!Kinds, Runs, Tame
    <3> QED BY <3>1, <3>2, LinkStep DEF Server!Read, ServerInv, ServerTypes
  <2> QED BY <2>1, <2>2, <2>3, <2>4 DEF Server!Outcomes
<1> QED BY <1>1, <1>3 DEF ServerInv

(* The client has gone.                                                    *)
LEMMA ReadFailsKeeps ==
  ASSUME ServerBounds, ServerInv, NEW c \in Links, Server!ReadFails(c)
  PROVE  ServerInv'
<1>1. CallersOK' /\ ServerTypes'
  BY StillCalling DEF Server!ReadFails, ServerInv, ServerTypes
<1>2. link[c] \in LinkType /\ LinkOK(link[c])
  BY DEF ServerInv, LinksOK
<1>3. LinksOK' /\ StopInv' /\ AcceptInv' /\ QueueInv'
  <2> DEFINE x == [link[c] EXCEPT !.serving = "ended", !.srv = "closed", !.now = "none"]
  <2>1. Becomes(c, x)
    BY DEF Server!ReadFails, Server!Ended, Becomes, ServerInv, LinksOK
  <2>2. LinkOK(x) /\ Tame(c, x)
    BY <1>2 DEF Server!ReadFails, LinkOK, LinkType, Server!Kinds, Runs, Tame
  <2> QED BY <2>1, <2>2, LinkStep DEF Server!ReadFails, ServerInv, ServerTypes
<1> QED BY <1>1, <1>3 DEF ServerInv

(* The reply is written or not; the loop goes on or ends.                  *)
LEMMA HandlerReturnsKeeps ==
  ASSUME ServerBounds, ServerInv, NEW c \in Links, Server!HandlerReturns(c)
  PROVE  ServerInv'
<1>1. CallersOK' /\ ServerTypes'
  BY StillCalling DEF Server!HandlerReturns, ServerInv, ServerTypes
<1>2. link[c] \in LinkType /\ LinkOK(link[c])
  BY DEF ServerInv, LinksOK
<1>3. LinksOK' /\ StopInv' /\ AcceptInv' /\ QueueInv'
  <2>1. CASE link[c].now = "call" /\ link[c].srv = "open" /\ link[c].cli = "open"
    <3> DEFINE x == [link[c] EXCEPT !.now = "none", !.serving = "check", !.rep = 1]
    <3>1. Becomes(c, x)
      BY <2>1 DEF Server!HandlerReturns, Server!Ended, Becomes, ServerInv, LinksOK
    <3>2. LinkOK(x) /\ Tame(c, x)
      BY <2>1, <1>2 DEF Server!HandlerReturns, LinkOK, LinkType, Server!Kinds, Runs, Tame
    <3> QED BY <3>1, <3>2, LinkStep DEF Server!HandlerReturns, ServerInv, ServerTypes
  <2>2. CASE link[c].now = "oneway"
    <3> DEFINE x == [link[c] EXCEPT !.now = "none", !.serving = "check", !.rep = link[c].rep]
    <3>1. Becomes(c, x)
      BY <2>2 DEF Server!HandlerReturns, Server!Ended, Becomes, ServerInv, LinksOK
    <3>2. LinkOK(x) /\ Tame(c, x)
      BY <2>2, <1>2 DEF Server!HandlerReturns, LinkOK, LinkType, Server!Kinds, Runs, Tame
    <3> QED BY <3>1, <3>2, LinkStep DEF Server!HandlerReturns, ServerInv, ServerTypes
  <2>3. CASE /\ ~(link[c].now = "call" /\ link[c].srv = "open" /\ link[c].cli = "open")
             /\ link[c].now # "oneway"
    <3> DEFINE x == [link[c] EXCEPT !.serving = "ended", !.srv = "closed", !.now = "none"]
    <3>1. Becomes(c, x)
      BY <2>3 DEF Server!HandlerReturns, Server!Ended, Becomes, ServerInv, LinksOK
    <3>2. LinkOK(x) /\ Tame(c, x)
      BY <2>3, <1>2 DEF Server!HandlerReturns, LinkOK, LinkType, Server!Kinds, Runs, Tame
    <3> QED BY <3>1, <3>2, LinkStep DEF Server!HandlerReturns, ServerInv, ServerTypes
  <2> QED BY <2>1, <2>2, <2>3 DEF Server!HandlerReturns
<1> QED BY <1>1, <1>3 DEF ServerInv

(* The second goroutine ends, and closes what is still open.               *)
LEMMA CloserEndsKeeps ==
  ASSUME ServerBounds, ServerInv, NEW c \in Links, Server!CloserEnds(c)
  PROVE  ServerInv'
<1>1. CallersOK' /\ ServerTypes'
  BY StillCalling DEF Server!CloserEnds, ServerInv, ServerTypes
<1>2. link[c] \in LinkType /\ LinkOK(link[c])
  BY DEF ServerInv, LinksOK
<1>3. LinksOK' /\ StopInv' /\ AcceptInv' /\ QueueInv'
  <2>1. CASE link' = Server!Settle([link EXCEPT ![c].closer = "ended"]) /\ link[c].serving = "ended"
    <3> DEFINE x == [link[c] EXCEPT !.closer = "ended"]
    <3>1. Becomes(c, x)
      BY <2>1 DEF Server!CloserEnds, Server!Ended, Becomes, ServerInv, LinksOK
    <3>2. LinkOK(x) /\ Tame(c, x)
      BY <2>1, <1>2 DEF Server!CloserEnds, LinkOK, LinkType, Server!Kinds, Runs, Tame
    <3> QED BY <3>1, <3>2, LinkStep DEF Server!CloserEnds, ServerInv, ServerTypes
  <2>2. CASE link' = Server!Settle([link EXCEPT ![c].closer = "ended", ![c].srv = "closed"])
    <3> DEFINE x == [link[c] EXCEPT !.closer = "ended", !.srv = "closed"]
    <3>1. Becomes(c, x)
      BY <2>2 DEF Server!CloserEnds, Server!Ended, Becomes, ServerInv, LinksOK
    <3>2. LinkOK(x) /\ Tame(c, x)
      BY <2>2, <1>2 DEF Server!CloserEnds, LinkOK, LinkType, Server!Kinds, Runs, Tame
    <3> QED BY <3>1, <3>2, LinkStep DEF Server!CloserEnds, ServerInv, ServerTypes
  <2> QED BY <2>1, <2>2 DEF Server!CloserEnds
<1> QED BY <1>1, <1>3 DEF ServerInv

-----------------------------------------------------------------------------
(* Stop *)

(* Stop closes the server; whoever comes later waits for the mutex.        *)
LEMMA StopStartKeeps ==
  ASSUME ServerBounds, ServerInv, NEW s \in Stoppers, Server!StopStart(s)
  PROVE  ServerInv'
<1>1. CallersOK' /\ ServerTypes' /\ LinksOK' /\ QueueInv'
  BY StillCalling, StillLinked, StillQueued DEF Server!StopStart, ServerInv, ServerTypes
<1>2. StopInv'
  <2>1. CASE closed
    BY <2>1 DEF Server!StopStart, ServerInv, StopInv, Runs
  <2>2. CASE ~closed
    BY <2>2 DEF Server!StopStart, ServerInv, StopInv, ServerBounds, Runs
  <2> QED BY <2>1, <2>2
<1>3. AcceptInv'
  BY DEF Server!StopStart, ServerInv, StopInv, AcceptInv
<1> QED BY <1>1, <1>2, <1>3 DEF ServerInv

(* Connections that wait to be accepted are reset.                         *)
LEMMA StopInterruptKeeps ==
  ASSUME ServerBounds, ServerInv, NEW s \in Stoppers, Server!StopInterrupt(s)
  PROVE  ServerInv'
<1> DEFINE f == [c \in Links |-> IF link[c].srv = "queued" THEN [link[c] EXCEPT !.srv = "closed"]
                                 ELSE link[c]]
<1>1. /\ link' = Server!Settle(f) /\ stop' = [stop EXCEPT ![s] = "wait"] /\ backlog' = <<>>
      /\ stop[s] = "interrupt"
  BY DEF Server!StopInterrupt
<1>2. CallersOK' /\ ServerTypes'
  BY StillCalling DEF Server!StopInterrupt, ServerInv, ServerTypes
<1>3. ASSUME NEW c \in Links
      PROVE  /\ f[c] \in LinkType /\ LinkOK(f[c])
             /\ Runs(f[c]) => Runs(link[c])
             /\ f[c].closer = link[c].closer
             /\ f[c].srv = "accepted" <=> link[c].srv = "accepted"
  <2>1. link[c] \in LinkType /\ LinkOK(link[c])
    BY DEF ServerInv, LinksOK
  <2> QED BY <2>1 DEF LinkOK, LinkType, Runs
<1> HIDE DEF f
<1>4. LinkOK(Server!Unused)
  BY DEF LinkOK, LinkType, Server!Unused, Server!Kinds
<1>5. \A c \in Links : link'[c] = f[c] \/ (link'[c] = Server!Unused /\ f[c].srv = "closed")
  BY <1>1 DEF Server!Settle, Server!Gone
<1>6. LinksOK'
  <2>1. \A c \in Links : LinkOK(link'[c])
    BY <1>3, <1>4, <1>5
  <2>2. link' = [c \in Links |-> link'[c]]
    BY <1>1 DEF Server!Settle
  <2>3. \A c \in Links : link'[c] \in LinkType
    BY <2>1 DEF LinkOK
  <2>4. link' \in [Links -> LinkType]
    BY <2>2, <2>3
  <2> QED BY <2>1, <2>4 DEF LinksOK, LinkOK
<1>7. \A c \in Links : /\ Runs(link'[c]) => Runs(link[c])
                       /\ link'[c].closer = "wait" => link[c].closer = "wait"
                       /\ link'[c].srv = "accepted" => link[c].srv = "accepted"
                       /\ link[c].srv = "accepted" => link'[c].srv = "accepted"
  BY <1>3, <1>5 DEF Runs, Server!Unused
<1>8. StopInv'
  BY <1>1, <1>7 DEF Server!StopInterrupt, ServerInv, StopInv
<1>9. AcceptInv'
  BY <1>7 DEF Server!StopInterrupt, ServerInv, AcceptInv
<1>10. QueueInv'
  <2>1. NoRepeats(backlog)' /\ Members(backlog)' = {}
    BY <1>1 DEF NoRepeats, Members
  <2>2. accept' = accept
    BY DEF Server!StopInterrupt
  <2>3. accept.conn # 0 => accept.conn \in Links
    BY DEF ServerInv, AcceptInv
  <2> QED BY <1>7, <2>1, <2>2, <2>3 DEF ServerInv, QueueInv
<1> QED BY <1>2, <1>6, <1>8, <1>9, <1>10 DEF ServerInv

(* Stop has waited, and tells those that still run.                        *)
LEMMA StopWaitsKeeps ==
  ASSUME ServerBounds, ServerInv, NEW s \in Stoppers,
         Server!StopWait(s) \/ Server!StopCloseChan(s)
  PROVE  ServerInv'
<1>1. CallersOK' /\ ServerTypes' /\ LinksOK' /\ QueueInv' /\ AcceptInv'
  BY StillCalling, StillLinked, StillQueued, StillAccepting
     DEF Server!StopWait, Server!StopCloseChan, ServerInv, ServerTypes
<1>2. StopInv'
  <2>1. PICK p \in {"close chan", "join"} : stop' = [stop EXCEPT ![s] = p]
    BY DEF Server!StopWait, Server!StopCloseChan
  <2>2. stop[s] \in {"wait", "close chan"} /\ closed' = closed /\ mu' = mu /\ link' = link
    BY DEF Server!StopWait, Server!StopCloseChan
  <2> QED BY <2>1, <2>2 DEF ServerInv, StopInv, Runs
<1> QED BY <1>1, <1>2 DEF ServerInv

(* FiniteSets of the server's module is the one of this module.            *)
LEMMA SameCardinality == ASSUME NEW S PROVE Server!Cardinality(S) = Cardinality(S)
BY DEF Cardinality, Server!Cardinality

(* wg is 0 only if no goroutine of a connection is left.                   *)
LEMMA NobodyLeft ==
  ASSUME ServerBounds, Server!wg = 0
  PROVE  \A c \in Links : ~Server!Live(c) /\ ~Server!Watched(c)
<1> DEFINE L == {c \in Links : Server!Live(c)}
           W == {c \in Links : Server!Watched(c)}
<1>1. IsFiniteSet(L) /\ IsFiniteSet(W)
  BY FS_Subset DEF ServerBounds
<1>2. Cardinality(L) \in Nat /\ Cardinality(W) \in Nat
  BY <1>1, FS_CardinalityType
<1>w. Cardinality(L) + Cardinality(W) = 0
  BY SameCardinality DEF Server!wg
<1> HIDE DEF L, W
<1>3. Cardinality(L) = 0 /\ Cardinality(W) = 0
  BY <1>2, <1>w
<1>4. L = {} /\ W = {}
  BY <1>1, <1>3, FS_EmptySet
<1> QED BY <1>4 DEF L, W

(* Stop gives the mutex back when all goroutines of connections have gone. *)
LEMMA StopJoinKeeps ==
  ASSUME ServerBounds, ServerInv, NEW s \in Stoppers, Server!StopJoin(s)
  PROVE  ServerInv'
<1>1. CallersOK' /\ ServerTypes' /\ LinksOK' /\ QueueInv' /\ AcceptInv'
  BY StillCalling, StillLinked, StillQueued, StillAccepting
     DEF Server!StopJoin, ServerInv, ServerTypes
<1>2. \A c \in Links : ~Runs(link[c]) /\ link[c].closer # "wait"
  BY NobodyLeft DEF Server!StopJoin, Server!Joined, Server!Live, Server!Watched, Runs
<1>3. /\ stop' = [stop EXCEPT ![s] = "done"] /\ closed' = closed /\ mu' = "free" /\ link' = link
      /\ mu = s
  BY DEF Server!StopJoin, ServerInv, StopInv
<1>4. \A t \in Stoppers \ {s} : stop'[t] = stop[t] /\ stop[t] \in {"idle", "done"}
  BY <1>3 DEF ServerInv, StopInv
<1>5. closed /\ stop'[s] = "done"
  BY <1>3 DEF Server!StopJoin, ServerInv, StopInv
<1>6. StopInv'
  BY <1>2, <1>3, <1>4, <1>5 DEF ServerInv, StopInv, Runs
<1> QED BY <1>1, <1>6 DEF ServerInv

-----------------------------------------------------------------------------
(* All of it together *)

(* It holds on while nothing happens,                                      *)
LEMMA ServerStutters == ServerInv /\ UNCHANGED Server!vars => ServerInv'
BY StillCalling, StillLinked, StillStopping, StillAccepting, StillQueued
   DEF Server!vars, ServerInv, ServerTypes

(* after every step of the server and its clients,                         *)
LEMMA ServerSteps == ServerBounds /\ ServerInv /\ [Server!Next]_(Server!vars) => ServerInv'
<1> SUFFICES ASSUME ServerBounds, ServerInv, [Server!Next]_(Server!vars) PROVE ServerInv'
  OBVIOUS
<1>1. ASSUME NEW k \in Callers,
             Server!CallerStep(k) \/ Server!Hangup(k)
             \/ \E kind \in Server!Kinds : Server!Do(k, kind)
      PROVE  ServerInv'
  BY <1>1, CallKeeps, DialKeeps, DialFailsKeeps, SendKeeps, RecvKeeps, RecvFailsKeeps, HangupKeeps
     DEF Server!CallerStep
<1>2. CASE Server!AcceptStep \/ Server!AcceptFails
  BY <1>2, AcceptConnKeeps, AcceptErrsKeeps, AcceptLockedKeeps DEF Server!AcceptStep
<1>3. ASSUME NEW c \in Links, Server!ConnStep(c) \/ Server!CloserEnds(c)
      PROVE  ServerInv'
  BY <1>3, CheckClosedKeeps, ReadKeeps, ReadFailsKeeps, HandlerReturnsKeeps, CloserEndsKeeps
     DEF Server!ConnStep
<1>4. ASSUME NEW s \in Stoppers, Server!StopStart(s) \/ Server!StopStep(s)
      PROVE  ServerInv'
  BY <1>4, StopStartKeeps, StopInterruptKeeps, StopWaitsKeeps, StopJoinKeeps DEF Server!StopStep
<1> QED BY <1>1, <1>2, <1>3, <1>4, ServerStutters DEF Server!Next

(* and so in every behaviour.                                              *)
LEMMA ServerInvariance == ASSUME ServerBounds PROVE Server!Spec => []ServerInv
<1>1. Server!Init => ServerInv
  BY ServerInit
<1>2. ServerInv /\ [Server!Next]_(Server!vars) => ServerInv'
  BY ServerSteps
<1> QED BY <1>1, <1>2, PTL DEF Server!Spec

(* TSimpleServer and its clients: types.                                   *)
THEOREM ServerTypeCorrect == ASSUME ServerBounds PROVE Server!Spec => []Server!TypeOK
<1>1. ServerInv => Server!TypeOK
  BY ServerInvTyped
<1> QED BY <1>1, ServerInvariance, PTL

(* When Stop has returned no request is handled and no goroutine of a      *)
(* connection is left, for any number of clients, connections, stoppers    *)
(* and calls, with and without a timeout.                                  *)
THEOREM StoppedForGood == ASSUME ServerBounds PROVE Server!Spec => []NothingAfterStop
<1>1. ServerInv => NothingAfterStop
  <2> SUFFICES ASSUME ServerInv, NEW s \in Stoppers, stop[s] = "done"
               PROVE  Server!wg = 0 /\ \A c \in Links : link[c].now = "none"
    BY DEF NothingAfterStop, Server!NothingAfterStop
  <2>1. \A c \in Links : ~Runs(link[c]) /\ link[c].closer # "wait"
    BY DEF ServerInv, StopInv
  <2>2. \A c \in Links : link[c].now = "none"
    BY <2>1 DEF ServerInv, LinksOK, LinkOK, Runs
  <2>3. {c \in Links : Server!Live(c)} = {} /\ {c \in Links : Server!Watched(c)} = {}
    BY <2>1 DEF Server!Live, Server!Watched, Runs
  <2>4. Cardinality({}) = 0
    BY FS_EmptySet
  <2>5. Server!wg = 0
    BY <2>3, <2>4, SameCardinality DEF Server!wg
  <2> QED BY <2>2, <2>5
<1> QED BY <1>1, ServerInvariance, PTL

(* A connection that was accepted has its goroutines or is in the hands of *)
(* the accepting one, and only a server that stops forgets one.            *)
THEOREM AcceptedServed == ASSUME ServerBounds PROVE Server!Spec => []AcceptedIsServed
<1>1. ServerInv => AcceptedIsServed
  <2> SUFFICES ASSUME ServerInv PROVE AcceptedIsServed
    OBVIOUS
  <2>1. ASSUME NEW c \in Links, link[c].srv = "open"
        PROVE  Server!Live(c) /\ Server!Watched(c)
    BY <2>1 DEF ServerInv, LinksOK, LinkOK, Runs, Server!Live, Server!Watched
  <2>2. ASSUME NEW c \in Links, link[c].srv = "accepted" PROVE accept.conn = c
    BY <2>2 DEF ServerInv, AcceptInv
  <2>3. ASSUME NEW c \in Links, Server!Forgotten(c) PROVE closed
    BY <2>3 DEF ServerBounds, ServerInv, AcceptInv, Server!Forgotten
  <2> QED BY <2>1, <2>2, <2>3 DEF AcceptedIsServed, Server!AcceptedIsServed
<1> QED BY <1>1, ServerInvariance, PTL
=============================================================================
