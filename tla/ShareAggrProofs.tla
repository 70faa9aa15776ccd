--------------------------- MODULE ShareAggrProofs ---------------------------
(***************************************************************************)
(* Theorems about ShareAggr for any number of messages, consumers, heights *)
(* and faults: the types, that an acknowledged share is lost only when     *)
(* redis lets its record expire, and that every share is counted once as   *)
(* long as nothing fails.                                                  *)
(***************************************************************************)
EXTENDS ShareAggr, TLAPS

LEMMA NextCases ==
  ASSUME Next
  PROVE  \/ NewBlock \/ \E m \in Messages : Publish(m)
         \/ \E c \in Consumers, m \in Messages : Take(c, m)
         \/ \E c \in Consumers : Ack(c) \/ AckFails(c) \/ ConnectionLost(c)
         \/ \E c \in Consumers : HandlerFails(c)
         \/ \E c \in Consumers, e \in Edges : AddPart(c, e)
         \/ CommitBegin \/ CommitRecord \/ DeleteKey \/ CommitEnd
         \/ \E h \in Heights : CommitKey(h) \/ Filler(h)
         \/ \E h \in Heights : KeyGone(h) \/ Expire(h)
         \/ \E u \in Users : AddToRow(u) \/ CreateRow(u)
         \/ RedisFails \/ DatabaseFails \/ Crash
         \/ \E h \in Heights, u \in Users : CreateFails(h, u)
  BY DEF Next, Consume, CommitStep

-----------------------------------------------------------------------------
(* Types *)

(* A part of a message has a height and is counted for an account. *)
LEMMA PartType ==
  ASSUME NEW q \in Parts
  PROVE  Height(q) \in Heights /\ Worker(q) \in Users
  BY ConstantsAssumption DEF Parts, Height, Worker

(* A consumer that is at work has a message. *)
LEMMA BusyHasMessage ==
  ASSUME TypeOK, NEW c \in Consumers
  PROVE  /\ work[c] # Free => work[c].msg \in Messages
         /\ work[c].todo # {} => work[c] # Free
  BY DEF TypeOK, WorkType, Free

LEMMA PlusType ==
  ASSUME NEW p \in [Parts -> Nat], NEW r \in [Parts -> Nat]
  PROVE  Plus(p, r) \in [Parts -> Nat] /\ \A q \in Parts : Plus(p, r)[q] = p[q] + r[q]
  BY DEF Plus

LEMMA PlusUserType ==
  ASSUME TypeOK, NEW p \in [Parts -> Nat], NEW u
  PROVE  /\ PlusUser(p, u) \in [Parts -> Nat]
         /\ \A q \in Parts :
              PlusUser(p, u)[q] =
                IF Height(q) = commit.cur /\ Worker(q) = u THEN p[q] + redis[q] ELSE p[q]
  BY DEF PlusUser, TypeOK

LEMMA WithoutType ==
  ASSUME TypeOK, NEW h
  PROVE  Without(h) \in [Parts -> Nat]
  BY DEF Without, TypeOK

(* Adding a part to redis takes nothing away. *)
LEMMA AddedType ==
  ASSUME TypeOK, NEW c \in Consumers, NEW e \in Edges, work[c] # Free
  PROVE  /\ Added(c, e) \in [Parts -> Nat]
         /\ \A q \in Parts : Added(c, e)[q] >= redis[q]
         /\ Added(c, e)[<<work[c].msg, e>>] > 0
  <1>1. <<work[c].msg, e>> \in Parts
    BY BusyHasMessage DEF Parts
  <1>2. QED
    BY <1>1 DEF Added, TypeOK

LEMMA AsleepType == Asleep \in CommitType /\ Asleep.pc = "idle"
  BY DEF Asleep, CommitType

LEMMA ZeroType == Zero \in [Parts -> Nat]
  BY DEF Zero

LEMMA FreeType == Free \in WorkType
  BY DEF Free, WorkType

LEMMA TypeInit == Init => TypeOK
  <1> SUFFICES ASSUME Init PROVE TypeOK
    OBVIOUS
  <1>1. tip \in 0 .. MaxHeight /\ faults \in 0 .. MaxFaults
    BY ConstantsAssumption DEF Init
  <1>2. work \in [Consumers -> WorkType]
        /\ \A c \in Consumers : work[c].msg = NoMessage => work[c] = Free
    BY FreeType DEF Init
  <1>3. QED
    BY <1>1, <1>2, AsleepType, ZeroType DEF Init, TypeOK

LEMMA TypeStep == TypeOK /\ [Next]_vars => TypeOK'
  <1> SUFFICES ASSUME TypeOK, [Next]_vars PROVE TypeOK'
    OBVIOUS
  <1> USE DEF TypeOK, broker, process, stores
  <1>1. CASE NewBlock
    BY <1>1, ConstantsAssumption DEF NewBlock
  <1>2. ASSUME NEW m \in Messages, Publish(m) PROVE TypeOK'
    BY <1>2 DEF Publish
  <1>3. ASSUME NEW c \in Consumers, NEW m \in Messages, Take(c, m) PROVE TypeOK'
    <2>1. [msg |-> m, todo |-> Edges, broken |-> FALSE] \in WorkType
      BY DEF WorkType
    <2>2. m # NoMessage
      BY ConstantsAssumption
    <2>3. QED
      BY <1>3, <2>1, <2>2 DEF Take
  <1>4. ASSUME NEW c \in Consumers, Ack(c) \/ AckFails(c) \/ ConnectionLost(c) PROVE TypeOK'
    <2>1. CASE Ack(c)
      BY <2>1, FreeType, BusyHasMessage DEF Ack
    <2>2. CASE AckFails(c)
      BY <2>2, FreeType DEF AckFails
    <2>3. CASE ConnectionLost(c)
      <3>1. [work[c] EXCEPT !.broken = TRUE] \in WorkType
        BY DEF WorkType
      <3>2. work[c].msg \in Messages /\ work[c].msg # NoMessage
        BY <2>3, BusyHasMessage, ConstantsAssumption DEF ConnectionLost
      <3>3. [work[c] EXCEPT !.broken = TRUE].msg # NoMessage
        BY <3>2 DEF WorkType
      <3>4. work' = [work EXCEPT ![c] = [work[c] EXCEPT !.broken = TRUE]]
        BY <2>3 DEF ConnectionLost
      <3>5. work' \in [Consumers -> WorkType]
            /\ \A d \in Consumers : work'[d].msg = NoMessage => work'[d] = Free
        BY <3>1, <3>3, <3>4
      <3>6. ready' \subseteq Messages /\ faults' \in 0 .. MaxFaults
        BY <2>3, <3>2, ConstantsAssumption DEF ConnectionLost, Fault
      <3>7. QED
        BY <2>3, <3>5, <3>6 DEF ConnectionLost
    <2>4. QED
      BY <1>4, <2>1, <2>2, <2>3
  <1>5. ASSUME NEW c \in Consumers, HandlerFails(c) PROVE TypeOK'
    <2>1. redis' \in [Parts -> Nat]
      <3>1. UNCHANGED redis \/ \E e \in Edges : redis' = Added(c, e)
        BY <1>5 DEF HandlerFails, Interrupted, WorkType
      <3>2. QED
        BY <1>5, <3>1, AddedType DEF HandlerFails, Interrupted
    <2>2. ready' \subseteq Messages
      BY <1>5, BusyHasMessage DEF HandlerFails, Interrupted, Returned
    <2>3. faults' \in 0 .. MaxFaults
      BY <1>5, ConstantsAssumption DEF HandlerFails, Interrupted, Fault
    <2>4. QED
      BY <1>5, <2>1, <2>2, <2>3, FreeType DEF HandlerFails, Interrupted
  <1>6. ASSUME NEW c \in Consumers, NEW e \in Edges, AddPart(c, e) PROVE TypeOK'
    <2>1. work[c] # Free
      BY <1>6, BusyHasMessage DEF AddPart
    <2>2. redis' \in [Parts -> Nat]
      BY <1>6, <2>1, AddedType DEF AddPart
    <2>3. [work[c] EXCEPT !.todo = @ \ {e}] \in WorkType
      BY DEF WorkType
    <2>4. [work[c] EXCEPT !.todo = @ \ {e}].msg # NoMessage
      BY <2>1 DEF WorkType
    <2>5. work' = [work EXCEPT ![c] = [work[c] EXCEPT !.todo = @ \ {e}]]
      BY <1>6 DEF AddPart
    <2>6. work' \in [Consumers -> WorkType]
          /\ \A d \in Consumers : work'[d].msg = NoMessage => work'[d] = Free
      BY <2>3, <2>4, <2>5
    <2>7. QED
      BY <1>6, <2>2, <2>6 DEF AddPart
  <1>7. CASE CommitBegin
    <2>1. tip - Lag \in Int
      BY ConstantsAssumption
    <2>2. {h \in Keys : h < tip - Lag} \subseteq Heights
      BY PartType DEF Keys
    <2>3. commit' \in CommitType
      BY <1>7, <2>1, <2>2 DEF CommitBegin, CommitType, Asleep
    <2>4. QED
      BY <1>7, <2>3 DEF CommitBegin
  <1>8. CASE CommitRecord
    <2>1. shares' \in [Parts -> Nat] /\ pending' \in [Parts -> Nat]
      BY <1>8, PlusType, ZeroType DEF CommitRecord
    <2>2. QED
      BY <1>8, <2>1 DEF CommitRecord, CommitType
  <1>9. CASE DeleteKey
    BY <1>9, WithoutType DEF DeleteKey, CommitType
  <1>10. CASE CommitEnd
    BY <1>10, AsleepType DEF CommitEnd
  <1>11. ASSUME NEW h \in Heights, CommitKey(h) \/ Filler(h) PROVE TypeOK'
    <2>1. CASE CommitKey(h)
      <3>1. UsersIn(h) \subseteq Users
        BY PartType DEF UsersIn
      <3>2. commit' \in CommitType
        BY <2>1, <3>1 DEF CommitKey, CommitType
      <3>3. QED
        BY <2>1, <3>2 DEF CommitKey
    <2>2. CASE Filler(h)
      BY <2>2, ConstantsAssumption DEF Filler
    <2>3. QED
      BY <1>11, <2>1, <2>2
  <1>12. ASSUME NEW u \in Users, AddToRow(u) \/ CreateRow(u) PROVE TypeOK'
    <2>1. [commit EXCEPT !.users = @ \ {u}] \in CommitType
      BY DEF CommitType
    <2>2. CASE AddToRow(u)
      BY <2>1, <2>2, PlusUserType DEF AddToRow
    <2>3. CASE CreateRow(u)
      <3>1. commit.cur \in Heights
        BY <2>3 DEF CreateRow
      <3>2. shares' \in [Parts -> Nat] /\ pending' \in [Parts -> Nat]
        BY <2>3, PlusUserType, PlusType, ZeroType DEF CreateRow
      <3>3. QED
        BY <2>1, <2>3, <3>1, <3>2 DEF CreateRow
    <2>4. QED
      BY <1>12, <2>2, <2>3
  <1>13. CASE RedisFails
    <2>1. shares' \in [Parts -> Nat] /\ redis' \in [Parts -> Nat]
      BY <1>13, PlusType, WithoutType DEF RedisFails
    <2>2. faults' \in 0 .. MaxFaults
      BY <1>13, ConstantsAssumption DEF RedisFails, Fault
    <2>3. QED
      BY <1>13, <2>1, <2>2, ZeroType, AsleepType DEF RedisFails
  <1>14. CASE DatabaseFails
    BY <1>14, PlusType, ZeroType, AsleepType, ConstantsAssumption DEF DatabaseFails, Fault
  <1>15. CASE Crash
    <2>1. UNION {Returned(c) : c \in {d \in Consumers : work[d] # Free}} \subseteq Messages
      BY BusyHasMessage DEF Returned
    <2>2. QED
      <3>1. faults' \in 0 .. MaxFaults
        BY <1>15, ConstantsAssumption DEF Crash, Fault
      <3>2. work' \in [Consumers -> WorkType]
            /\ \A c \in Consumers : work'[c].msg = NoMessage => work'[c] = Free
        BY <1>15, FreeType DEF Crash
      <3>3. QED
        BY <1>15, <2>1, <3>1, <3>2, ZeroType, AsleepType DEF Crash
  <1>16. ASSUME NEW h \in Heights, NEW u \in Users, CreateFails(h, u) PROVE TypeOK'
    <2>1. shares' \in [Parts -> Nat] /\ rows' \subseteq Heights \X Users
      BY <1>16, PlusType DEF CreateFails
    <2>2. faults' \in 0 .. MaxFaults
      BY <1>16, ConstantsAssumption DEF CreateFails, Fault
    <2>3. QED
      BY <1>16, <2>1, <2>2, ZeroType, AsleepType DEF CreateFails
  <1>17. ASSUME NEW h \in Heights, KeyGone(h) PROVE TypeOK'
    <2>1. shares' \in [Parts -> Nat]
      BY <1>17, PlusType DEF KeyGone
    <2>2. QED
      BY <1>17, <2>1, ZeroType, AsleepType DEF KeyGone
  <1>18. ASSUME NEW h \in Heights, Expire(h) PROVE TypeOK'
    <2>1. redis' \in [Parts -> Nat] /\ lapsed' \subseteq Parts
      BY <1>18, WithoutType DEF Expire
    <2>2. faults' \in 0 .. MaxFaults
      BY <1>18, ConstantsAssumption DEF Expire, Fault
    <2>3. QED
      BY <1>18, <2>1, <2>2 DEF Expire
  <1>19. CASE UNCHANGED vars
    BY <1>19 DEF vars
  <1>20. QED
    BY <1>1, <1>2, <1>3, <1>4, <1>5, <1>6, <1>7, <1>8, <1>9, <1>10, <1>11, <1>12,
       <1>13, <1>14, <1>15, <1>16, <1>17, <1>18, <1>19, NextCases

(* The aggregation's variables keep their types, whatever fails. *)
THEOREM ShareAggrType == Spec => []TypeOK
  BY TypeInit, TypeStep, PTL DEF Spec

-----------------------------------------------------------------------------
(* No acknowledged share is lost but by expiry *)

LEMMA KeptInit == Init => Kept
  BY DEF Init, Kept, AckedIsKept, HandledIsKept, Accounted, RecordFits, Asleep, Zero, Free

(* A part that was added stays in redis or in MariaDB: a record is deleted *)
(* only after the transaction with its counts.                             *)
LEMMA PartStays ==
  ASSUME TypeOK, RecordFits, [Next]_vars, NEW q \in Parts, redis[q] + shares[q] > 0,
         \A h \in Heights : ~Expire(h)
  PROVE  redis'[q] + shares'[q] > 0
  <1> DEFINE Goal == redis'[q] + shares'[q] > 0
  <1> USE DEF stores
  <1>1. redis[q] \in Nat /\ shares[q] \in Nat /\ pending[q] \in Nat
    BY DEF TypeOK
  <1>2. CASE UNCHANGED <<redis, shares>>
    BY <1>2
  <1>3. ASSUME NEW c \in Consumers, HandlerFails(c) PROVE Goal
    <2>1. UNCHANGED redis \/ \E e \in Edges : redis' = Added(c, e)
      BY <1>3 DEF HandlerFails, Interrupted, TypeOK, WorkType
    <2>2. redis'[q] \in Nat /\ redis'[q] >= redis[q]
      <3>1. work[c] # Free
        BY <1>3 DEF HandlerFails, Interrupted
      <3>2. \A e \in Edges : Added(c, e)[q] \in Nat /\ Added(c, e)[q] >= redis[q]
        BY <3>1, AddedType
      <3>3. QED
        BY <1>1, <2>1, <3>2
    <2>3. QED
      BY <1>1, <1>3, <2>2 DEF HandlerFails, Interrupted
  <1>4. ASSUME NEW c \in Consumers, NEW e \in Edges, AddPart(c, e) PROVE Goal
    <2>1. work[c] # Free
      BY <1>4, BusyHasMessage DEF AddPart
    <2>2. redis'[q] \in Nat /\ redis'[q] >= redis[q]
      BY <1>4, <2>1, AddedType DEF AddPart
    <2>3. QED
      BY <1>1, <1>4, <2>2 DEF AddPart
  <1>5. ASSUME redis' = redis, shares' = Plus(shares, pending) PROVE Goal
    BY <1>1, <1>5, PlusType DEF TypeOK
  <1>6. ASSUME commit.pc = "delete", redis' = Without(commit.cur), shares' = shares PROVE Goal
    BY <1>1, <1>6 DEF Without, RecordFits
  <1>7. CASE RedisFails
    <2>1. shares'[q] = shares[q] + pending[q]
      BY <1>7, PlusType DEF RedisFails, TypeOK
    <2>2. CASE commit.pc = "next"
      <3>1. Height(q) # commit.cur
        BY <2>2, PartType DEF RecordFits, Heights, NoHeight
      <3>2. redis'[q] = redis[q]
        BY <1>7, <3>1 DEF RedisFails, Without
      <3>3. QED
        BY <1>1, <2>1, <3>2
    <2>3. CASE commit.pc = "delete"
      <3>1. redis'[q] = redis[q] \/ (Height(q) = commit.cur /\ redis'[q] = 0)
        BY <1>7 DEF RedisFails, Without
      <3>2. Height(q) = commit.cur => shares[q] > 0
        BY <1>1, <2>3 DEF RecordFits
      <3>3. QED
        BY <1>1, <2>1, <3>1, <3>2
    <2>4. QED
      BY <1>7, <2>2, <2>3 DEF RedisFails
  <1>8. NewBlock \/ CommitBegin \/ CommitEnd \/ Crash \/ UNCHANGED vars => Goal
    BY <1>2 DEF NewBlock, CommitBegin, CommitEnd, Crash, vars
  <1>9. CommitRecord \/ DeleteKey \/ DatabaseFails => Goal
    BY <1>2, <1>5, <1>6 DEF CommitRecord, DeleteKey, DatabaseFails
  <1>10. ASSUME NEW m \in Messages, Publish(m) PROVE Goal
    BY <1>2, <1>10 DEF Publish
  <1>11. ASSUME NEW c \in Consumers, NEW m \in Messages, Take(c, m) PROVE Goal
    BY <1>2, <1>11 DEF Take
  <1>12. ASSUME NEW c \in Consumers, Ack(c) \/ AckFails(c) \/ ConnectionLost(c) PROVE Goal
    BY <1>2, <1>12 DEF Ack, AckFails, ConnectionLost
  <1>13. ASSUME NEW h \in Heights, CommitKey(h) \/ Filler(h) PROVE Goal
    BY <1>2, <1>13 DEF CommitKey, Filler
  <1>14. ASSUME NEW u \in Users, AddToRow(u) \/ CreateRow(u) PROVE Goal
    BY <1>2, <1>5, <1>14 DEF AddToRow, CreateRow
  <1>15. ASSUME NEW h \in Heights, NEW u \in Users, CreateFails(h, u) PROVE Goal
    BY <1>2, <1>5, <1>15 DEF CreateFails
  <1>16. ASSUME NEW h \in Heights, KeyGone(h) PROVE Goal
    BY <1>5, <1>16 DEF KeyGone
  <1>17. QED
    BY <1>3, <1>4, <1>7, <1>8, <1>9, <1>10, <1>11, <1>12, <1>13, <1>14, <1>15, <1>16,
       NextCases

LEMMA LapsedGrows ==
  ASSUME [Next]_vars
  PROVE  lapsed \subseteq lapsed'
  BY NextCases
  DEF NewBlock, Publish, Take, Ack, AckFails, ConnectionLost, HandlerFails, Interrupted,
      AddPart, CommitBegin, CommitRecord, DeleteKey, CommitEnd, CommitKey, KeyGone,
      Filler,
      Expire, AddToRow, CreateRow, RedisFails, DatabaseFails, Crash, CreateFails, vars,
      stores

(* With expiry: what it takes from redis it takes on record in lapsed.     *)
LEMMA NothingLost ==
  ASSUME TypeOK, RecordFits, [Next]_vars, NEW q \in Parts,
         redis[q] + shares[q] > 0 \/ q \in lapsed
  PROVE  redis'[q] + shares'[q] > 0 \/ q \in lapsed'
  <1>1. CASE q \in lapsed
    BY <1>1, LapsedGrows
  <1>2. ASSUME redis[q] + shares[q] > 0, NEW h \in Heights, Expire(h)
        PROVE  redis'[q] + shares'[q] > 0 \/ q \in lapsed'
    <2>1. redis[q] \in Nat /\ shares[q] \in Nat
      BY DEF TypeOK
    <2>2. redis'[q] = (IF Height(q) = h THEN 0 ELSE redis[q]) /\ shares'[q] = shares[q]
      BY <1>2 DEF Expire, Without
    <2>3. Height(q) = h /\ redis[q] > 0 /\ shares[q] = 0 => q \in lapsed'
      BY <1>2 DEF Expire
    <2>4. QED
      BY <1>2, <2>1, <2>2, <2>3
  <1>3. QED
    BY <1>1, <1>2, PartStays

(* Only a message that was handled to the end is acknowledged. *)
LEMMA AckedStep ==
  ASSUME TypeOK, Kept, [Next]_vars
  PROVE  AckedIsKept'
  <1> SUFFICES ASSUME NEW m \in acked', NEW e \in Edges
               PROVE  redis'[<<m, e>>] + shares'[<<m, e>>] > 0 \/ <<m, e>> \in lapsed'
    BY DEF AckedIsKept, Accounted
  <1>1. m \in acked \/ \E c \in Consumers : Ack(c) /\ m = work[c].msg
    <2>1. acked' = acked \/ \E c \in Consumers : Ack(c)
      BY NextCases
      DEF NewBlock, Publish, Take, AckFails, ConnectionLost, HandlerFails, AddPart,
          CommitBegin, CommitRecord, DeleteKey, CommitEnd, CommitKey, KeyGone, Filler,
          Expire,
          AddToRow, CreateRow, RedisFails, DatabaseFails, Crash, CreateFails, vars, broker
    <2>2. QED
      BY <2>1 DEF Ack
  <1>2. m \in Messages
    BY <1>1, BusyHasMessage DEF TypeOK, Ack
  <1>3. redis[<<m, e>>] + shares[<<m, e>>] > 0 \/ <<m, e>> \in lapsed
    BY <1>1 DEF Kept, AckedIsKept, HandledIsKept, Accounted, Ack
  <1>4. <<m, e>> \in Parts
    BY <1>2 DEF Parts
  <1>5. QED
    BY <1>3, <1>4, NothingLost DEF Kept

(* What a consumer has behind it is kept while it goes on. *)
LEMMA HandledStep ==
  ASSUME TypeOK, Kept, [Next]_vars
  PROVE  HandledIsKept'
  <1> SUFFICES ASSUME NEW c \in Consumers, work'[c] # Free, NEW e \in Edges \ work'[c].todo
               PROVE  \/ redis'[<<work'[c].msg, e>>] + shares'[<<work'[c].msg, e>>] > 0
                      \/ <<work'[c].msg, e>> \in lapsed'
    BY DEF HandledIsKept, Accounted
  <1> DEFINE Goal == \/ redis'[<<work'[c].msg, e>>] + shares'[<<work'[c].msg, e>>] > 0
                     \/ <<work'[c].msg, e>> \in lapsed'
  <1>1. ASSUME work[c] # Free, work'[c].msg = work[c].msg, e \notin work[c].todo
        PROVE  Goal
    <2>1. redis[<<work[c].msg, e>>] + shares[<<work[c].msg, e>>] > 0
            \/ <<work[c].msg, e>> \in lapsed
      BY <1>1 DEF Kept, HandledIsKept, Accounted
    <2>2. <<work[c].msg, e>> \in Parts
      BY <1>1, BusyHasMessage DEF Parts
    <2>3. QED
      BY <1>1, <2>1, <2>2, NothingLost DEF Kept
  <1>2. CASE work' = work
    BY <1>1, <1>2
  <1>3. ASSUME NEW d \in Consumers, NEW m \in Messages, Take(d, m)
        PROVE  Goal
    <2>1. CASE d = c
      BY <1>3, <2>1 DEF Take, TypeOK
    <2>2. CASE d # c
      BY <1>1, <1>3, <2>2 DEF Take, TypeOK
    <2>3. QED
      BY <2>1, <2>2
  <1>4. ASSUME NEW d \in Consumers, Ack(d) \/ AckFails(d) \/ HandlerFails(d)
        PROVE  Goal
    <2>1. work' = [work EXCEPT ![d] = Free]
      BY <1>4 DEF Ack, AckFails, HandlerFails, Interrupted
    <2>2. d # c /\ work'[c] = work[c]
      BY <2>1 DEF TypeOK
    <2>3. QED
      BY <1>1, <2>2
  <1>5. ASSUME NEW d \in Consumers, ConnectionLost(d)
        PROVE  Goal
    <2>1. work[c] # Free /\ work'[c].msg = work[c].msg /\ work'[c].todo = work[c].todo
      BY <1>5 DEF ConnectionLost, TypeOK, WorkType
    <2>2. QED
      BY <1>1, <2>1
  <1>6. ASSUME NEW d \in Consumers, NEW f \in Edges, AddPart(d, f)
        PROVE  Goal
    <2>1. CASE d # c
      BY <1>1, <1>6, <2>1 DEF AddPart, TypeOK
    <2>2. CASE d = c
      <3>1. work[c] # Free
        BY <1>6, <2>2, BusyHasMessage DEF AddPart
      <3>2. work'[c].msg = work[c].msg /\ work'[c].todo = work[c].todo \ {f}
        BY <1>6, <2>2 DEF AddPart, TypeOK, WorkType
      <3>3. CASE e = f
        <4>1. redis'[<<work[c].msg, e>>] > 0
          BY <1>6, <2>2, <3>1, <3>3, AddedType DEF AddPart
        <4>2. redis'[<<work[c].msg, e>>] \in Nat /\ shares'[<<work[c].msg, e>>] \in Nat
          <5>1. <<work[c].msg, e>> \in Parts
            BY <3>1, BusyHasMessage DEF Parts
          <5>2. redis' \in [Parts -> Nat] /\ shares' \in [Parts -> Nat]
            BY <1>6, <2>2, <3>1, AddedType DEF AddPart, TypeOK
          <5>3. QED
            BY <5>1, <5>2
        <4>3. QED
          BY <3>2, <4>1, <4>2
      <3>4. CASE e # f
        BY <1>1, <3>1, <3>2, <3>4
      <3>5. QED
        BY <3>3, <3>4
    <2>3. QED
      BY <2>1, <2>2
  <1>7. CASE Crash
    BY <1>7 DEF Crash
  <1>8. NewBlock \/ CommitBegin \/ CommitRecord \/ DeleteKey \/ CommitEnd \/ RedisFails
        \/ DatabaseFails \/ UNCHANGED vars => work' = work
    BY DEF NewBlock, CommitBegin, CommitRecord, DeleteKey, CommitEnd, RedisFails,
           DatabaseFails, vars, process
  <1>9. /\ \A m \in Messages : Publish(m) => work' = work
        /\ \A h \in Heights : CommitKey(h) \/ KeyGone(h) \/ Filler(h) \/ Expire(h) => work' = work
        /\ \A u \in Users : AddToRow(u) \/ CreateRow(u) => work' = work
        /\ \A h \in Heights, u \in Users : CreateFails(h, u) => work' = work
    BY DEF Publish, CommitKey, KeyGone, Filler, Expire, AddToRow, CreateRow, CreateFails,
           process
  <1>10. QED
    BY <1>2, <1>3, <1>4, <1>5, <1>6, <1>7, <1>8, <1>9, NextCases

(* The scheduler's place tells what of the record at hand is in MariaDB.   *)
LEMMA RecordStep ==
  ASSUME TypeOK, RecordFits, [Next]_vars
  PROVE  RecordFits'
  <1> USE DEF RecordFits, broker, process, stores
  <1>1. CASE UNCHANGED <<locked, commit, pending, redis, shares>>
    BY <1>1
  <1>2. ASSUME commit' = Asleep, pending' = Zero PROVE RecordFits'
    BY <1>2, AsleepType
  <1>3. ASSUME commit.pc # "idle" => redis' = redis, UNCHANGED <<locked, commit, pending, shares>>
        PROVE  RecordFits'
    <2>1. CASE commit.pc = "idle"
      BY <1>3, <2>1
    <2>2. CASE commit.pc # "idle"
      BY <1>1, <1>3, <2>2
    <2>3. QED
      BY <2>1, <2>2
  <1>4. ASSUME NEW c \in Consumers, NEW e \in Edges, AddPart(c, e) PROVE RecordFits'
    BY <1>3, <1>4 DEF AddPart
  <1>5. ASSUME NEW c \in Consumers, HandlerFails(c) PROVE RecordFits'
    BY <1>3, <1>5 DEF HandlerFails, Interrupted
  <1>6. CASE CommitBegin
    BY <1>6 DEF CommitBegin, Asleep
  <1>7. CASE CommitEnd
    BY <1>7, AsleepType DEF CommitEnd, TypeOK, CommitType
  <1>8. CASE DeleteKey
    BY <1>8 DEF DeleteKey, TypeOK, CommitType
  <1>9. ASSUME NEW h \in Heights, CommitKey(h) PROVE RecordFits'
    <2>1. commit'.pc = "user" /\ commit'.cur = h /\ commit'.users = UsersIn(h)
      BY <1>9 DEF CommitKey, TypeOK, CommitType
    <2>2. \A q \in Parts : Height(q) = h /\ redis[q] > 0 => Worker(q) \in UsersIn(h)
      BY DEF UsersIn
    <2>3. UNCHANGED <<locked, redis>> /\ locked
      BY <1>9 DEF CommitKey
    <2>4. QED
      BY <2>1, <2>2, <2>3
  <1>10. ASSUME NEW u \in Users, AddToRow(u) \/ CreateRow(u) PROVE RecordFits'
    <2>1. /\ commit.pc = "user" /\ commit'.pc = "user" /\ commit'.cur = commit.cur
          /\ commit'.users = commit.users \ {u} /\ UNCHANGED <<locked, redis>>
      BY <1>10 DEF AddToRow, CreateRow, TypeOK, CommitType
    <2>2. \A q \in Parts : redis[q] \in Nat /\ shares[q] \in Nat /\ pending[q] \in Nat
      BY DEF TypeOK
    <2>3. ASSUME NEW q \in Parts, Height(q) = commit.cur, redis[q] > 0,
                 Worker(q) \notin commit.users \ {u}
          PROVE  shares'[q] + pending'[q] > 0
      <3>1. Worker(q) # u => shares[q] + pending[q] > 0
        BY <2>1, <2>3
      <3>2. CASE AddToRow(u)
        <4>1. pending'[q] = IF Worker(q) = u THEN pending[q] + redis[q] ELSE pending[q]
          BY <2>3, <3>2, PlusUserType DEF AddToRow, TypeOK
        <4>2. shares'[q] = shares[q]
          BY <3>2 DEF AddToRow
        <4>3. QED
          BY <2>2, <2>3, <3>1, <4>1, <4>2
      <3>3. CASE CreateRow(u)
        <4>1. pending'[q] = IF Worker(q) = u THEN 0 + redis[q] ELSE 0
          <5>1. PlusUser(Zero, u)[q] = IF Worker(q) = u THEN Zero[q] + redis[q] ELSE Zero[q]
            BY <2>3, PlusUserType, ZeroType
          <5>2. QED
            BY <3>3, <5>1 DEF CreateRow, Zero
        <4>2. shares'[q] = shares[q] + pending[q]
          BY <3>3, PlusType DEF CreateRow, TypeOK
        <4>3. QED
          BY <2>2, <2>3, <3>1, <4>1, <4>2
      <3>4. QED
        BY <1>10, <3>2, <3>3
    <2>4. QED
      BY <2>1, <2>3
  <1>11. CASE CommitRecord
    <2>1. /\ commit'.pc = "delete" /\ commit'.cur = commit.cur /\ pending' = Zero
          /\ UNCHANGED <<locked, redis>> /\ commit.pc = "user" /\ commit.users = {}
      BY <1>11 DEF CommitRecord, TypeOK, CommitType
    <2>2. \A q \in Parts : shares'[q] = shares[q] + pending[q]
      BY <1>11, PlusType DEF CommitRecord, TypeOK
    <2>3. QED
      BY <2>1, <2>2
  <1>12. CASE Crash \/ RedisFails \/ DatabaseFails
    BY <1>2, <1>12 DEF Crash, RedisFails, DatabaseFails
  <1>13. ASSUME NEW h \in Heights, NEW u \in Users, CreateFails(h, u) PROVE RecordFits'
    BY <1>2, <1>13 DEF CreateFails
  <1>14. NewBlock \/ UNCHANGED vars => RecordFits'
    BY <1>1 DEF NewBlock, vars
  <1>15. ASSUME NEW m \in Messages, Publish(m) PROVE RecordFits'
    BY <1>1, <1>15 DEF Publish
  <1>16. ASSUME NEW c \in Consumers, NEW m \in Messages, Take(c, m) PROVE RecordFits'
    BY <1>1, <1>16 DEF Take
  <1>17. ASSUME NEW c \in Consumers, Ack(c) \/ AckFails(c) \/ ConnectionLost(c)
         PROVE  RecordFits'
    BY <1>1, <1>17 DEF Ack, AckFails, ConnectionLost
  <1>18. ASSUME NEW h \in Heights, Filler(h) PROVE RecordFits'
    BY <1>1, <1>18 DEF Filler
  <1>19. ASSUME NEW h \in Heights, KeyGone(h) PROVE RecordFits'
    BY <1>2, <1>19 DEF KeyGone
  <1>20. ASSUME NEW h \in Heights, Expire(h) PROVE RecordFits'
    <2>1. /\ UNCHANGED <<locked, commit, pending, shares>> /\ h # commit.cur
          /\ \A q \in Parts : Height(q) = commit.cur => redis'[q] = redis[q]
      BY <1>20 DEF Expire, Without
    <2>2. QED
      BY <2>1
  <1>21. QED
    BY <1>4, <1>5, <1>6, <1>7, <1>8, <1>9, <1>10, <1>11, <1>12, <1>13, <1>14, <1>15,
       <1>16, <1>17, <1>18, <1>19, <1>20, NextCases

(* Everything that was added is kept, and the scheduler's place is right:  *)
(* the inductive invariant behind SharesKept.                              *)
THEOREM AddedIsKept == Spec => []Kept
  <1>1. TypeOK /\ Kept /\ [Next]_vars => Kept'
    BY AckedStep, HandledStep, RecordStep DEF Kept
  <1>2. QED
    BY <1>1, KeptInit, ShareAggrType, PTL DEF Spec

(* A share whose message was acknowledged is in redis or in MariaDB,       *)
(* whatever lost connections, failed calls and crashes come between,       *)
(* unless redis let its record expire.                                     *)
THEOREM SharesKept == Spec => []AckedIsKept
  <1>1. Kept => AckedIsKept
    BY DEF Kept
  <1>2. QED
    BY <1>1, AddedIsKept, PTL

-----------------------------------------------------------------------------
(* As long as nothing fails every share is counted once *)

Busy(c) == work[c] # Free

(* A message is in one place: not sent yet, in the queue, in one consumer's *)
(* hands, or forgotten.                                                     *)
DeliveredOnce ==
  /\ ready \cup acked \subseteq published
  /\ ready \cap acked = {}
  /\ \A c \in Consumers :
       Busy(c) => /\ ~work[c].broken
                  /\ work[c].msg \in published \ (ready \cup acked)
                  /\ \A d \in Consumers \ {c} : work[d].msg # work[c].msg

(* The parts that nobody has added yet. *)
Fresh(q) ==
  \/ q[1] \notin published \/ q[1] \in ready
  \/ \E c \in Consumers : Busy(c) /\ work[c].msg = q[1] /\ q[2] \in work[c].todo

FreshUncounted ==
  \A q \in Parts : Fresh(q) => redis[q] = 0 /\ shares[q] = 0 /\ pending[q] = 0

(* The scheduler has been through the part: it is in the transaction or in *)
(* MariaDB, and still in the record that is deleted next.                  *)
InHand(q) ==
  /\ commit.pc \in {"user", "delete"}
  /\ Height(q) = commit.cur /\ Worker(q) \notin commit.users

MovedOnce ==
  /\ commit.pc = "delete" => commit.users = {}
  /\ \A q \in Parts :
       IF InHand(q) THEN shares[q] + pending[q] <= 1
                    ELSE redis[q] + shares[q] <= 1 /\ pending[q] = 0

Calm == faults = 0 => DeliveredOnce /\ FreshUncounted /\ MovedOnce

LEMMA CalmInit == Init => Calm
  BY DEF Init, Calm, DeliveredOnce, Busy, FreshUncounted, MovedOnce, InHand, Asleep, Zero

(* The steps that are left when nothing fails. *)
LEMMA CalmCases ==
  ASSUME TypeOK, [Next]_vars, faults' = 0
  PROVE  /\ faults = 0
         /\ \/ NewBlock \/ \E m \in Messages : Publish(m)
            \/ \E c \in Consumers, m \in Messages : Take(c, m)
            \/ \E c \in Consumers : Ack(c) \/ AckFails(c)
            \/ \E c \in Consumers, e \in Edges : AddPart(c, e)
            \/ CommitBegin \/ CommitRecord \/ DeleteKey \/ CommitEnd
            \/ \E h \in Heights : CommitKey(h) \/ KeyGone(h) \/ Filler(h) \/ Expire(h)
            \/ \E u \in Users : AddToRow(u) \/ CreateRow(u)
            \/ UNCHANGED vars
  <1>1. faults \in Nat
    BY ConstantsAssumption DEF TypeOK
  <1>2. ~Fault
    BY <1>1 DEF Fault
  <1>3. /\ ~RedisFails /\ ~DatabaseFails /\ ~Crash
        /\ \A c \in Consumers : ~HandlerFails(c) /\ ~ConnectionLost(c)
        /\ \A h \in Heights, u \in Users : ~CreateFails(h, u)
    BY <1>2 DEF RedisFails, DatabaseFails, Crash, HandlerFails, Interrupted,
       ConnectionLost,
                CreateFails
  <1>4. CASE UNCHANGED vars
    BY <1>4 DEF vars
  <1>5. CASE Next
    <2>1. \/ NewBlock \/ \E m \in Messages : Publish(m)
          \/ \E c \in Consumers, m \in Messages : Take(c, m)
          \/ \E c \in Consumers : Ack(c) \/ AckFails(c)
          \/ \E c \in Consumers, e \in Edges : AddPart(c, e)
          \/ CommitBegin \/ CommitRecord \/ DeleteKey \/ CommitEnd
          \/ \E h \in Heights : CommitKey(h) \/ KeyGone(h) \/ Filler(h) \/ Expire(h)
          \/ \E u \in Users : AddToRow(u) \/ CreateRow(u)
      BY <1>3, <1>5, NextCases
    <2>2. faults' = faults
      BY <1>2, <2>1 DEF Expire, KeyGone, NewBlock, Publish, Take, Ack, AckFails,
         AddPart, CommitBegin, CommitRecord,
                  DeleteKey, CommitEnd, CommitKey, Filler, AddToRow, CreateRow
    <2>3. QED
      BY <2>1, <2>2
  <1>6. QED
    BY <1>4, <1>5

(* Two consumers never have the same message. *)
LEMMA DeliveredStep ==
  ASSUME TypeOK, DeliveredOnce, [Next]_vars, faults' = 0
  PROVE  DeliveredOnce'
  <1> USE DEF DeliveredOnce, Busy, broker, process, stores
  <1>1. CASE UNCHANGED <<broker, work>>
    BY <1>1
  <1>2. ASSUME NEW m \in Messages, Publish(m) PROVE DeliveredOnce'
    BY <1>2 DEF Publish
  <1>3. ASSUME NEW c \in Consumers, NEW m \in Messages, Take(c, m) PROVE DeliveredOnce'
    <2>1. /\ work'[c].msg = m /\ ~work'[c].broken
          /\ \A d \in Consumers \ {c} : work'[d] = work[d]
      BY <1>3 DEF Take, TypeOK
    <2>2. m \in ready /\ ready' = ready \ {m} /\ published' = published /\ acked' = acked
      BY <1>3 DEF Take
    <2>3. \A d \in Consumers : work[d].msg # m
      <3> SUFFICES ASSUME NEW d \in Consumers, work[d].msg = m PROVE FALSE
        OBVIOUS
      <3>1. work[d] # Free
        BY ConstantsAssumption DEF Free
      <3>2. QED
        BY <2>2, <3>1
    <2>4. QED
      BY <2>1, <2>2, <2>3
  <1>4. ASSUME NEW c \in Consumers, Ack(c) \/ AckFails(c) PROVE DeliveredOnce'
    <2>1. Ack(c)
      BY <1>4 DEF AckFails
    <2>2. work'[c] = Free /\ \A d \in Consumers \ {c} : work'[d] = work[d]
      BY <2>1 DEF Ack, TypeOK
    <2>3. /\ acked' = acked \cup {work[c].msg} /\ UNCHANGED <<published, ready>>
          /\ work[c] # Free
      BY <2>1 DEF Ack
    <2>4. ASSUME NEW d \in Consumers, work'[d] # Free
          PROVE  /\ ~work'[d].broken
                 /\ work'[d].msg \in published' \ (ready' \cup acked')
                 /\ \A b \in Consumers \ {d} : work'[b].msg # work'[d].msg
      <3>1. d # c /\ work'[d] = work[d] /\ work[d].msg # work[c].msg
        BY <2>2, <2>3, <2>4
      <3>2. work[d].msg \in Messages /\ work[d].msg # NoMessage
        BY <2>4, <3>1, BusyHasMessage, ConstantsAssumption
      <3>3. work'[c].msg = NoMessage
        BY <2>2 DEF Free
      <3>4. QED
        BY <2>2, <2>3, <2>4, <3>1, <3>2, <3>3
    <2>5. QED
      BY <2>3, <2>4
  <1>5. ASSUME NEW c \in Consumers, NEW e \in Edges, AddPart(c, e) PROVE DeliveredOnce'
    <2>1. work[c] # Free
      BY <1>5, BusyHasMessage DEF AddPart
    <2>2. /\ work'[c].msg = work[c].msg /\ work'[c].broken = work[c].broken
          /\ \A d \in Consumers \ {c} : work'[d] = work[d]
      BY <1>5 DEF AddPart, TypeOK, WorkType
    <2>3. QED
      BY <1>5, <2>1, <2>2 DEF AddPart
  <1>6. NewBlock \/ CommitBegin \/ CommitRecord \/ DeleteKey \/ CommitEnd \/ UNCHANGED vars
          => UNCHANGED <<broker, work>>
    BY DEF NewBlock, CommitBegin, CommitRecord, DeleteKey, CommitEnd, vars
  <1>7. /\ \A h \in Heights : CommitKey(h) \/ Filler(h) => UNCHANGED <<broker, work>>
        /\ \A h \in Heights : KeyGone(h) \/ Expire(h) => UNCHANGED <<broker, work>>
        /\ \A u \in Users : AddToRow(u) \/ CreateRow(u) => UNCHANGED <<broker, work>>
    BY DEF CommitKey, KeyGone, Filler, Expire, AddToRow, CreateRow
  <1>8. QED
    BY <1>1, <1>2, <1>3, <1>4, <1>5, <1>6, <1>7, CalmCases

(* A part that nobody has added after a step had not been added before it. *)
LEMMA FreshBefore ==
  ASSUME TypeOK, DeliveredOnce, [Next]_vars, faults' = 0, NEW q \in Parts, Fresh(q)'
  PROVE  /\ Fresh(q)
         /\ \A c \in Consumers, e \in Edges : AddPart(c, e) => q # <<work[c].msg, e>>
  <1> USE DEF Fresh, Busy, broker, process, stores
  <1>1. UNCHANGED <<published, ready, work>> => Fresh(q)
    OBVIOUS
  <1>2. ASSUME NEW m \in Messages, Publish(m) PROVE Fresh(q)
    BY <1>2 DEF Publish
  <1>3. ASSUME NEW c \in Consumers, NEW m \in Messages, Take(c, m) PROVE Fresh(q)
    BY <1>3 DEF Take, TypeOK
  <1>4. ASSUME NEW c \in Consumers, Ack(c) \/ AckFails(c) PROVE Fresh(q)
    BY <1>4 DEF Ack, AckFails, TypeOK
  <1>5. ASSUME NEW c \in Consumers, NEW e \in Edges, AddPart(c, e)
        PROVE  Fresh(q) /\ q # <<work[c].msg, e>>
    <2>1. work[c] # Free /\ UNCHANGED <<published, ready>>
      BY <1>5, BusyHasMessage DEF AddPart
    <2>2. /\ work'[c].msg = work[c].msg /\ work'[c].todo = work[c].todo \ {e}
          /\ \A d \in Consumers \ {c} : work'[d] = work[d]
      BY <1>5 DEF AddPart, TypeOK, WorkType
    <2>3. Fresh(q)
      BY <2>1, <2>2
    <2>4. ASSUME q = <<work[c].msg, e>> PROVE FALSE
      <3>1. q[1] = work[c].msg /\ q[2] = e
        BY <2>4
      <3>2. work[c].msg \in published /\ work[c].msg \notin ready
        BY <2>1 DEF DeliveredOnce
      <3>3. PICK d \in Consumers : work'[d] # Free /\ work'[d].msg = q[1] /\ q[2] \in work'[d].todo
        BY <2>1, <3>1, <3>2
      <3>4. d # c
        BY <2>2, <3>1, <3>3
      <3>5. work[d] # Free /\ work[d].msg = work[c].msg
        BY <2>2, <3>1, <3>3, <3>4
      <3>6. QED
        BY <2>1, <3>4, <3>5 DEF DeliveredOnce
    <2>5. QED
      BY <2>3, <2>4
  <1>6. NewBlock \/ CommitBegin \/ CommitRecord \/ DeleteKey \/ CommitEnd \/ UNCHANGED vars
          => UNCHANGED <<published, ready, work>>
    BY DEF NewBlock, CommitBegin, CommitRecord, DeleteKey, CommitEnd, vars
  <1>7. /\ \A h \in Heights : CommitKey(h) \/ Filler(h) => UNCHANGED <<published, ready, work>>
        /\ \A h \in Heights : KeyGone(h) \/ Expire(h) => UNCHANGED <<published, ready, work>>
        /\ \A u \in Users : AddToRow(u) \/ CreateRow(u) => UNCHANGED <<published, ready, work>>
    BY DEF CommitKey, KeyGone, Filler, Expire, AddToRow, CreateRow
  <1>8. Fresh(q)
    BY <1>1, <1>2, <1>3, <1>4, <1>5, <1>6, <1>7, CalmCases
  <1>9. QED
    BY <1>5, <1>8

(* What a step adds to redis, and what it moves. *)
LEMMA PartsAfter ==
  ASSUME TypeOK, RecordFits, [Next]_vars, faults' = 0, NEW q \in Parts
  PROVE  \/ /\ UNCHANGED <<commit, redis, shares, pending>>
         \/ \E c \in Consumers, e \in Edges :
              /\ AddPart(c, e) /\ commit.pc = "idle" /\ UNCHANGED <<commit, shares, pending>>
              /\ redis'[q] = IF q = <<work[c].msg, e>> THEN redis[q] + 1 ELSE redis[q]
         \/ /\ CommitBegin \/ CommitEnd \/ \E h \in Heights : CommitKey(h) \/ KeyGone(h)
            /\ UNCHANGED redis /\ shares'[q] = shares[q] /\ pending'[q] = pending[q]
         \/ \E h \in Heights :
              /\ Expire(h) /\ UNCHANGED <<commit, shares, pending>>
              /\ redis'[q] \in {0, redis[q]}
         \/ /\ CommitRecord /\ UNCHANGED redis
            /\ shares'[q] = shares[q] + pending[q] /\ pending'[q] = 0
         \/ /\ DeleteKey /\ UNCHANGED <<shares, pending>>
            /\ redis'[q] = IF Height(q) = commit.cur THEN 0 ELSE redis[q]
         \/ \E u \in Users :
              /\ AddToRow(u) \/ CreateRow(u)
              /\ UNCHANGED redis
              /\ IF Height(q) = commit.cur /\ Worker(q) = u
                 THEN shares'[q] + pending'[q] = shares[q] + pending[q] + redis[q]
                 ELSE shares'[q] + pending'[q] = shares[q] + pending[q]
              /\ shares'[q] >= shares[q]
              /\ pending[q] = 0 /\ ~(Height(q) = commit.cur /\ Worker(q) = u) => pending'[q] = 0
  <1> DEFINE Goal ==
         \/ /\ UNCHANGED <<commit, redis, shares, pending>>
         \/ \E c \in Consumers, e \in Edges :
              /\ AddPart(c, e) /\ commit.pc = "idle" /\ UNCHANGED <<commit, shares, pending>>
              /\ redis'[q] = IF q = <<work[c].msg, e>> THEN redis[q] + 1 ELSE redis[q]
         \/ /\ CommitBegin \/ CommitEnd \/ \E h \in Heights : CommitKey(h) \/ KeyGone(h)
            /\ UNCHANGED redis /\ shares'[q] = shares[q] /\ pending'[q] = pending[q]
         \/ \E h \in Heights :
              /\ Expire(h) /\ UNCHANGED <<commit, shares, pending>>
              /\ redis'[q] \in {0, redis[q]}
         \/ /\ CommitRecord /\ UNCHANGED redis
            /\ shares'[q] = shares[q] + pending[q] /\ pending'[q] = 0
         \/ /\ DeleteKey /\ UNCHANGED <<shares, pending>>
            /\ redis'[q] = IF Height(q) = commit.cur THEN 0 ELSE redis[q]
         \/ \E u \in Users :
              /\ AddToRow(u) \/ CreateRow(u)
              /\ UNCHANGED redis
              /\ IF Height(q) = commit.cur /\ Worker(q) = u
                 THEN shares'[q] + pending'[q] = shares[q] + pending[q] + redis[q]
                 ELSE shares'[q] + pending'[q] = shares[q] + pending[q]
              /\ shares'[q] >= shares[q]
              /\ pending[q] = 0 /\ ~(Height(q) = commit.cur /\ Worker(q) = u) => pending'[q] = 0
  <1> USE DEF broker, process, stores
  <1>1. redis[q] \in Nat /\ shares[q] \in Nat /\ pending[q] \in Nat
    BY DEF TypeOK
  <1>2. CASE UNCHANGED <<commit, redis, shares, pending>>
    BY <1>2
  <1>3. ASSUME NEW c \in Consumers, NEW e \in Edges, AddPart(c, e) PROVE Goal
    <2>1. redis' = Added(c, e) /\ commit.pc = "idle" /\ UNCHANGED <<commit, shares, pending>>
      BY <1>3 DEF AddPart, RecordFits
    <2>2. Added(c, e)[q] = IF q = <<work[c].msg, e>> THEN redis[q] + 1 ELSE redis[q]
      BY DEF Added, TypeOK
    <2>3. QED
      BY <1>3, <2>1, <2>2
  <1>4. ASSUME CommitBegin \/ CommitEnd \/ \E h \in Heights : CommitKey(h) PROVE Goal
    <2>1. UNCHANGED <<redis, shares, pending>>
      BY <1>4 DEF CommitBegin, CommitEnd, CommitKey
    <2>2. QED
      BY <1>4, <2>1
  <1>5. CASE CommitRecord
    <2>1. shares' = Plus(shares, pending) /\ pending' = Zero /\ UNCHANGED redis
      BY <1>5 DEF CommitRecord
    <2>2. shares'[q] = shares[q] + pending[q] /\ pending'[q] = 0
      BY <2>1, PlusType DEF TypeOK, Zero
    <2>3. QED
      BY <1>5, <2>1, <2>2
  <1>6. CASE DeleteKey
    BY <1>6 DEF DeleteKey, Without
  <1>7. ASSUME NEW u \in Users, AddToRow(u) PROVE Goal
    <2>1. UNCHANGED <<redis, shares>> /\ pending' = PlusUser(pending, u)
      BY <1>7 DEF AddToRow
    <2>2. pending'[q] = IF Height(q) = commit.cur /\ Worker(q) = u
                        THEN pending[q] + redis[q] ELSE pending[q]
      BY <2>1, PlusUserType DEF TypeOK
    <2>3. QED
      BY <1>1, <1>7, <2>1, <2>2
  <1>8. ASSUME NEW u \in Users, CreateRow(u) PROVE Goal
    <2>1. /\ UNCHANGED redis /\ shares' = Plus(shares, pending)
          /\ pending' = PlusUser(Zero, u)
      BY <1>8 DEF CreateRow
    <2>2. shares'[q] = shares[q] + pending[q]
      BY <2>1, PlusType DEF TypeOK
    <2>3. pending'[q] = IF Height(q) = commit.cur /\ Worker(q) = u THEN 0 + redis[q] ELSE 0
      <3>1. Zero[q] = 0
        BY DEF Zero
      <3>2. QED
        BY <2>1, <3>1, PlusUserType, ZeroType
    <2>4. QED
      BY <1>1, <1>8, <2>1, <2>2, <2>3
  <1>9. ASSUME NEW h \in Heights, KeyGone(h) PROVE Goal
    <2>1. UNCHANGED redis /\ pending = Zero /\ pending' = Zero /\ shares' = Plus(shares, pending)
      BY <1>9 DEF KeyGone, RecordFits
    <2>2. shares'[q] = shares[q] /\ pending'[q] = pending[q]
      BY <1>1, <2>1, PlusType DEF TypeOK, Zero
    <2>3. QED
      BY <1>9, <2>1, <2>2
  <1>10. ASSUME NEW h \in Heights, Expire(h) PROVE Goal
    BY <1>10 DEF Expire, Without
  <1>11. NewBlock \/ UNCHANGED vars => UNCHANGED <<commit, redis, shares, pending>>
    BY DEF NewBlock, vars
  <1>12. /\ \A m \in Messages : Publish(m) => UNCHANGED <<commit, redis, shares, pending>>
         /\ \A c \in Consumers, m \in Messages :
              Take(c, m) => UNCHANGED <<commit, redis, shares, pending>>
         /\ \A c \in Consumers :
              Ack(c) \/ AckFails(c) => UNCHANGED <<commit, redis, shares, pending>>
         /\ \A h \in Heights : Filler(h) => UNCHANGED <<commit, redis, shares, pending>>
    BY DEF Publish, Take, Ack, AckFails, Filler
  <1> HIDE DEF Goal
  <1>13. Goal
    BY <1>2, <1>3, <1>4, <1>5, <1>6, <1>7, <1>8, <1>9, <1>10, <1>11, <1>12, CalmCases
       DEF Goal
  <1>14. QED
    BY <1>13 DEF Goal

LEMMA FreshStep ==
  ASSUME TypeOK, RecordFits, DeliveredOnce, FreshUncounted, [Next]_vars, faults' = 0
  PROVE  FreshUncounted'
  <1> SUFFICES ASSUME NEW q \in Parts, Fresh(q)'
               PROVE  redis'[q] = 0 /\ shares'[q] = 0 /\ pending'[q] = 0
    BY DEF FreshUncounted
  <1>1. Fresh(q) /\ \A c \in Consumers, e \in Edges : AddPart(c, e) => q # <<work[c].msg, e>>
    BY FreshBefore
  <1>2. redis[q] = 0 /\ shares[q] = 0 /\ pending[q] = 0
    BY <1>1 DEF FreshUncounted
  <1>3. shares'[q] \in Nat /\ pending'[q] \in Nat
    BY TypeStep DEF TypeOK
  <1>4. redis'[q] = 0
    BY <1>1, <1>2, PartsAfter
  <1>5. shares'[q] = 0 /\ pending'[q] = 0
    <2>1. ASSUME NEW u \in Users,
                 IF Height(q) = commit.cur /\ Worker(q) = u
                 THEN shares'[q] + pending'[q] = shares[q] + pending[q] + redis[q]
                 ELSE shares'[q] + pending'[q] = shares[q] + pending[q]
          PROVE  shares'[q] = 0 /\ pending'[q] = 0
      BY <1>2, <1>3, <2>1
    <2>2. QED
      BY <1>2, <2>1, PartsAfter
  <1>6. QED
    BY <1>4, <1>5

(* A record is deleted when all of it is in MariaDB, and what has been     *)
(* moved is in no record.                                                  *)
LEMMA MovedStep ==
  ASSUME TypeOK, RecordFits, DeliveredOnce, FreshUncounted, MovedOnce, [Next]_vars,
         faults' = 0
  PROVE  MovedOnce'
  <1>1. commit'.pc = "delete" => commit'.users = {}
    <2> USE DEF MovedOnce, TypeOK, CommitType, process
    <2>1. UNCHANGED commit => (commit'.pc = "delete" => commit'.users = {})
      OBVIOUS
    <2>2. /\ CommitRecord => commit'.users = {}
          /\ DeleteKey => commit'.pc = "next"
      BY DEF CommitRecord, DeleteKey
    <2>3. /\ \A h \in Heights : CommitKey(h) => commit'.pc = "user"
          /\ \A u \in Users : AddToRow(u) \/ CreateRow(u) => commit'.pc = "user"
      BY DEF CommitKey, AddToRow, CreateRow
    <2>4. /\ NewBlock \/ UNCHANGED vars => UNCHANGED commit
          /\ \A m \in Messages : Publish(m) => UNCHANGED commit
          /\ \A c \in Consumers, m \in Messages : Take(c, m) => UNCHANGED commit
          /\ \A c \in Consumers : Ack(c) \/ AckFails(c) => UNCHANGED commit
          /\ \A c \in Consumers, e \in Edges : AddPart(c, e) => UNCHANGED commit
          /\ \A h \in Heights : Filler(h) \/ Expire(h) => UNCHANGED commit
      BY DEF NewBlock, vars, Publish, Take, Ack, AckFails, AddPart, Filler, Expire
    <2>5. CommitBegin => commit'.pc = "next"
      BY DEF CommitBegin, Asleep
    <2>6. CommitEnd \/ (\E h \in Heights : KeyGone(h)) => commit'.pc = "idle"
      BY AsleepType DEF CommitEnd, KeyGone
    <2>7. QED
      BY <2>1, <2>2, <2>3, <2>4, <2>5, <2>6, CalmCases
  <1>2. ASSUME NEW q \in Parts
        PROVE  IF InHand(q)' THEN shares'[q] + pending'[q] <= 1
                             ELSE redis'[q] + shares'[q] <= 1 /\ pending'[q] = 0
    <2> DEFINE Goal == IF InHand(q)' THEN shares'[q] + pending'[q] <= 1
                                     ELSE redis'[q] + shares'[q] <= 1 /\ pending'[q] = 0
    <2>1. redis[q] \in Nat /\ shares[q] \in Nat /\ pending[q] \in Nat
      BY DEF TypeOK
    <2>2. redis'[q] \in Nat /\ shares'[q] \in Nat /\ pending'[q] \in Nat
      BY TypeStep DEF TypeOK
    <2>3. IF InHand(q) THEN shares[q] + pending[q] <= 1
                       ELSE redis[q] + shares[q] <= 1 /\ pending[q] = 0
      BY DEF MovedOnce
    <2>4. CASE UNCHANGED <<commit, redis, shares, pending>>
      BY <2>3, <2>4 DEF InHand
    <2>5. ASSUME NEW c \in Consumers, NEW e \in Edges, AddPart(c, e),
                 commit.pc = "idle", UNCHANGED <<commit, shares, pending>>,
                 redis'[q] = IF q = <<work[c].msg, e>> THEN redis[q] + 1 ELSE redis[q]
          PROVE  Goal
      <3>1. ~InHand(q) /\ ~InHand(q)'
        BY <2>5 DEF InHand
      <3>2. ASSUME q = <<work[c].msg, e>>
            PROVE  redis[q] = 0 /\ shares[q] = 0 /\ pending[q] = 0
        <4>1. Busy(c) /\ e \in work[c].todo
          BY <2>5, BusyHasMessage DEF AddPart, Busy
        <4>2. Fresh(q)
          BY <3>2, <4>1 DEF Fresh
        <4>3. QED
          BY <4>2 DEF FreshUncounted
      <3>3. QED
        BY <2>1, <2>3, <2>5, <3>1, <3>2
    <2>6. ASSUME CommitBegin, UNCHANGED redis, shares'[q] = shares[q], pending'[q] = pending[q]
          PROVE  Goal
      <3>1. ~InHand(q) /\ ~InHand(q)'
        BY <2>6 DEF CommitBegin, InHand, Asleep
      <3>2. QED
        BY <2>3, <2>6, <3>1
    <2>7. ASSUME CommitEnd, UNCHANGED redis, shares'[q] = shares[q], pending'[q] = pending[q]
          PROVE  Goal
      <3>1. ~InHand(q) /\ ~InHand(q)'
        BY <2>7 DEF CommitEnd, InHand, Asleep
      <3>2. QED
        BY <2>3, <2>7, <3>1
    <2>8. ASSUME NEW h \in Heights, CommitKey(h), UNCHANGED redis, shares'[q] = shares[q],
                 pending'[q] = pending[q]
          PROVE  Goal
      <3>1. ~InHand(q)
        BY <2>8 DEF CommitKey, InHand
      <3>2. InHand(q)' => redis[q] = 0
        <4>1. commit'.cur = h /\ commit'.users = UsersIn(h)
          BY <2>8 DEF CommitKey, TypeOK, CommitType
        <4>2. Height(q) = h /\ redis[q] > 0 => Worker(q) \in UsersIn(h)
          BY DEF UsersIn
        <4>3. QED
          BY <2>1, <4>1, <4>2 DEF InHand
      <3>3. QED
        BY <2>1, <2>3, <2>8, <3>1, <3>2
    <2>9. ASSUME CommitRecord, UNCHANGED redis, shares'[q] = shares[q] + pending[q],
                 pending'[q] = 0
          PROVE  Goal
      <3>1. /\ commit.pc = "user" /\ commit'.pc = "delete"
            /\ commit'.cur = commit.cur /\ commit'.users = commit.users
        BY <2>9 DEF CommitRecord, TypeOK, CommitType
      <3>2. InHand(q)' <=> InHand(q)
        BY <3>1 DEF InHand
      <3>3. QED
        BY <2>1, <2>3, <2>9, <3>2
    <2>10. ASSUME DeleteKey, UNCHANGED <<shares, pending>>,
                  redis'[q] = IF Height(q) = commit.cur THEN 0 ELSE redis[q]
           PROVE  Goal
      <3>1. commit.pc = "delete" /\ commit'.pc = "next"
        BY <2>10 DEF DeleteKey, TypeOK, CommitType
      <3>2. ~InHand(q)' /\ (InHand(q) <=> Height(q) = commit.cur)
        BY <3>1 DEF InHand, MovedOnce
      <3>3. pending[q] = 0
        BY <3>1 DEF RecordFits, Zero
      <3>4. QED
        BY <2>1, <2>3, <2>10, <3>2, <3>3
    <2>11. ASSUME NEW u \in Users, AddToRow(u) \/ CreateRow(u), UNCHANGED redis,
                  IF Height(q) = commit.cur /\ Worker(q) = u
                  THEN shares'[q] + pending'[q] = shares[q] + pending[q] + redis[q]
                  ELSE shares'[q] + pending'[q] = shares[q] + pending[q],
                  shares'[q] >= shares[q],
                  pending[q] = 0 /\ ~(Height(q) = commit.cur /\ Worker(q) = u)
                    => pending'[q] = 0
           PROVE  Goal
      <3>1. /\ commit.pc = "user" /\ u \in commit.users /\ commit'.pc = "user"
            /\ commit'.cur = commit.cur /\ commit'.users = commit.users \ {u}
        BY <2>11 DEF AddToRow, CreateRow, TypeOK, CommitType
      <3>2. CASE Height(q) = commit.cur /\ Worker(q) = u
        <4>1. ~InHand(q) /\ InHand(q)'
          BY <3>1, <3>2 DEF InHand
        <4>2. shares'[q] + pending'[q] = redis[q] + shares[q]
          BY <2>1, <2>2, <2>3, <2>11, <3>2, <4>1
        <4>3. QED
          BY <2>3, <4>1, <4>2
      <3>3. CASE ~(Height(q) = commit.cur /\ Worker(q) = u)
        <4>1. InHand(q)' <=> InHand(q)
          BY <3>1, <3>3 DEF InHand
        <4>2. shares'[q] + pending'[q] = shares[q] + pending[q]
          BY <2>11, <3>3
        <4>3. QED
          BY <2>1, <2>2, <2>3, <2>11, <3>3, <4>1, <4>2
      <3>4. QED
        BY <3>2, <3>3
    <2>12. ASSUME NEW h \in Heights, KeyGone(h), UNCHANGED redis, shares'[q] = shares[q],
                  pending'[q] = pending[q]
           PROVE  Goal
      <3>1. ~InHand(q) /\ ~InHand(q)'
        BY <2>12 DEF KeyGone, InHand, Asleep
      <3>2. QED
        BY <2>3, <2>12, <3>1
    <2>13. ASSUME NEW h \in Heights, Expire(h), UNCHANGED <<commit, shares, pending>>,
                  redis'[q] \in {0, redis[q]}
           PROVE  Goal
      <3>1. InHand(q)' <=> InHand(q)
        BY <2>13 DEF InHand
      <3>2. QED
        BY <2>1, <2>3, <2>13, <3>1
    <2> HIDE DEF Goal
    <2>14. Goal
      BY <2>4, <2>5, <2>6, <2>7, <2>8, <2>9, <2>10, <2>11, <2>12, <2>13, PartsAfter
      DEF Goal
    <2>15. QED
      BY <2>14 DEF Goal
  <1>3. QED
    BY <1>1, <1>2 DEF MovedOnce

(* Every share is counted once as long as nothing fails: its message is in *)
(* one place, its part is added once, and what is moved is deleted.        *)
THEOREM SharesCountedOnce == Spec => []CountedOnce
  <1>1. TypeOK /\ Kept /\ Calm /\ [Next]_vars => Calm'
    <2> SUFFICES ASSUME TypeOK, Kept, Calm, [Next]_vars, faults' = 0
                 PROVE  DeliveredOnce' /\ FreshUncounted' /\ MovedOnce'
      BY DEF Calm
    <2>1. DeliveredOnce /\ FreshUncounted /\ MovedOnce /\ RecordFits
      BY CalmCases DEF Calm, Kept
    <2>2. QED
      BY <2>1, DeliveredStep, FreshStep, MovedStep
  <1>2. TypeOK /\ Kept /\ Calm => CountedOnce
    <2> SUFFICES ASSUME TypeOK, MovedOnce, NEW q \in Parts
                 PROVE  /\ shares[q] + pending[q] <= 1
                        /\ commit.pc = "idle" => redis[q] + shares[q] <= 1
      BY DEF Calm, CountedOnce
    <2>1. redis[q] \in Nat /\ shares[q] \in Nat /\ pending[q] \in Nat
      BY DEF TypeOK
    <2>2. QED
      BY <2>1 DEF MovedOnce, InHand
  <1>3. QED
    BY <1>1, <1>2, CalmInit, ShareAggrType, AddedIsKept, PTL DEF Spec

=============================================================================
