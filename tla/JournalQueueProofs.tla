------------------------- MODULE JournalQueueProofs -------------------------
(***************************************************************************)
(* The queue of the journal service for any number of processes and        *)
(* callers and any capacity.  QueueInv follows each operation through the  *)
(* queue of its process: who holds it, and that the state of its caller    *)
(* says the same.                                                          *)
(***************************************************************************)
EXTENDS JournalService, TLAPS

Calls == {"new", "blocked", "queued", "ok", "failed", "closed", "gone"}
Ended == {"drain", "close", "done"}

In(c, s) == \E i \in DOMAIN s : s[i] = c
Once(s) == \A i, j \in DOMAIN s : s[i] = s[j] => i = j

QueueTypes ==
  /\ service \in [Process -> Services] /\ stage \in [Process -> Stages]
  /\ sendOpen \in [Process -> BOOLEAN]
  /\ buffer \in [Process -> Seq(Caller)] /\ blocked \in [Process -> Seq(Caller)]
  /\ current \in [Process -> Caller \cup {Idle}]
  /\ call \in [Caller -> Calls]

\* Where the operation of a caller of p is, and what the caller's state says.
PlaceInv(p, c) ==
  /\ In(c, buffer[p]) => Home[c] = p /\ call[c] = "queued" /\ current[p] # c
  /\ In(c, blocked[p]) => Home[c] = p /\ call[c] = "blocked"
  /\ current[p] = c => Home[c] = p /\ call[c] = "queued"
  /\ Home[c] = p /\ call[c] = "queued" => In(c, buffer[p]) \/ current[p] = c
  /\ Home[c] = p /\ call[c] = "blocked" => In(c, blocked[p])

\* The queue of p at each stage of its serving task.
LineInv(p) ==
  /\ Once(buffer[p]) /\ Once(blocked[p])
  /\ Len(buffer[p]) <= Capacity
  /\ blocked[p] # <<>> => Len(buffer[p]) = Capacity
  /\ sendOpen[p] => service[p] = "running" /\ stage[p] \notin Ended
  /\ service[p] \in {"none", "closed"} \/ stage[p] \in {"close", "done"} =>
       buffer[p] = <<>> /\ blocked[p] = <<>>
  /\ service[p] \in {"none", "closed"} \/ stage[p] \in Ended => current[p] = Idle
  /\ stage[p] \in {"write", "commit", "answer"} => current[p] # Idle
  /\ service[p] = "none" => stage[p] = "receive"
  /\ service[p] = "closed" => stage[p] = "done"

QueueInv ==
  /\ QueueTypes
  /\ \A p \in Process : LineInv(p) /\ \A c \in Caller : PlaceInv(p, c)

-----------------------------------------------------------------------------
(* Sequences without repetition.                                            *)

LEMMA Appended ==
  ASSUME NEW S, NEW s \in Seq(S), NEW e \in S
  PROVE  /\ Append(s, e) \in Seq(S) /\ Len(Append(s, e)) = Len(s) + 1
         /\ \A c : In(c, Append(s, e)) <=> In(c, s) \/ c = e
         /\ Once(s) /\ ~In(e, s) => Once(Append(s, e))
<1>1. Append(s, e) \in Seq(S) /\ Len(Append(s, e)) = Len(s) + 1 /\ Len(s) \in Nat
  OBVIOUS
<1>2. /\ DOMAIN Append(s, e) = 1 .. Len(s) + 1 /\ DOMAIN s = 1 .. Len(s)
      /\ \A i \in 1 .. Len(s) : Append(s, e)[i] = s[i]
      /\ Append(s, e)[Len(s) + 1] = e
  OBVIOUS
<1>3. ASSUME NEW c PROVE In(c, Append(s, e)) <=> In(c, s) \/ c = e
  <2>1. ASSUME In(c, Append(s, e)) PROVE In(c, s) \/ c = e
    BY <1>1, <1>2, <2>1 DEF In
  <2>2. ASSUME In(c, s) \/ c = e PROVE In(c, Append(s, e))
    BY <1>1, <1>2, <2>2 DEF In
  <2> QED BY <2>1, <2>2
<1>4. ASSUME Once(s), ~In(e, s) PROVE Once(Append(s, e))
  BY <1>1, <1>2, <1>4 DEF In, Once
<1> QED BY <1>1, <1>3, <1>4

LEMMA Headed ==
  ASSUME NEW S, NEW s \in Seq(S), s # <<>>
  PROVE  /\ Tail(s) \in Seq(S) /\ Len(Tail(s)) = Len(s) - 1 /\ Len(s) \in Nat \ {0}
         /\ Head(s) \in S /\ In(Head(s), s)
         /\ Once(s) => Once(Tail(s))
         /\ Once(s) => \A c : In(c, Tail(s)) <=> In(c, s) /\ c # Head(s)
<1>1. /\ Tail(s) \in Seq(S) /\ Len(Tail(s)) = Len(s) - 1 /\ Len(s) \in Nat \ {0}
      /\ Head(s) \in S /\ Head(s) = s[1]
  OBVIOUS
<1>2. /\ DOMAIN Tail(s) = 1 .. Len(s) - 1 /\ DOMAIN s = 1 .. Len(s)
      /\ \A i \in 1 .. Len(s) - 1 : Tail(s)[i] = s[i + 1]
  OBVIOUS
<1>3. In(Head(s), s)
  BY <1>1, <1>2 DEF In
<1>4. ASSUME Once(s) PROVE Once(Tail(s))
  BY <1>1, <1>2, <1>4 DEF Once
<1>5. ASSUME Once(s), NEW c PROVE In(c, Tail(s)) <=> In(c, s) /\ c # Head(s)
  <2>1. ASSUME In(c, Tail(s)) PROVE In(c, s) /\ c # Head(s)
    <3>1. PICK i \in 1 .. Len(s) - 1 : s[i + 1] = c
      BY <1>1, <1>2, <2>1 DEF In
    <3>2. i + 1 \in DOMAIN s /\ i + 1 # 1 /\ 1 \in DOMAIN s
      BY <1>1, <1>2
    <3> QED BY <1>1, <1>5, <3>1, <3>2 DEF In, Once
  <2>2. ASSUME In(c, s), c # Head(s) PROVE In(c, Tail(s))
    <3>1. PICK i \in 1 .. Len(s) : s[i] = c
      BY <1>2, <2>2 DEF In
    <3>2. i # 1
      BY <1>1, <2>2, <3>1
    <3>3. i - 1 \in 1 .. Len(s) - 1 /\ (i - 1) + 1 = i
      BY <1>1, <3>2
    <3> QED BY <1>2, <3>1, <3>3, Zenon DEF In
  <2> QED BY <2>1, <2>2
<1> QED BY <1>1, <1>3, <1>4, <1>5

LEMMA Nothing ==
  ASSUME NEW S
  PROVE  <<>> \in Seq(S) /\ Len(<<>>) = 0 /\ Once(<<>>) /\ \A c : ~In(c, <<>>)
BY DEF In, Once

-----------------------------------------------------------------------------
(* The queue.                                                               *)

\* Only p and its callers move.
Alone(p) ==
  /\ \A q \in Process \ {p} :
       /\ service'[q] = service[q] /\ stage'[q] = stage[q] /\ sendOpen'[q] = sendOpen[q]
       /\ buffer'[q] = buffer[q] /\ blocked'[q] = blocked[q] /\ current'[q] = current[q]
  /\ \A c \in Caller : Home[c] # p => call'[c] = call[c]

LEMMA QueueCompose ==
  ASSUME QueueInv, NEW p \in Process, QueueTypes', Alone(p), LineInv(p)',
         \A c \in Caller : PlaceInv(p, c)'
  PROVE  QueueInv'
<1>1. ASSUME NEW q \in Process \ {p} PROVE LineInv(q)'
  BY DEF QueueInv, LineInv, Alone
<1>2. ASSUME NEW q \in Process \ {p}, NEW c \in Caller PROVE PlaceInv(q, c)'
  <2>1. PlaceInv(q, c)
    BY DEF QueueInv
  <2>2. buffer'[q] = buffer[q] /\ blocked'[q] = blocked[q] /\ current'[q] = current[q]
    BY DEF Alone
  <2>3. Home[c] = q => call'[c] = call[c]
    BY DEF Alone
  <2> QED BY <2>1, <2>2, <2>3 DEF PlaceInv
<1> QED BY <1>1, <1>2 DEF QueueInv

\* A step that moves no operation.
LEMMA QueueSame ==
  ASSUME QueueInv, NEW p \in Process, UNCHANGED <<buffer, blocked, current, call>>,
         QueueTypes', LineInv(p)',
         \A q \in Process \ {p} :
           service'[q] = service[q] /\ stage'[q] = stage[q] /\ sendOpen'[q] = sendOpen[q]
  PROVE  QueueInv'
<1>1. Alone(p)
  BY DEF Alone
<1>2. ASSUME NEW c \in Caller PROVE PlaceInv(p, c)'
  BY DEF QueueInv, PlaceInv
<1> QED BY <1>1, <1>2, QueueCompose

LEMMA QueueStays ==
  ASSUME QueueInv, UNCHANGED serviceVars
  PROVE  QueueInv'
<1>1. /\ service' = service /\ sendOpen' = sendOpen /\ buffer' = buffer /\ blocked' = blocked
      /\ current' = current /\ stage' = stage /\ call' = call
  BY DEF serviceVars
<1>2. QueueTypes'
  BY <1>1 DEF QueueInv, QueueTypes
<1>3. ASSUME NEW q \in Process PROVE LineInv(q)' /\ \A c \in Caller : PlaceInv(q, c)'
  BY <1>1 DEF QueueInv, LineInv, PlaceInv
<1> QED BY <1>2, <1>3 DEF QueueInv

\* The service starts, stops accepting, ends or runs a statement.
LEMMA QueueTurns ==
  ASSUME QueueInv, NEW p \in Process,
         \/ Managed(p) \/ Aclose(p) \/ CancelServe(p) \/ EndOfStream(p) \/ RunOperation(p)
         \/ ExecuteWrite(p) \/ CommitOperation(p) \/ CloseConnection(p)
  PROVE  QueueInv'
<1>1. QueueTypes /\ LineInv(p)
  BY DEF QueueInv
<1>2. UNCHANGED <<buffer, blocked, current, call>>
  BY DEF Managed, Aclose, CancelServe, EndOfStream, RunOperation, ExecuteWrite,
         CommitOperation, CloseConnection
<1>3. PICK s \in Services, t \in Stages, o \in BOOLEAN :
        /\ service' = [service EXCEPT ![p] = s] /\ stage' = [stage EXCEPT ![p] = t]
        /\ sendOpen' = [sendOpen EXCEPT ![p] = o]
        /\ \/ service[p] = "none" /\ s = "running" /\ t = stage[p] /\ o = TRUE
           \/ service[p] = "running" /\ s = "closing" /\ t = stage[p] /\ o = FALSE
           \/ /\ service[p] \in {"running", "closing"} /\ s = service[p]
              /\ current[p] = Idle /\ t = "drain" /\ o = FALSE
           \/ /\ service[p] = "running" \/ stage[p] \in {"write", "commit"}
              /\ s = service[p] /\ current[p] # Idle /\ stage[p] \notin Ended
              /\ t \in {"write", "commit", "answer"} /\ o = sendOpen[p]
           \/ stage[p] = "close" /\ s = "closed" /\ t = "done" /\ o = sendOpen[p]
  <2>1. /\ service = [service EXCEPT ![p] = service[p]] /\ service[p] \in Services
        /\ stage = [stage EXCEPT ![p] = stage[p]] /\ stage[p] \in Stages
        /\ sendOpen = [sendOpen EXCEPT ![p] = sendOpen[p]] /\ sendOpen[p] \in BOOLEAN
    BY <1>1 DEF QueueTypes
  <2>2. CASE Managed(p)
    BY <2>1, <2>2, Zenon DEF Managed, Services
  <2>3. CASE Aclose(p)
    BY <2>1, <2>3, Zenon DEF Aclose, Services
  <2>4. CASE CancelServe(p)
    BY <2>1, <2>4, Zenon DEF CancelServe, Stage, Stages
  <2>5. CASE EndOfStream(p)
    <3>1. ~sendOpen[p]
      BY <1>1, <2>5 DEF EndOfStream, LineInv
    <3> QED BY <2>1, <2>5, <3>1 DEF EndOfStream, Stage, Stages
  <2>6. CASE RunOperation(p)
    BY <2>1, <2>6 DEF RunOperation, Stage, Stages, Ended
  <2>7. CASE ExecuteWrite(p)
    <3>1. current[p] # Idle /\ stage[p] = "write"
      BY <1>1, <2>7 DEF ExecuteWrite, LineInv
    <3>2. \E t \in {"write", "commit"} : stage' = [stage EXCEPT ![p] = t]
      BY <2>7, Zenon DEF ExecuteWrite, Stage
    <3>3. service' = service /\ sendOpen' = sendOpen
      BY <2>7 DEF ExecuteWrite
    <3> QED BY <2>1, <3>1, <3>2, <3>3, Zenon DEF Stages, Ended
  <2>8. CASE CommitOperation(p)
    BY <1>1, <2>1, <2>8 DEF CommitOperation, LineInv, Stage, Stages, Ended
  <2>9. CASE CloseConnection(p)
    BY <2>1, <2>9 DEF CloseConnection, Stage, Stages, Services
  <2> QED BY <2>2, <2>3, <2>4, <2>5, <2>6, <2>7, <2>8, <2>9, Zenon
<1>4. /\ QueueTypes'
      /\ service'[p] = s /\ stage'[p] = t /\ sendOpen'[p] = o
      /\ buffer'[p] = buffer[p] /\ blocked'[p] = blocked[p] /\ current'[p] = current[p]
      /\ \A q \in Process \ {p} :
           service'[q] = service[q] /\ stage'[q] = stage[q] /\ sendOpen'[q] = sendOpen[q]
  BY <1>1, <1>2, <1>3 DEF QueueTypes
<1>5. LineInv(p)'
  BY <1>1, <1>3, <1>4, Zenon DEF LineInv, Ended
<1> QED BY <1>2, <1>4, <1>5, QueueSame

\* The operation the serving task holds is answered.
LEMMA QueueAnswers ==
  ASSUME QueueInv, NEW p \in Process, NEW what \in Answered, Complete(p, what),
         current[p] # Idle, UNCHANGED <<service, sendOpen, buffer, blocked>>
  PROVE  QueueInv'
<1>1. QueueTypes /\ LineInv(p)
  BY DEF QueueInv
<1> DEFINE d == current[p]
<1>2. d \in Caller /\ Home[d] = p /\ call[d] = "queued"
  BY <1>1 DEF QueueTypes, QueueInv, PlaceInv
<1>3. Idle \notin Caller
  BY ServiceBounds DEF Idle
<1>4. /\ call' \in [Caller -> Calls] /\ call'[d] = what
      /\ \A c \in Caller \ {d} : call'[c] = call[c]
  BY <1>1, <1>2 DEF Complete, Answer, QueueTypes, Calls, Answered
<1>5. /\ current' \in [Process -> Caller \cup {Idle}] /\ current'[p] = Idle
      /\ stage' \in [Process -> Stages] /\ stage'[p] = "receive"
      /\ \A q \in Process \ {p} : current'[q] = current[q] /\ stage'[q] = stage[q]
  BY <1>1 DEF Complete, QueueTypes, Stages
<1>6. QueueTypes'
  BY <1>1, <1>4, <1>5 DEF QueueTypes
<1>7. Alone(p)
  BY <1>2, <1>4, <1>5 DEF Alone
<1>8. LineInv(p)'
  BY <1>1, <1>5 DEF LineInv, Ended
<1>9. ASSUME NEW c \in Caller PROVE PlaceInv(p, c)'
  <2>1. PlaceInv(p, c)
    BY DEF QueueInv
  <2>2. CASE c = d
    BY <1>2, <1>3, <1>4, <1>5, <2>1, <2>2 DEF PlaceInv, Answered
  <2>3. CASE c # d
    BY <1>3, <1>4, <1>5, <2>1, <2>3 DEF PlaceInv
  <2> QED BY <2>2, <2>3
<1> QED BY <1>6, <1>7, <1>8, <1>9, QueueCompose

LEMMA QueueReject ==
  ASSUME QueueInv, NEW p \in Process, RejectBuffered(p)
  PROVE  QueueInv'
<1>1. QueueTypes /\ LineInv(p) /\ stage[p] = "drain"
  BY DEF QueueInv, RejectBuffered
<1>2. \A c \in Caller : c \in Left(p) <=> In(c, buffer[p]) \/ In(c, blocked[p])
  BY DEF Left, In
<1>3. \A c \in Caller : call'[c] = IF c \in Left(p) THEN "closed" ELSE call[c]
  BY DEF RejectBuffered
<1>4. /\ buffer'[p] = <<>> /\ blocked'[p] = <<>> /\ stage'[p] = "close"
      /\ current' = current /\ service' = service /\ sendOpen' = sendOpen
      /\ \A q \in Process \ {p} :
           buffer'[q] = buffer[q] /\ blocked'[q] = blocked[q] /\ stage'[q] = stage[q]
  BY <1>1 DEF RejectBuffered, Stage, QueueTypes
<1>5. QueueTypes'
  <2>1. call' \in [Caller -> Calls]
    BY <1>1 DEF RejectBuffered, QueueTypes, Calls
  <2>2. /\ buffer' \in [Process -> Seq(Caller)] /\ blocked' \in [Process -> Seq(Caller)]
        /\ stage' \in [Process -> Stages]
    BY <1>1, Nothing DEF RejectBuffered, Stage, QueueTypes, Stages
  <2> QED BY <1>1, <1>4, <2>1, <2>2 DEF QueueTypes
<1>6. Alone(p)
  <2>1. \A c \in Caller : c \in Left(p) => Home[c] = p
    BY <1>2 DEF QueueInv, PlaceInv
  <2> QED BY <1>3, <1>4, <2>1 DEF Alone
<1>7. LineInv(p)'
  BY <1>1, <1>4, Nothing, ServiceBounds DEF LineInv, Ended
<1>8. ASSUME NEW c \in Caller PROVE PlaceInv(p, c)'
  <2>1. PlaceInv(p, c)
    BY DEF QueueInv
  <2>2. current'[p] = Idle /\ c # Idle
    BY <1>1, <1>4, ServiceBounds DEF LineInv, Ended, Idle
  <2>3. ~In(c, buffer'[p]) /\ ~In(c, blocked'[p])
    BY <1>4, Nothing
  <2>4. Home[c] = p => call'[c] \notin {"queued", "blocked"}
    <3>1. CASE c \in Left(p)
      BY <1>3, <3>1
    <3>2. CASE c \notin Left(p)
      BY <1>2, <1>3, <1>4, <2>1, <2>2, <3>2 DEF PlaceInv
    <3> QED BY <3>1, <3>2
  <2> QED BY <2>2, <2>3, <2>4 DEF PlaceInv
<1> QED BY <1>5, <1>6, <1>7, <1>8, QueueCompose

LEMMA QueueDies ==
  ASSUME QueueInv, NEW p \in Process, Die(p)
  PROVE  QueueInv'
<1>1. QueueTypes /\ LineInv(p)
  BY DEF QueueInv
<1>2. /\ buffer'[p] = <<>> /\ blocked'[p] = <<>> /\ stage'[p] = "receive"
      /\ current'[p] = Idle /\ service'[p] = "none" /\ ~sendOpen'[p]
  BY <1>1 DEF Die, QueueTypes
<1>3. \A q \in Process \ {p} :
        /\ service'[q] = service[q] /\ stage'[q] = stage[q] /\ sendOpen'[q] = sendOpen[q]
        /\ buffer'[q] = buffer[q] /\ blocked'[q] = blocked[q] /\ current'[q] = current[q]
  BY <1>1, Zenon DEF Die, QueueTypes
<1>4. \A c \in Caller :
        call'[c] = IF Home[c] = p /\ call[c] \in Pending THEN "gone" ELSE call[c]
  BY Zenon DEF Die
<1>5. QueueTypes'
  <2>1. call' \in [Caller -> Calls]
    BY <1>1 DEF Die, QueueTypes, Calls
  <2>2. /\ buffer' \in [Process -> Seq(Caller)] /\ blocked' \in [Process -> Seq(Caller)]
        /\ stage' \in [Process -> Stages] /\ service' \in [Process -> Services]
    BY <1>1, Nothing DEF Die, QueueTypes, Stages, Services
  <2>3. sendOpen' \in [Process -> BOOLEAN] /\ current' \in [Process -> Caller \cup {Idle}]
    BY <1>1 DEF Die, QueueTypes
  <2> QED BY <2>1, <2>2, <2>3 DEF QueueTypes
<1>6. Alone(p)
  BY <1>3, <1>4, Zenon DEF Alone
<1>7. LineInv(p)'
  <2>1. Once(buffer'[p]) /\ Once(blocked'[p]) /\ Len(buffer'[p]) <= Capacity
    <3>1. Once(<<>>) /\ Len(<<>>) = 0
      BY Nothing
    <3> QED BY <1>2, <3>1, ServiceBounds
  <2> QED BY <1>2, <2>1 DEF LineInv, Ended
<1>8. ASSUME NEW c \in Caller PROVE PlaceInv(p, c)'
  <2>1. ~In(c, buffer'[p]) /\ ~In(c, blocked'[p]) /\ current'[p] # c
    BY <1>2, Nothing, ServiceBounds DEF Idle
  <2>2. Home[c] = p => call'[c] \notin {"queued", "blocked"}
    BY <1>4 DEF Pending
  <2> QED BY <2>1, <2>2 DEF PlaceInv
<1> QED BY <1>5, <1>6, <1>7, <1>8, QueueCompose

\* A new operation is refused, handed over, queued or left to wait.
LEMMA QueueExecutes ==
  ASSUME QueueInv, NEW e \in Caller, Execute(e)
  PROVE  QueueInv'
<1> DEFINE p == Home[e]
<1>1. p \in Process /\ QueueTypes /\ LineInv(p) /\ call[e] = "new"
  BY ServiceBounds DEF QueueInv, Execute
<1>2. /\ ~In(e, buffer[p]) /\ ~In(e, blocked[p]) /\ current[p] # e
      /\ Idle \notin Caller /\ Capacity \in Nat \ {0}
  BY <1>1, ServiceBounds DEF QueueInv, PlaceInv, Idle
<1>3. service' = service /\ sendOpen' = sendOpen /\ stage' = stage
  BY Zenon DEF Execute
<1>4. buffer[p] \in Seq(Caller) /\ blocked[p] \in Seq(Caller) /\ Len(buffer[p]) \in Nat
  BY <1>1 DEF QueueTypes
<1>5. ASSUME NEW w \in {"closed", "queued", "blocked"}, call' = Answer(e, w),
             NEW b \in Seq(Caller), buffer' = [buffer EXCEPT ![p] = b],
             NEW k \in Seq(Caller), blocked' = [blocked EXCEPT ![p] = k],
             NEW h \in Caller \cup {Idle}, current' = [current EXCEPT ![p] = h],
             \/ w = "closed" /\ b = buffer[p] /\ k = blocked[p] /\ h = current[p]
             \/ /\ service[p] = "running" /\ sendOpen[p]
                /\ \/ /\ w = "queued" /\ b = buffer[p] /\ k = blocked[p]
                      /\ current[p] = Idle /\ h = e
                   \/ /\ w = "queued" /\ b = Append(buffer[p], e) /\ k = blocked[p]
                      /\ h = current[p] /\ Len(buffer[p]) < Capacity
                   \/ /\ w = "blocked" /\ b = buffer[p] /\ k = Append(blocked[p], e)
                      /\ h = current[p] /\ Len(buffer[p]) >= Capacity
      PROVE  QueueInv'
  <2>1. /\ buffer'[p] = b /\ blocked'[p] = k /\ current'[p] = h /\ call'[e] = w
        /\ stage'[p] = stage[p] /\ service'[p] = service[p] /\ sendOpen'[p] = sendOpen[p]
        /\ \A c \in Caller \ {e} : call'[c] = call[c]
    BY <1>1, <1>3, <1>5 DEF QueueTypes, Answer
  <2>2. QueueTypes'
    BY <1>1, <1>3, <1>5, Zenon DEF QueueTypes, Answer, Calls
  <2>3. Alone(p)
    BY <1>1, <1>3, <1>5, <2>1, Zenon DEF Alone, QueueTypes
  <2>4. /\ Once(b) /\ Once(k) /\ Len(b) <= Capacity
        /\ k # <<>> => Len(b) = Capacity
    <3>1. CASE b = buffer[p] /\ k = blocked[p]
      BY <1>1, <3>1 DEF LineInv
    <3>2. CASE b = Append(buffer[p], e) /\ k = blocked[p] /\ Len(buffer[p]) < Capacity
      <4>1. Once(b) /\ Len(b) = Len(buffer[p]) + 1
        BY <1>1, <1>2, <1>4, <3>2, Appended DEF LineInv
      <4> QED BY <1>1, <1>2, <1>4, <3>2, <4>1 DEF LineInv
    <3>3. CASE b = buffer[p] /\ k = Append(blocked[p], e) /\ Len(buffer[p]) >= Capacity
      <4>1. Once(k)
        BY <1>1, <1>2, <1>4, <3>3, Appended, Zenon DEF LineInv
      <4> QED BY <1>1, <1>2, <1>4, <3>3, <4>1 DEF LineInv
    <3> QED BY <1>5, <3>1, <3>2, <3>3, Zenon
  <2>5. LineInv(p)'
    <3>1. \/ b = buffer[p] /\ k = blocked[p] /\ h = current[p]
          \/ service[p] = "running" /\ stage[p] \notin Ended /\ h \in {e, current[p]}
      BY <1>1, <1>5, Zenon DEF LineInv
    <3>2. e # Idle
      BY <1>2, Zenon
    <3> QED BY <1>1, <2>1, <2>4, <3>1, <3>2 DEF LineInv, Ended
  <2>6. \A c : /\ In(c, b) <=> In(c, buffer[p]) \/ (c = e /\ b # buffer[p])
               /\ In(c, k) <=> In(c, blocked[p]) \/ (c = e /\ k # blocked[p])
    <3>1. /\ \A c : In(c, Append(buffer[p], e)) <=> In(c, buffer[p]) \/ c = e
          /\ \A c : In(c, Append(blocked[p], e)) <=> In(c, blocked[p]) \/ c = e
      BY <1>4, Appended, Zenon
    <3> QED BY <1>2, <1>5, <3>1, Zenon
  <2>7. ASSUME NEW c \in Caller PROVE PlaceInv(p, c)'
    <3>1. PlaceInv(p, c)
      BY <1>1, Zenon DEF QueueInv
    <3>2. CASE c # e
      BY <1>2, <1>5, <2>1, <2>6, <3>1, <3>2 DEF PlaceInv
    <3>3. CASE c = e
      <4>1. \/ w = "closed" /\ ~In(e, b) /\ ~In(e, k) /\ h # e
            \/ w = "queued" /\ ~In(e, b) /\ ~In(e, k) /\ h = e
            \/ w = "queued" /\ In(e, b) /\ ~In(e, k) /\ h # e
            \/ w = "blocked" /\ ~In(e, b) /\ In(e, k) /\ h # e
        <5>1. In(e, Append(buffer[p], e)) /\ In(e, Append(blocked[p], e))
          BY <1>4, Appended
        <5> QED BY <1>2, <1>5, <5>1, Zenon
      <4> QED BY <2>1, <3>3, <4>1, Zenon DEF PlaceInv
    <3> QED BY <3>2, <3>3
  <2> QED BY <1>1, <2>2, <2>3, <2>5, <2>7, QueueCompose
<1>6. /\ buffer = [buffer EXCEPT ![p] = buffer[p]]
      /\ blocked = [blocked EXCEPT ![p] = blocked[p]]
      /\ current = [current EXCEPT ![p] = current[p]] /\ current[p] \in Caller \cup {Idle}
      /\ Append(buffer[p], e) \in Seq(Caller) /\ Append(blocked[p], e) \in Seq(Caller)
  BY <1>1 DEF QueueTypes
<1>7. CASE call' = Answer(e, "closed") /\ UNCHANGED <<buffer, blocked, current>>
  BY <1>4, <1>5, <1>6, <1>7
<1>8. CASE /\ service[p] = "running" /\ sendOpen[p] /\ current[p] = Idle
           /\ current' = [current EXCEPT ![p] = e] /\ call' = Answer(e, "queued")
           /\ UNCHANGED <<buffer, blocked>>
  BY <1>4, <1>5, <1>6, <1>8, Zenon
<1>9. CASE /\ service[p] = "running" /\ sendOpen[p] /\ Len(buffer[p]) < Capacity
           /\ buffer' = [buffer EXCEPT ![p] = Append(buffer[p], e)]
           /\ call' = Answer(e, "queued") /\ UNCHANGED <<blocked, current>>
  BY <1>4, <1>5, <1>6, <1>9, Zenon
<1>10. CASE /\ service[p] = "running" /\ sendOpen[p] /\ Len(buffer[p]) >= Capacity
            /\ blocked' = [blocked EXCEPT ![p] = Append(blocked[p], e)]
            /\ call' = Answer(e, "blocked") /\ UNCHANGED <<buffer, current>>
  BY <1>4, <1>5, <1>6, <1>10, Zenon
<1> QED BY <1>7, <1>8, <1>9, <1>10, Zenon DEF Execute

\* The serving task takes the oldest operation, the first waiting one moves up.
LEMMA QueueReceives ==
  ASSUME QueueInv, NEW p \in Process, Receive(p)
  PROVE  QueueInv'
<1> DEFINE s == Shifted(p)
           h == Head(s)
<1>1. /\ QueueTypes /\ LineInv(p) /\ current[p] = Idle /\ stage[p] = "receive"
      /\ service[p] \in {"running", "closing"} /\ s # <<>>
  BY Zenon DEF QueueInv, Receive
<1>2. /\ Idle \notin Caller /\ Capacity \in Nat \ {0}
      /\ buffer[p] \in Seq(Caller) /\ blocked[p] \in Seq(Caller) /\ Len(buffer[p]) \in Nat
  BY <1>1, ServiceBounds DEF QueueTypes, Idle
<1>3. PICK m \in Caller \cup {Idle} :
        /\ \A c \in Caller : c \in Woken(p) <=> c = m
        /\ s \in Seq(Caller) /\ Once(s) /\ Unblocked(p) \in Seq(Caller) /\ Once(Unblocked(p))
        /\ \A c \in Caller : In(c, s) <=> In(c, buffer[p]) \/ c = m
        /\ \A c \in Caller : In(c, Unblocked(p)) <=> In(c, blocked[p]) /\ c # m
        /\ m # Idle => In(m, blocked[p]) /\ Len(s) = Capacity + 1
        /\ m = Idle => Len(s) <= Capacity /\ Unblocked(p) = <<>>
  <2>1. CASE blocked[p] = <<>>
    <3>1. Woken(p) = {} /\ s = buffer[p] /\ Unblocked(p) = <<>>
      BY <2>1 DEF Woken, Shifted, Unblocked
    <3>2. Once(buffer[p]) /\ Len(buffer[p]) <= Capacity
      BY <1>1 DEF LineInv
    <3>3. <<>> \in Seq(Caller) /\ Once(<<>>) /\ \A c : ~In(c, <<>>)
      BY Nothing
    <3> QED BY <1>2, <2>1, <3>1, <3>2, <3>3
  <2>2. CASE blocked[p] # <<>>
    <3> DEFINE m == Head(blocked[p])
    <3>1. Woken(p) = {m} /\ s = Append(buffer[p], m) /\ Unblocked(p) = Tail(blocked[p])
      BY <2>2 DEF Woken, Shifted, Unblocked
    <3>2. Once(buffer[p]) /\ Once(blocked[p]) /\ Len(buffer[p]) = Capacity
      BY <1>1, <2>2 DEF LineInv
    <3>3. /\ m \in Caller /\ In(m, blocked[p]) /\ Tail(blocked[p]) \in Seq(Caller)
          /\ Once(Tail(blocked[p]))
          /\ \A c : In(c, Tail(blocked[p])) <=> In(c, blocked[p]) /\ c # m
      BY <1>2, <2>2, <3>2, Headed
    <3>4. ~In(m, buffer[p])
      BY <3>3 DEF QueueInv, PlaceInv
    <3>5. /\ s \in Seq(Caller) /\ Once(s) /\ Len(s) = Capacity + 1
          /\ \A c : In(c, s) <=> In(c, buffer[p]) \/ c = m
      BY <1>2, <3>1, <3>2, <3>3, <3>4, Appended
    <3>6. m # Idle
      BY <1>2, <3>3, Zenon
    <3> HIDE DEF m, s
    <3> QED BY <3>1, <3>3, <3>5, <3>6
  <2> QED BY <2>1, <2>2, Zenon
<1>4. /\ Tail(s) \in Seq(Caller) /\ Len(Tail(s)) = Len(s) - 1 /\ h \in Caller /\ In(h, s)
      /\ Once(Tail(s)) /\ \A c : In(c, Tail(s)) <=> In(c, s) /\ c # h
  BY <1>1, <1>3, Headed
<1>5. Len(s) \in Nat
  BY <1>3
<1> HIDE DEF h, s
<1>6. /\ current' = [current EXCEPT ![p] = h] /\ buffer' = [buffer EXCEPT ![p] = Tail(s)]
      /\ blocked' = [blocked EXCEPT ![p] = Unblocked(p)]
      /\ call' = [c \in Caller |-> IF c \in Woken(p) THEN "queued" ELSE call[c]]
      /\ service' = service /\ sendOpen' = sendOpen /\ stage' = stage
  BY DEF Receive, h, s
<1>7. /\ current'[p] = h /\ buffer'[p] = Tail(s) /\ blocked'[p] = Unblocked(p)
      /\ \A c \in Caller : call'[c] = IF c = m THEN "queued" ELSE call[c]
  BY <1>1, <1>3, <1>6 DEF QueueTypes
<1>8. QueueTypes'
  <2>1. current' \in [Process -> Caller \cup {Idle}] /\ buffer' \in [Process -> Seq(Caller)]
    BY <1>1, <1>4, <1>6 DEF QueueTypes
  <2>2. blocked' \in [Process -> Seq(Caller)] /\ call' \in [Caller -> Calls]
    BY <1>1, <1>3, <1>6 DEF QueueTypes, Calls
  <2> QED BY <1>1, <1>6, <2>1, <2>2 DEF QueueTypes
<1>9. Alone(p)
  <2>1. m \in Caller => Home[m] = p
    BY <1>2, <1>3 DEF QueueInv, PlaceInv
  <2>2. \A c \in Caller : Home[c] # p => call'[c] = call[c]
    BY <1>7, <2>1
  <2> QED BY <1>1, <1>6, <2>2 DEF Alone, QueueTypes
<1>10. LineInv(p)'
  <2>1. /\ Len(Tail(s)) <= Capacity
        /\ Unblocked(p) # <<>> => Len(Tail(s)) = Capacity
    <3>1. /\ m # Idle => Len(s) = Capacity + 1
          /\ m = Idle => Len(s) <= Capacity /\ Unblocked(p) = <<>>
      BY <1>3, Zenon
    <3>2. Len(Tail(s)) = Len(s) - 1 /\ Len(s) \in Nat /\ Capacity \in Nat
      BY <1>2, <1>4, <1>5, Zenon
    <3> QED BY <3>1, <3>2
  <2>2. /\ sendOpen'[p] = sendOpen[p] /\ service'[p] = service[p] /\ stage'[p] = stage[p]
    BY <1>6
  <2> QED BY <1>1, <1>3, <1>4, <1>7, <2>1, <2>2, Zenon DEF LineInv, Ended
<1>11. ASSUME NEW c \in Caller PROVE PlaceInv(p, c)'
  <2>1. PlaceInv(p, c) /\ c # current[p]
    BY <1>1, <1>2 DEF QueueInv
  <2>2. /\ In(c, buffer'[p]) <=> (In(c, buffer[p]) \/ c = m) /\ c # h
        /\ In(c, blocked'[p]) <=> In(c, blocked[p]) /\ c # m
        /\ current'[p] = c <=> c = h
        /\ c = h => In(c, buffer[p]) \/ c = m
        /\ c = m => In(c, blocked[p])
    BY <1>2, <1>3, <1>4, <1>7, Zenon
  <2> QED BY <1>7, <2>1, <2>2, Zenon DEF PlaceInv
<1> QED BY <1>8, <1>9, <1>10, <1>11, QueueCompose

LEMMA QueueInit == Init => QueueInv
<1> SUFFICES ASSUME Init PROVE QueueInv
  OBVIOUS
<1>1. QueueTypes
  BY Nothing DEF Init, QueueTypes, Services, Stages, Calls
<1>2. Once(<<>>) /\ Len(<<>>) = 0 /\ (\A c : ~In(c, <<>>)) /\ 0 <= Capacity
  BY Nothing, ServiceBounds
<1>3. ASSUME NEW p \in Process PROVE LineInv(p)
  BY <1>2 DEF Init, LineInv, Ended
<1>4. ASSUME NEW p \in Process, NEW c \in Caller PROVE PlaceInv(p, c)
  BY <1>2, ServiceBounds DEF Init, PlaceInv, Idle
<1> QED BY <1>1, <1>3, <1>4 DEF QueueInv

LEMMA QueueNext == QueueInv /\ [Next]_vars => QueueInv'
<1> SUFFICES ASSUME QueueInv, [Next]_vars PROVE QueueInv'
  OBVIOUS
<1>1. CASE UNCHANGED vars
  BY <1>1, QueueStays DEF vars
<1>2. CASE Link /\ UNCHANGED serviceVars
  BY <1>2, QueueStays
<1>3. ASSUME NEW p \in Process, ProcessStep(p) PROVE QueueInv'
  <2>1. CASE (OpenStep(p) \/ Retry(p)) /\ UNCHANGED serviceVars
    BY <2>1, QueueStays
  <2>2. CASE Die(p)
    BY <2>2, QueueDies
  <2>3. CASE \/ Managed(p) \/ Aclose(p) \/ CancelServe(p) \/ EndOfStream(p) \/ RunOperation(p)
             \/ ExecuteWrite(p) \/ CommitOperation(p) \/ CloseConnection(p)
    BY <2>3, QueueTurns
  <2>4. CASE \/ RefuseReceived(p) \/ OperationBusy(p) \/ AnswerOperation(p)
             \/ OperationFails(p)
    <3>1. /\ \E what \in Answered : Complete(p, what)
          /\ UNCHANGED <<service, sendOpen, buffer, blocked>>
      BY <2>4 DEF RefuseReceived, OperationBusy, AnswerOperation, OperationFails, Answered
    <3>2. current[p] # Idle
      BY <2>4, Zenon DEF RefuseReceived, OperationBusy, AnswerOperation, OperationFails,
                  QueueInv, LineInv
    <3> QED BY <3>1, <3>2, QueueAnswers
  <2>5. CASE Receive(p)
    BY <2>5, QueueReceives
  <2>6. CASE RejectBuffered(p)
    BY <2>6, QueueReject
  <2> QED BY <1>3, <2>1, <2>2, <2>3, <2>4, <2>5, <2>6 DEF ProcessStep, ServeStep
<1>4. ASSUME NEW c \in Caller, Execute(c) PROVE QueueInv'
  BY <1>4, QueueExecutes
<1> QED BY <1>1, <1>2, <1>3, <1>4 DEF Next

LEMMA QueueInvariance == Spec => []QueueInv
BY QueueInit, QueueNext, PTL DEF Spec

LEMMA OneOfThree ==
  ASSUME NEW A, NEW B, NEW C,
         \/ (\E x : A = {x}) /\ B = {} /\ C = {}
         \/ A = {} /\ (\E x : B = {x}) /\ C = {}
         \/ A = {} /\ B = {} /\ \E x : C = {x}
  PROVE  \E x : A \cup B \cup C = {x}
BY Zenon

\* In a queue without repetition an operation has one place, or none.
LEMMA OnePlace ==
  ASSUME NEW s, NEW c, Once(s), NEW name
  PROVE  /\ In(c, s) => \E x : {<<name, i>> : i \in {i \in DOMAIN s : s[i] = c}} = {x}
         /\ ~In(c, s) => {<<name, i>> : i \in {i \in DOMAIN s : s[i] = c}} = {}
<1>1. CASE In(c, s)
  <2>1. PICK i \in DOMAIN s : s[i] = c
    BY <1>1 DEF In
  <2>2. {j \in DOMAIN s : s[j] = c} = {i}
    BY <2>1 DEF Once
  <2>3. {<<name, j>> : j \in {i}} = {<<name, i>>}
    BY Zenon
  <2> QED BY <1>1, <2>2, <2>3, Zenon
<1>2. CASE ~In(c, s)
  <2>1. {j \in DOMAIN s : s[j] = c} = {}
    BY <1>2 DEF In
  <2> QED BY <1>2, <2>1
<1> QED BY <1>1, <1>2

\* An operation that waits for its answer is held once by the service of its
\* process, a service that is closed holds none, and a sender waits only while the
\* queue is full: execute, aclose, _serve and _reject_buffered_operations lose no
\* caller, for any number of processes and callers and any queue_capacity.
THEOREM PendingOperationsAreHeld == Spec => []PendingIsHeld
<1>1. QueueInv => PendingIsHeld
  <2> SUFFICES ASSUME QueueInv PROVE PendingIsHeld
    OBVIOUS
  <2> DEFINE Buffered(p, c) == {<<"buffer", i>> : i \in {i \in DOMAIN buffer[p] : buffer[p][i] = c}}
             Waiting(p, c) == {<<"blocked", i>> : i \in {i \in DOMAIN blocked[p] : blocked[p][i] = c}}
             Running(p, c) == IF current[p] = c THEN {<<"current", 0>>} ELSE {}
  <2>1. ASSUME NEW p \in Process, NEW c \in Caller
        PROVE  /\ Holds(p, c) = Buffered(p, c) \cup Waiting(p, c) \cup Running(p, c)
               /\ (In(c, buffer[p]) => \E x : Buffered(p, c) = {x}) /\ (~In(c, buffer[p]) => Buffered(p, c) = {})
               /\ (In(c, blocked[p]) => \E x : Waiting(p, c) = {x}) /\ (~In(c, blocked[p]) => Waiting(p, c) = {})
               /\ (current[p] = c => \E x : Running(p, c) = {x}) /\ (current[p] # c => Running(p, c) = {})
    <3>1. Once(buffer[p]) /\ Once(blocked[p])
      BY DEF QueueInv, LineInv
    <3>2. Holds(p, c) = Buffered(p, c) \cup Waiting(p, c) \cup Running(p, c)
      BY DEF Holds
    <3>3. (In(c, buffer[p]) => \E x : Buffered(p, c) = {x}) /\ (~In(c, buffer[p]) => Buffered(p, c) = {})
      BY <3>1, OnePlace, Zenon
    <3>4. (In(c, blocked[p]) => \E x : Waiting(p, c) = {x}) /\ (~In(c, blocked[p]) => Waiting(p, c) = {})
      BY <3>1, OnePlace, Zenon
    <3>5. (current[p] = c => \E x : Running(p, c) = {x}) /\ (current[p] # c => Running(p, c) = {})
      BY Zenon
    <3> HIDE DEF Buffered, Waiting, Running
    <3> QED BY <3>2, <3>3, <3>4, <3>5, Zenon
  <2> HIDE DEF Buffered, Waiting, Running
  <2>2. ASSUME NEW c \in Caller
        PROVE  IF call[c] \in Pending
               THEN \E place \in Holds(Home[c], c) : Holds(Home[c], c) = {place}
               ELSE Holds(Home[c], c) = {}
    <3>1. Home[c] \in Process
      BY ServiceBounds
    <3>2. PlaceInv(Home[c], c)
      BY <3>1, Zenon DEF QueueInv
    <3> DEFINE q == Home[c]
    <3>3. /\ Holds(q, c) = Buffered(q, c) \cup Waiting(q, c) \cup Running(q, c)
          /\ (In(c, buffer[q]) => \E x : Buffered(q, c) = {x})
          /\ (~In(c, buffer[q]) => Buffered(q, c) = {})
          /\ (In(c, blocked[q]) => \E x : Waiting(q, c) = {x})
          /\ (~In(c, blocked[q]) => Waiting(q, c) = {})
          /\ (current[q] = c => \E x : Running(q, c) = {x})
          /\ (current[q] # c => Running(q, c) = {})
      BY <2>1, <3>1, Zenon
    <3>4. CASE call[c] = "queued"
      <4>1. ~In(c, blocked[q])
        BY <3>2, <3>4 DEF PlaceInv
      <4>2. \/ In(c, buffer[q]) /\ current[q] # c
            \/ ~In(c, buffer[q]) /\ current[q] = c
        BY <3>2, <3>4, Zenon DEF PlaceInv
      <4>3. \E x : Holds(q, c) = {x}
        BY <3>3, <4>1, <4>2, OneOfThree, Zenon
      <4> QED BY <3>4, <4>3 DEF Pending
    <3>5. CASE call[c] = "blocked"
      <4>1. In(c, blocked[q]) /\ ~In(c, buffer[q]) /\ current[q] # c
        BY <3>2, <3>5 DEF PlaceInv
      <4>2. \E x : Holds(q, c) = {x}
        BY <3>3, <4>1, OneOfThree, Zenon
      <4> QED BY <3>5, <4>2 DEF Pending
    <3>6. CASE call[c] \notin Pending
      <4>1. ~In(c, blocked[q]) /\ ~In(c, buffer[q]) /\ current[q] # c
        BY <3>2, <3>6 DEF PlaceInv, Pending
      <4>2. Holds(q, c) = {}
        BY <3>3, <4>1, Zenon
      <4> QED BY <3>6, <4>2
    <3> QED BY <3>4, <3>5, <3>6 DEF Pending
  <2>3. ASSUME NEW p \in Process, service[p] \in {"none", "closed"}, NEW c \in Caller
        PROVE  Holds(p, c) = {}
    <3>1. buffer[p] = <<>> /\ blocked[p] = <<>> /\ current[p] = Idle
      BY <2>3 DEF QueueInv, LineInv
    <3>2. ~In(c, buffer[p]) /\ ~In(c, blocked[p]) /\ current[p] # c
      BY <3>1, Nothing, ServiceBounds DEF Idle
    <3> QED BY <2>1, <3>2
  <2>4. ASSUME NEW p \in Process, blocked[p] # <<>> PROVE Len(buffer[p]) = Capacity
    BY <2>4 DEF QueueInv, LineInv
  <2> QED BY <2>2, <2>3, <2>4, Zenon DEF PendingIsHeld
<1> QED BY <1>1, QueueInvariance, PTL
=============================================================================
