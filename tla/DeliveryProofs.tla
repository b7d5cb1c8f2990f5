--------------------------- MODULE DeliveryProofs ---------------------------
(***************************************************************************)
(* No recipient gets and no provider is asked more than the faults explain.*)
(* The argument: a message is in one place at a time, waiting for its      *)
(* turn, in the hands of one request or of the worker, or with its jobs;   *)
(* so the number an attempt took from the row is still right when it       *)
(* writes the row, and what is left to try is the attempts the row allows  *)
(* and one more for each further job.                                      *)
(***************************************************************************)
EXTENDS Delivery, TLAPS

Work == [step : Steps, msg : Messages \cup {NoMessage}, no : Nat,
         rest : Seq(Messages), retry : BOOLEAN]
Holding == {"read", "giveUp", "send", "sent", "failed", "schedule"}

(* What a slot holds, and that it is the only one to hold it.               *)
HoldsOne ==
  \A s \in Slots :
    /\ slot[s].msg # NoMessage <=> slot[s].step \in Holding
    /\ \A q \in Slots : slot[s].msg = slot[q].msg /\ slot[s].msg # NoMessage => s = q
    /\ s \in Requests => \A m \in Messages : slot[s].msg = m => fresh[m] = 0 /\ again[m] = 0
WorkerHasNoRest == slot[Worker].rest = <<>> /\ ~At(Worker, "next")

(* A message whose turn has not come: nothing is known of it yet.           *)
Untouched(m) ==
  /\ status[m] = "none" /\ attempts[m] = 0 /\ got[m] = 0 /\ calls[m] = 0
  /\ fresh[m] = 0 /\ again[m] = 0
  /\ \A s \in Slots : slot[s].msg # m
WaitsOnce ==
  /\ \A s \in Slots : \A i \in DOMAIN slot[s].rest : Untouched(slot[s].rest[i])
  /\ \A s, q \in Slots : \A i \in DOMAIN slot[s].rest, j \in DOMAIN slot[q].rest :
       slot[s].rest[i] = slot[q].rest[j] => s = q /\ i = j
  /\ \A c \in Contacts \ taken : \A i \in DOMAIN c :
       /\ Untouched(c[i])
       /\ \A s \in Slots : \A j \in DOMAIN slot[s].rest : slot[s].rest[j] # c[i]

(* An attempt writes the number after the row's, and only the attempt that  *)
(* was taken has made the row sent.                                         *)
RowIsItsOwn ==
  \A s \in Slots : slot[s].step \in {"giveUp", "send", "sent", "failed"} =>
    slot[s].no = attempts[slot[s].msg] + 1 /\ status[slot[s].msg] # "sent"

GotInv ==
  \A m \in Messages :
    \/ got[m] <= faults
    \/ /\ got[m] <= 1 + faults
       /\ status[m] = "sent" \/ \E s \in Slots : slot[s].msg = m /\ At(s, "sent")

(* What may still be tried: by the row, by the jobs, and by who holds it.   *)
Left(a) == IF a < MaxAttempts THEN MaxAttempts - 1 - a ELSE 0
Spent(m) == calls[m] + fresh[m] + again[m] + Left(attempts[m])
Allowed == MaxAttempts + faults + stalls
CallsInv ==
  /\ \A m \in Messages : Spent(m) <= Allowed
  /\ \A s \in Slots, m \in Messages :
       slot[s].msg = m /\ slot[s].step \in {"read", "giveUp", "send", "schedule"} =>
         Spent(m) + 1 <= Allowed

DeliveryIInv ==
  TypeOK /\ HoldsOne /\ WorkerHasNoRest /\ WaitsOnce /\ RowIsItsOwn /\ GotInv /\ CallsInv
-----------------------------------------------------------------------------
LEMMA WorkTyped ==
  ASSUME TypeOK, NEW s \in Slots
  PROVE  /\ slot[s] \in Work /\ slot[s].step \in Steps
         /\ slot[s].msg \in Messages \cup {NoMessage}
         /\ slot[s].no \in Nat /\ slot[s].rest \in Seq(Messages) /\ slot[s].retry \in BOOLEAN
BY DEF TypeOK, Work

LEMMA IdleTyped ==
  /\ Idle \in Work /\ Idle.step = "idle" /\ Idle.msg = NoMessage /\ Idle.rest = <<>>
  /\ Idle.no = 0 /\ Idle.retry = FALSE
<1>1. <<>> \in Seq(Messages) /\ "idle" \in Steps /\ 0 \in Nat
  BY DEF Steps
<1> QED BY <1>1 DEF Idle, Work

LEMMA NextTyped ==
  ASSUME NEW rest \in Seq(Messages)
  PROVE  LET w == [Idle EXCEPT !.step = "next", !.rest = rest] IN
           /\ w \in Work /\ w.step = "next" /\ w.msg = NoMessage /\ w.rest = rest
<1>1. "next" \in Steps
  BY DEF Steps
<1> QED BY <1>1 DEF Idle, Work

LEMMA LeftIsNat ==
  ASSUME NEW a \in Nat
  PROVE  /\ Left(a) \in Nat /\ Left(a + 1) \in Nat
         /\ Left(a + 1) <= Left(a) /\ Left(a) <= MaxAttempts - 1
         /\ a + 1 < MaxAttempts => Left(a + 1) = Left(a) - 1
BY DeliveryAssumption DEF Left

LEMMA SpentIsNat ==
  ASSUME TypeOK, NEW m \in Messages
  PROVE  Spent(m) \in Nat
<1>1. calls[m] \in Nat /\ fresh[m] \in Nat /\ again[m] \in Nat /\ attempts[m] \in Nat
  BY DEF TypeOK
<1> QED BY <1>1, LeftIsNat DEF Spent

LEMMA AllowedGrows ==
  ASSUME TypeOK, faults' \in 0..MaxFaults, stalls' \in 0..MaxStalls,
         faults <= faults', stalls <= stalls'
  PROVE  Allowed \in Nat /\ Allowed' \in Nat /\ Allowed <= Allowed'
<1>1. /\ faults \in Nat /\ stalls \in Nat /\ faults' \in Nat /\ stalls' \in Nat
      /\ MaxAttempts \in Nat
  BY DeliveryAssumption DEF TypeOK
<1>2. Allowed = MaxAttempts + faults + stalls /\ Allowed' = MaxAttempts + faults' + stalls'
  BY DEF Allowed
<1>3. \A a, f, g, t, u \in Nat : f <= g /\ t <= u =>
        a + f + t \in Nat /\ a + g + u \in Nat /\ a + f + t <= a + g + u
  OBVIOUS
<1> QED BY <1>1, <1>2, <1>3

(* One slot changes.                                                        *)
LEMMA SlotSet ==
  ASSUME TypeOK, NEW s \in Slots, NEW w \in Work, slot' = [slot EXCEPT ![s] = w]
  PROVE  /\ slot' \in [Slots -> Work] /\ slot'[s] = w
         /\ \A q \in Slots \ {s} : slot'[q] = slot[q]
BY DEF TypeOK, Work

(* The variables that only count.                                           *)
Counted ==
  /\ status' \in [Messages -> NotificationStatus \cup {"none"}]
  /\ attempts' \in [Messages -> Nat] /\ got' \in [Messages -> Nat]
  /\ calls' \in [Messages -> Nat]
  /\ fresh' \in [Messages -> Nat] /\ again' \in [Messages -> Nat]
  /\ faults' \in 0..MaxFaults /\ stalls' \in 0..MaxStalls
  /\ faults <= faults' /\ stalls <= stalls'
OthersLeftAlone(m) ==
  \A n \in Messages \ {m} :
    /\ status'[n] = status[n] /\ attempts'[n] = attempts[n]
    /\ got'[n] = got[n] /\ calls'[n] = calls[n]
    /\ fresh'[n] = fresh[n] /\ again'[n] = again[n]

(* A slot goes on with the message it holds, or lets it go: what is to be   *)
(* seen of that message alone.                                              *)
LEMMA MessageMoves ==
  ASSUME DeliveryIInv, NEW s \in Slots, NEW m \in Messages, ~Untouched(m),
         slot[s].msg \in {m, NoMessage}, \A q \in Slots \ {s} : slot[q].msg # m,
         NEW w \in Work, slot' = [slot EXCEPT ![s] = w],
         w.msg \in {m, NoMessage}, w.msg # NoMessage <=> w.step \in Holding,
         w.rest = slot[s].rest, s = Worker => w.step # "next",
         Counted, OthersLeftAlone(m),
         UNCHANGED <<channels, redis, taken, outages>>,
         s \in Requests /\ w.msg = m => fresh'[m] = 0 /\ again'[m] = 0,
         w.step \in {"giveUp", "send", "sent", "failed"} =>
           w.no = attempts'[m] + 1 /\ status'[m] # "sent",
         \/ got'[m] <= faults'
         \/ /\ got'[m] <= 1 + faults'
            /\ status'[m] = "sent" \/ w.step = "sent",
         Spent(m)' <= Allowed',
         w.step \in {"read", "giveUp", "send", "schedule"} => Spent(m)' + 1 <= Allowed'
  PROVE  DeliveryIInv'
<1> USE DEF DeliveryIInv
<1>1. /\ slot' \in [Slots -> Work] /\ slot'[s] = w
      /\ \A q \in Slots \ {s} : slot'[q] = slot[q]
  BY SlotSet
<1>2. m # NoMessage /\ \A q \in Slots \ {s} : slot[q].msg # m
  BY DeliveryAssumption
<1>3. TypeOK'
  BY <1>1 DEF TypeOK, Counted, Work
<1>4. HoldsOne'
  <2>1. ASSUME NEW q \in Slots
        PROVE  slot'[q].msg # NoMessage <=> slot'[q].step \in Holding
    BY <1>1 DEF HoldsOne
  <2>2. ASSUME NEW q \in Slots, NEW p \in Slots, slot'[q].msg = slot'[p].msg,
               slot'[q].msg # NoMessage
        PROVE  q = p
    BY <1>1, <1>2, <2>2 DEF HoldsOne
  <2>3. ASSUME NEW q \in Requests, NEW n \in Messages, slot'[q].msg = n
        PROVE  fresh'[n] = 0 /\ again'[n] = 0
    <3>1. q \in Slots
      BY DEF Slots
    <3>2. CASE q = s
      BY <1>1, <1>2, <2>3, <3>2, DeliveryAssumption
    <3>3. CASE q # s
      BY <1>1, <1>2, <2>3, <3>1, <3>3 DEF HoldsOne, OthersLeftAlone
    <3> QED BY <3>2, <3>3
  <2> QED BY <2>1, <2>2, <2>3 DEF HoldsOne
<1>5. WorkerHasNoRest'
  BY <1>1 DEF WorkerHasNoRest, At, Slots
<1>6. WaitsOnce'
  <2>1. \A q \in Slots : slot'[q].rest = slot[q].rest
    BY <1>1
  <2>2. ASSUME NEW n \in Messages, Untouched(n)
        PROVE  Untouched(n)'
    <3>1. n # m
      BY <2>2 DEF Untouched
    <3>2. \A q \in Slots : slot'[q].msg # n
      BY <1>1, <2>2, <3>1, DeliveryAssumption DEF Untouched
    <3> QED BY <2>2, <3>1, <3>2 DEF Untouched, OthersLeftAlone
  <2>3. \A q \in Slots : \A i \in DOMAIN slot[q].rest : slot[q].rest[i] \in Messages
    BY WorkTyped
  <2>4. \A c \in Contacts : \A i \in DOMAIN c : c[i] \in Messages
    BY DeliveryAssumption
  <2> QED BY <2>1, <2>2, <2>3, <2>4 DEF WaitsOnce
<1>7. RowIsItsOwn'
  <2>1. ASSUME NEW q \in Slots, slot'[q].step \in {"giveUp", "send", "sent", "failed"}
        PROVE  slot'[q].no = attempts'[slot'[q].msg] + 1 /\ status'[slot'[q].msg] # "sent"
    <3>1. CASE q = s
      BY <1>1, <2>1, <3>1 DEF Holding
    <3>2. CASE q # s
      <4>1. slot'[q] = slot[q] /\ slot[q].msg \in Messages \ {m}
        BY <1>1, <1>2, <2>1, <3>2, WorkTyped DEF HoldsOne, Holding
      <4> QED BY <2>1, <4>1 DEF RowIsItsOwn, OthersLeftAlone
    <3> QED BY <3>1, <3>2
  <2> QED BY <2>1 DEF RowIsItsOwn
<1>8. GotInv'
  <2>1. ASSUME NEW n \in Messages, ~(got'[n] <= faults')
        PROVE  /\ got'[n] <= 1 + faults'
               /\ status'[n] = "sent" \/ \E q \in Slots : slot'[q].msg = n /\ slot'[q].step = "sent"
    <3>1. CASE n = m
      BY <1>1, <2>1, <3>1 DEF Holding
    <3>2. CASE n # m
      <4>1. got'[n] = got[n] /\ status'[n] = status[n] /\ got[n] \in Nat /\ faults \in Nat
            /\ faults' \in Nat /\ faults <= faults'
        BY <3>2 DEF OthersLeftAlone, TypeOK, Counted
      <4>2. /\ got[n] <= 1 + faults
            /\ status[n] = "sent" \/ \E q \in Slots : slot[q].msg = n /\ slot[q].step = "sent"
        BY <2>1, <4>1 DEF GotInv, At
      <4>3. \A q \in Slots : slot[q].msg = n => slot'[q] = slot[q]
        BY <1>1, <3>2, DeliveryAssumption
      <4> QED BY <4>1, <4>2, <4>3
    <3> QED BY <3>1, <3>2
  <2> QED BY <2>1 DEF GotInv, At
<1>9. CallsInv'
  <2>1. Allowed \in Nat /\ Allowed' \in Nat /\ Allowed <= Allowed'
    BY AllowedGrows DEF Counted
  <2>2. \A n \in Messages \ {m} : Spent(n)' = Spent(n) /\ Spent(n) \in Nat
    BY SpentIsNat DEF Spent, OthersLeftAlone, Left
  <2>3. \A n \in Messages : Spent(n)' <= Allowed'
    BY <2>1, <2>2 DEF CallsInv
  <2>4. ASSUME NEW q \in Slots, NEW n \in Messages, slot'[q].msg = n,
               slot'[q].step \in {"read", "giveUp", "send", "schedule"}
        PROVE  Spent(n)' + 1 <= Allowed'
    <3>1. CASE q = s
      BY <1>1, <1>2, <2>4, <3>1, DeliveryAssumption
    <3>2. CASE q # s
      <4>1. slot'[q] = slot[q] /\ n # m
        BY <1>1, <1>2, <2>4, <3>2
      <4>2. Spent(n) + 1 <= Allowed
        BY <2>4, <4>1 DEF CallsInv
      <4> QED BY <2>1, <2>2, <4>1, <4>2
    <3> QED BY <3>1, <3>2
  <2> QED BY <2>3, <2>4 DEF CallsInv
<1> QED BY <1>3, <1>4, <1>5, <1>6, <1>7, <1>8, <1>9

LEMMA HolderMoves ==
  ASSUME DeliveryIInv, NEW s \in Slots, NEW m \in Messages, slot[s].msg = m,
         NEW w \in Work, slot' = [slot EXCEPT ![s] = w],
         w.msg \in {m, NoMessage}, w.msg # NoMessage <=> w.step \in Holding,
         w.rest = slot[s].rest, s = Worker => w.step # "next",
         Counted, OthersLeftAlone(m),
         UNCHANGED <<channels, redis, taken, outages>>,
         s \in Requests /\ w.msg = m => fresh'[m] = 0 /\ again'[m] = 0,
         w.step \in {"giveUp", "send", "sent", "failed"} =>
           w.no = attempts'[m] + 1 /\ status'[m] # "sent",
         \/ got'[m] <= faults'
         \/ /\ got'[m] <= 1 + faults'
            /\ status'[m] = "sent" \/ w.step = "sent",
         Spent(m)' <= Allowed',
         w.step \in {"read", "giveUp", "send", "schedule"} => Spent(m)' + 1 <= Allowed'
  PROVE  DeliveryIInv'
<1>1. \A q \in Slots \ {s} : slot[q].msg # m
  BY DeliveryAssumption DEF DeliveryIInv, HoldsOne
<1>2. ~Untouched(m)
  BY DEF Untouched
<1> QED BY <1>1, <1>2, MessageMoves


(* What is known of a slot at work, and of the message it holds.            *)
LEMMA Holder ==
  ASSUME DeliveryIInv, NEW s \in Slots, slot[s].step \in Holding
  PROVE  /\ slot[s] \in Work /\ slot[s].msg \in Messages
         /\ s = Worker => slot[s].rest = <<>>
<1>1. slot[s] \in Work /\ slot[s].msg \in Messages \cup {NoMessage}
  BY WorkTyped DEF DeliveryIInv
<1>2. slot[s].msg # NoMessage
  BY DEF DeliveryIInv, HoldsOne
<1>3. s = Worker => slot[s].rest = <<>>
  BY DEF DeliveryIInv, WorkerHasNoRest
<1> QED BY <1>1, <1>2, <1>3

LEMMA Held ==
  ASSUME DeliveryIInv, NEW s \in Slots, slot[s].step \in Holding,
         NEW m \in Messages, slot[s].msg = m
  PROVE  /\ slot[s].no \in Nat
         /\ status[m] \in NotificationStatus \cup {"none"}
         /\ attempts[m] \in Nat /\ got[m] \in Nat /\ calls[m] \in Nat
         /\ fresh[m] \in Nat /\ again[m] \in Nat /\ faults \in Nat /\ stalls \in Nat
         /\ s \in Requests => fresh[m] = 0 /\ again[m] = 0
         /\ slot[s].step \in {"giveUp", "send", "sent", "failed"} =>
              slot[s].no = attempts[m] + 1 /\ status[m] # "sent"
         /\ got[m] <= 1 + faults
         /\ status[m] # "sent" /\ slot[s].step # "sent" => got[m] <= faults
         /\ Spent(m) <= Allowed
         /\ slot[s].step \in {"read", "giveUp", "send", "schedule"} => Spent(m) + 1 <= Allowed
<1>1. /\ slot[s].no \in Nat
      /\ status[m] \in NotificationStatus \cup {"none"}
      /\ attempts[m] \in Nat /\ got[m] \in Nat /\ calls[m] \in Nat
      /\ fresh[m] \in Nat /\ again[m] \in Nat /\ faults \in Nat /\ stalls \in Nat
  BY WorkTyped, DeliveryAssumption DEF DeliveryIInv, TypeOK
<1>2. s \in Requests => fresh[m] = 0 /\ again[m] = 0
  BY DEF DeliveryIInv, HoldsOne
<1>3. \A q \in Slots : slot[q].msg = m => q = s
  BY DeliveryAssumption DEF DeliveryIInv, HoldsOne
<1>4. slot[s].step \in {"giveUp", "send", "sent", "failed"} =>
        slot[s].no = attempts[m] + 1 /\ status[m] # "sent"
  BY DEF DeliveryIInv, RowIsItsOwn
<1>5. /\ got[m] <= 1 + faults
      /\ status[m] # "sent" /\ slot[s].step # "sent" => got[m] <= faults
  <2>1. got[m] <= faults => got[m] <= 1 + faults
    BY <1>1
  <2> QED BY <1>3, <2>1 DEF DeliveryIInv, GotInv, At
<1>6. /\ Spent(m) <= Allowed
      /\ slot[s].step \in {"read", "giveUp", "send", "schedule"} => Spent(m) + 1 <= Allowed
  BY DEF DeliveryIInv, CallsInv
<1> QED BY <1>1, <1>2, <1>4, <1>5, <1>6


(* Returning lets the message go and keeps the rest.                        *)
LEMMA Returns ==
  ASSUME DeliveryIInv, NEW s \in Slots, slot[s].step \in Holding, Return(s)
  PROVE  \E w \in Work :
           /\ slot' = [slot EXCEPT ![s] = w]
           /\ w.msg = NoMessage /\ w.step \in {"idle", "next"}
           /\ w.rest = slot[s].rest /\ (s = Worker => w.step # "next")
<1>1. CASE s = Worker
  <2>1. slot' = [slot EXCEPT ![s] = Idle]
    BY <1>1 DEF Return
  <2> QED BY <1>1, <2>1, IdleTyped, Holder
<1>2. CASE s # Worker
  <2> DEFINE w == [Idle EXCEPT !.step = "next", !.rest = slot[s].rest]
  <2>1. slot' = [slot EXCEPT ![s] = w]
    BY <1>2 DEF Return
  <2>2. slot[s].rest \in Seq(Messages)
    BY WorkTyped DEF DeliveryIInv
  <2>3. w \in Work /\ w.step = "next" /\ w.msg = NoMessage /\ w.rest = slot[s].rest
    BY <2>2, NextTyped
  <2> HIDE DEF w
  <2> QED BY <1>2, <2>1, <2>3
<1> QED BY <1>1, <1>2

(* Going on keeps the message, the rest and the number.                     *)
LEMMA Goes ==
  ASSUME DeliveryIInv, NEW s \in Slots, slot[s].step \in Holding,
         NEW step \in Steps, Goto(s, step)
  PROVE  \E w \in Work :
           /\ slot' = [slot EXCEPT ![s] = w]
           /\ w.msg = slot[s].msg /\ w.step = step /\ w.no = slot[s].no
           /\ w.rest = slot[s].rest
<1> DEFINE w == [slot[s] EXCEPT !.step = step]
<1>1. slot[s] \in Work
  BY WorkTyped DEF DeliveryIInv
<1>2. /\ w \in Work /\ w.msg = slot[s].msg /\ w.step = step /\ w.no = slot[s].no
      /\ w.rest = slot[s].rest
  BY <1>1 DEF Work
<1>3. slot' = [slot EXCEPT ![s] = w]
  BY DEF Goto, DeliveryIInv, TypeOK
<1> HIDE DEF w
<1> QED BY <1>2, <1>3

(* Reading the row: over, or on to the attempt its number allows.           *)
LEMMA ReadRowKeeps ==
  ASSUME DeliveryIInv, NEW s \in Slots, ReadRow(s), NEW m \in Messages, slot[s].msg = m
  PROVE  DeliveryIInv'
<1>1. /\ slot[s].step = "read" /\ slot[s].step \in Holding
      /\ UNCHANGED <<status, attempts, fresh, again, got, calls, faults, stalls>>
      /\ UNCHANGED <<channels, redis, taken, outages>>
  BY DEF ReadRow, At, Holding, Rows, Jobs, History, Bounds
<1>2. slot[s] \in Work
  BY <1>1, Holder
<1>3. Counted /\ OthersLeftAlone(m)
  BY <1>1 DEF Counted, OthersLeftAlone, DeliveryIInv, TypeOK
<1>4. Spent(m)' = Spent(m) /\ Allowed' = Allowed
  BY <1>1 DEF Spent, Allowed, Left
<1>5. /\ attempts[m] \in Nat
      /\ s \in Requests => fresh[m] = 0 /\ again[m] = 0
      /\ got[m] <= 1 + faults
      /\ status[m] # "sent" => got[m] <= faults
      /\ Spent(m) <= Allowed /\ Spent(m) + 1 <= Allowed
  BY <1>1, Held
<1>7. \E w \in Work :
        /\ slot' = [slot EXCEPT ![s] = w]
        /\ w.rest = slot[s].rest /\ (s = Worker => w.step # "next")
        /\ \/ w.msg = NoMessage /\ w.step \in {"idle", "next"}
           \/ /\ w.msg = m /\ w.step \in {"send", "giveUp"} /\ w.no = attempts[m] + 1
              /\ status[m] # "sent"
  <2>1. CASE Over(m)
    <3>1. Return(s)
      BY <2>1 DEF ReadRow
    <3>2. PICK w \in Work :
           /\ slot' = [slot EXCEPT ![s] = w]
           /\ w.msg = NoMessage /\ w.step \in {"idle", "next"}
           /\ w.rest = slot[s].rest /\ (s = Worker => w.step # "next")
      BY <1>1, <3>1, Returns
    <3> QED BY <3>2
  <2>2. CASE ~Over(m)
    <3> DEFINE w == [slot[s] EXCEPT !.step = IF IsChannelAvailable(m) THEN "send" ELSE "giveUp",
                                    !.no = attempts[m] + 1]
    <3>1. slot' = [slot EXCEPT ![s] = w]
      BY <2>2 DEF ReadRow, DeliveryIInv, TypeOK
    <3>2. "send" \in Steps /\ "giveUp" \in Steps /\ attempts[m] + 1 \in Nat
      BY <1>5 DEF Steps
    <3>3. /\ w \in Work /\ w.rest = slot[s].rest /\ w.msg = m
          /\ w.step \in {"send", "giveUp"} /\ w.no = attempts[m] + 1
      BY <1>2, <3>2 DEF Work
    <3>4. status[m] # "sent"
      BY <2>2 DEF Over
    <3> HIDE DEF w
    <3> QED BY <3>1, <3>3, <3>4
  <2> QED BY <2>1, <2>2
<1>8. PICK w \in Work :
        /\ slot' = [slot EXCEPT ![s] = w]
        /\ w.rest = slot[s].rest /\ (s = Worker => w.step # "next")
        /\ \/ w.msg = NoMessage /\ w.step \in {"idle", "next"}
           \/ /\ w.msg = m /\ w.step \in {"send", "giveUp"} /\ w.no = attempts[m] + 1
              /\ status[m] # "sent"
  BY <1>7
<1>9. /\ w.msg \in {m, NoMessage} /\ (w.msg # NoMessage <=> w.step \in Holding)
      /\ s = Worker => w.step # "next"
  BY <1>8, DeliveryAssumption DEF Holding
<1>10. /\ s \in Requests /\ w.msg = m => fresh'[m] = 0 /\ again'[m] = 0
       /\ w.step \in {"giveUp", "send", "sent", "failed"} =>
            w.no = attempts'[m] + 1 /\ status'[m] # "sent"
       /\ \/ got'[m] <= faults'
          \/ /\ got'[m] <= 1 + faults'
             /\ status'[m] = "sent" \/ w.step = "sent"
  BY <1>1, <1>5, <1>8
<1>11. Spent(m)' <= Allowed'
       /\ (w.step \in {"read", "giveUp", "send", "schedule"} => Spent(m)' + 1 <= Allowed')
  BY <1>4, <1>5
<1> QED BY <1>1, <1>3, <1>8, <1>9, <1>10, <1>11, HolderMoves
(* The two ways an attempt moves: it lets its message go, or goes on to     *)
(* another step with it.                                                    *)
LEMMA LetsGo ==
  ASSUME DeliveryIInv, NEW s \in Slots, slot[s].step \in Holding, Return(s),
         NEW m \in Messages, slot[s].msg = m, Counted, OthersLeftAlone(m),
         UNCHANGED <<channels, redis, taken, outages>>,
         got'[m] <= faults' \/ (got'[m] <= 1 + faults' /\ status'[m] = "sent"),
         Spent(m)' <= Allowed'
  PROVE  DeliveryIInv'
<1>1. PICK w \in Work :
        /\ slot' = [slot EXCEPT ![s] = w]
        /\ w.msg = NoMessage /\ w.step \in {"idle", "next"}
        /\ w.rest = slot[s].rest /\ (s = Worker => w.step # "next")
  BY Returns
<1>2. w.msg # m /\ w.step \notin Holding
  BY <1>1, DeliveryAssumption DEF Holding
<1>3. w.step \notin {"read", "giveUp", "send", "schedule", "sent", "failed"}
  BY <1>1
<1> QED BY <1>1, <1>2, <1>3, HolderMoves

LEMMA GoesOn ==
  ASSUME DeliveryIInv, NEW s \in Slots, slot[s].step \in Holding,
         NEW step \in {"sent", "failed", "schedule"}, Goto(s, step),
         NEW m \in Messages, slot[s].msg = m, Counted, OthersLeftAlone(m),
         UNCHANGED <<channels, redis, taken, outages, fresh, again>>,
         step # "schedule" => slot[s].no = attempts'[m] + 1 /\ status'[m] # "sent",
         got'[m] <= faults' \/ (got'[m] <= 1 + faults' /\ step = "sent"),
         Spent(m)' <= Allowed',
         step = "schedule" => Spent(m)' + 1 <= Allowed'
  PROVE  DeliveryIInv'
<1>1. step \in Steps /\ step \in Holding /\ step # "next"
  BY DEF Steps, Holding
<1>2. PICK w \in Work :
        /\ slot' = [slot EXCEPT ![s] = w]
        /\ w.msg = slot[s].msg /\ w.step = step /\ w.no = slot[s].no
        /\ w.rest = slot[s].rest
  BY <1>1, Goes
<1>3. s \in Requests => fresh[m] = 0 /\ again[m] = 0
  BY Held
<1>4. m # NoMessage
  BY DeliveryAssumption
<1> QED BY <1>1, <1>2, <1>3, <1>4, HolderMoves

(* Giving up, for want of a channel, costs no call.                         *)
LEMMA GiveUpKeeps ==
  ASSUME DeliveryIInv, NEW s \in Slots, GiveUp(s), NEW m \in Messages, slot[s].msg = m
  PROVE  DeliveryIInv'
<1>1. /\ slot[s].step = "giveUp" /\ slot[s].step \in Holding /\ Return(s)
      /\ status' = [status EXCEPT ![m] = "failed"]
      /\ attempts' = [attempts EXCEPT ![m] = slot[s].no]
      /\ UNCHANGED <<fresh, again, got, calls, faults, stalls>>
      /\ UNCHANGED <<channels, redis, taken, outages>>
  BY DEF GiveUp, At, Holding, Jobs, History, Bounds
<1>2. /\ slot[s].no = attempts[m] + 1 /\ attempts[m] \in Nat
      /\ calls[m] \in Nat /\ fresh[m] \in Nat /\ again[m] \in Nat
      /\ got[m] <= faults /\ Spent(m) <= Allowed
  BY <1>1, Held
<1>3. attempts'[m] = attempts[m] + 1
  BY <1>1, <1>2 DEF DeliveryIInv, TypeOK
<1>4. Counted /\ OthersLeftAlone(m)
  BY <1>1, <1>2 DEF Counted, OthersLeftAlone, DeliveryIInv, TypeOK, NotificationStatus
<1>5. Spent(m)' <= Allowed'
  <2>1. /\ Spent(m)' = calls[m] + fresh[m] + again[m] + Left(attempts[m] + 1)
        /\ Allowed' = Allowed
    BY <1>1, <1>3 DEF Spent, Allowed, Left
  <2>2. Left(attempts[m] + 1) <= Left(attempts[m]) /\ Left(attempts[m]) \in Nat
        /\ Left(attempts[m] + 1) \in Nat
    BY <1>2, LeftIsNat
  <2>3. Allowed \in Nat
    BY AllowedGrows, <1>4 DEF Counted, DeliveryIInv
  <2> QED BY <1>2, <2>1, <2>2, <2>3 DEF Spent
<1> QED BY <1>1, <1>2, <1>4, <1>5, LetsGo

LEMMA Bumped ==
  ASSUME NEW f, NEW g, f \in [Messages -> Nat], NEW m \in Messages,
         g = f \/ g = [f EXCEPT ![m] = @ + 1]
  PROVE  /\ g \in [Messages -> Nat]
         /\ \A n \in Messages \ {m} : g[n] = f[n]
         /\ g[m] = f[m] \/ g[m] = f[m] + 1
<1>1. CASE g = f
  BY <1>1
<1>2. CASE g = [f EXCEPT ![m] = @ + 1]
  <2>1. f[m] + 1 \in Nat
    OBVIOUS
  <2> QED BY <1>2, <2>1
<1> QED BY <1>1, <1>2

(* A call: it spends the one the attempt had, and only a fault lets a       *)
(* message arrive that is not then marked.                                  *)
LEMMA SendKeeps ==
  ASSUME DeliveryIInv, NEW s \in Slots, Send(s), NEW m \in Messages, slot[s].msg = m
  PROVE  DeliveryIInv'
<1>1. /\ slot[s].step = "send" /\ slot[s].step \in Holding
      /\ calls' = [calls EXCEPT ![m] = @ + 1]
      /\ UNCHANGED <<status, attempts, fresh, again, stalls>>
      /\ UNCHANGED <<channels, redis, taken, outages>>
  BY DEF Send, At, Holding, Rows, Jobs
<1>2. /\ slot[s].no = attempts[m] + 1 /\ attempts[m] \in Nat /\ status[m] # "sent"
      /\ calls[m] \in Nat /\ fresh[m] \in Nat /\ again[m] \in Nat
      /\ got[m] \in Nat /\ faults \in Nat /\ stalls \in Nat
      /\ got[m] <= faults /\ Spent(m) + 1 <= Allowed
  BY <1>1, Held
<1>3. PICK step \in {"sent", "failed"} :
        /\ Goto(s, step)
        /\ \/ /\ got' = [got EXCEPT ![m] = @ + 1] /\ step = "sent" /\ faults' = faults
           \/ /\ got' = got /\ faults' = faults
           \/ /\ got' = [got EXCEPT ![m] = @ + 1] /\ faults < MaxFaults /\ faults' = faults + 1
  BY DEF Send, NoFault, Fault
<1>4. /\ faults' \in 0..MaxFaults /\ faults <= faults'
      /\ \/ got'[m] <= faults'
         \/ got'[m] <= 1 + faults' /\ step = "sent"
  <2>1. faults \in 0..MaxFaults /\ MaxFaults \in Nat /\ got \in [Messages -> Nat]
    BY DeliveryAssumption DEF DeliveryIInv, TypeOK
  <2> QED BY <1>2, <1>3, <2>1
<1>5. Counted /\ OthersLeftAlone(m)
  <2>1. /\ calls' \in [Messages -> Nat]
        /\ \A n \in Messages \ {m} : calls'[n] = calls[n]
    BY <1>1, <1>2 DEF DeliveryIInv, TypeOK
  <2>2. /\ got' \in [Messages -> Nat]
        /\ \A n \in Messages \ {m} : got'[n] = got[n]
    <3>1. got \in [Messages -> Nat] /\ (got' = got \/ got' = [got EXCEPT ![m] = @ + 1])
      BY <1>3 DEF DeliveryIInv, TypeOK
    <3> QED BY <3>1, Bumped
  <2>3. /\ status' = status /\ attempts' = attempts /\ fresh' = fresh /\ again' = again
        /\ stalls' = stalls
    BY <1>1
  <2>4. stalls' <= stalls' /\ stalls' \in 0..MaxStalls
    BY <1>2, <2>3 DEF DeliveryIInv, TypeOK
  <2> QED BY <1>4, <2>1, <2>2, <2>3, <2>4 DEF Counted, OthersLeftAlone, DeliveryIInv, TypeOK
<1>6. Spent(m)' <= Allowed'
  <2>1. calls'[m] = calls[m] + 1
    BY <1>1 DEF DeliveryIInv, TypeOK
  <2>2. Spent(m)' = calls[m] + 1 + fresh[m] + again[m] + Left(attempts[m])
    BY <1>1, <2>1 DEF Spent, Left
  <2>3. Allowed \in Nat /\ Allowed' \in Nat /\ Allowed <= Allowed'
    BY AllowedGrows, <1>5 DEF Counted, DeliveryIInv
  <2>4. Left(attempts[m]) \in Nat
    BY <1>2, LeftIsNat
  <2> QED BY <1>2, <2>2, <2>3, <2>4 DEF Spent
<1> QED BY <1>1, <1>2, <1>3, <1>4, <1>5, <1>6, GoesOn

(* The answer is recorded, or its loss is a fault.                          *)
LEMMA MarkSentKeeps ==
  ASSUME DeliveryIInv, NEW s \in Slots, MarkSent(s), NEW m \in Messages, slot[s].msg = m
  PROVE  DeliveryIInv'
<1>1. /\ slot[s].step = "sent" /\ slot[s].step \in Holding
      /\ UNCHANGED <<fresh, again, got, calls, stalls>>
      /\ UNCHANGED <<channels, redis, taken, outages>>
  BY DEF MarkSent, At, Holding, Jobs, History
<1>2. /\ slot[s].no = attempts[m] + 1 /\ attempts[m] \in Nat /\ status[m] # "sent"
      /\ calls[m] \in Nat /\ fresh[m] \in Nat /\ again[m] \in Nat
      /\ got[m] <= 1 + faults /\ Spent(m) <= Allowed
      /\ faults \in Nat /\ stalls \in Nat /\ got[m] \in Nat
  BY <1>1, Held
<1>3. faults \in 0..MaxFaults /\ MaxFaults \in Nat
  BY DeliveryAssumption DEF DeliveryIInv, TypeOK
<1>4. CASE /\ status' = [status EXCEPT ![m] = "sent"]
           /\ attempts' = [attempts EXCEPT ![m] = slot[s].no]
           /\ Return(s) /\ NoFault
  <2>1. attempts'[m] = attempts[m] + 1 /\ status'[m] = "sent" /\ faults' = faults
    BY <1>2, <1>4 DEF DeliveryIInv, TypeOK, NoFault
  <2>2. Counted /\ OthersLeftAlone(m)
    BY <1>1, <1>2, <1>3, <1>4, <2>1
    DEF Counted, OthersLeftAlone, DeliveryIInv, TypeOK, NotificationStatus
  <2>3. Spent(m)' <= Allowed'
    <3>1. /\ Spent(m)' = calls[m] + fresh[m] + again[m] + Left(attempts[m] + 1)
          /\ Allowed' = Allowed
      BY <1>1, <2>1 DEF Spent, Allowed, Left
    <3>2. Left(attempts[m] + 1) <= Left(attempts[m]) /\ Left(attempts[m]) \in Nat
          /\ Left(attempts[m] + 1) \in Nat
      BY <1>2, LeftIsNat
    <3>3. Allowed \in Nat
      BY AllowedGrows, <2>2 DEF Counted, DeliveryIInv
    <3> QED BY <1>2, <3>1, <3>2, <3>3 DEF Spent
  <2> QED BY <1>1, <1>2, <1>4, <2>1, <2>2, <2>3, LetsGo
<1>5. CASE Fault /\ Goto(s, "failed") /\ UNCHANGED Rows
  <2>1. /\ faults' = faults + 1 /\ faults < MaxFaults
        /\ UNCHANGED <<status, attempts>>
    BY <1>5 DEF Fault, Rows
  <2>2. Counted /\ OthersLeftAlone(m)
    BY <1>1, <1>2, <1>3, <2>1 DEF Counted, OthersLeftAlone, DeliveryIInv, TypeOK
  <2>3. Spent(m)' = Spent(m)
    BY <1>1, <2>1 DEF Spent, Left
  <2>4. Allowed \in Nat /\ Allowed' \in Nat /\ Allowed <= Allowed'
    BY AllowedGrows, <2>2 DEF Counted, DeliveryIInv
  <2>5. Spent(m)' <= Allowed' /\ got'[m] <= faults'
    <3>1. Spent(m) \in Nat
      BY SpentIsNat DEF DeliveryIInv
    <3> QED BY <1>1, <1>2, <2>1, <2>3, <2>4, <3>1
  <2> QED BY <1>1, <1>2, <1>5, <2>1, <2>2, <2>5, GoesOn
<1> QED BY <1>4, <1>5 DEF MarkSent
(* A failed call is retried while the row allows it: the job that is then   *)
(* scheduled is the attempt that is left.                                   *)
LEMMA MarkFailedKeeps ==
  ASSUME DeliveryIInv, NEW s \in Slots, MarkFailed(s), NEW m \in Messages, slot[s].msg = m
  PROVE  DeliveryIInv'
<1>1. /\ slot[s].step = "failed" /\ slot[s].step \in Holding
      /\ UNCHANGED <<fresh, again, got, calls, stalls>>
      /\ UNCHANGED <<channels, redis, taken, outages>>
  BY DEF MarkFailed, At, Holding, Jobs, History
<1>2. /\ slot[s].no = attempts[m] + 1 /\ attempts[m] \in Nat /\ status[m] # "sent"
      /\ calls[m] \in Nat /\ fresh[m] \in Nat /\ again[m] \in Nat
      /\ got[m] <= faults /\ Spent(m) <= Allowed
      /\ faults \in Nat /\ stalls \in Nat /\ got[m] \in Nat
  BY <1>1, Held
<1>3. faults \in 0..MaxFaults /\ MaxFaults \in Nat
  BY DeliveryAssumption DEF DeliveryIInv, TypeOK
<1>4. CASE /\ status' = [status EXCEPT ![m] = Outcome(slot[s].no)]
           /\ attempts' = [attempts EXCEPT ![m] = slot[s].no]
           /\ IF Retryable(slot[s].no) THEN Goto(s, "schedule") ELSE Return(s)
           /\ NoFault
  <2>1. attempts'[m] = attempts[m] + 1 /\ faults' = faults
    BY <1>2, <1>4 DEF DeliveryIInv, TypeOK, NoFault
  <2>2. Outcome(slot[s].no) \in {"queued", "failed"}
    BY DEF Outcome
  <2>3. Counted /\ OthersLeftAlone(m)
    BY <1>1, <1>2, <1>3, <1>4, <2>1, <2>2
    DEF Counted, OthersLeftAlone, DeliveryIInv, TypeOK, NotificationStatus
  <2>4. /\ Spent(m)' = calls[m] + fresh[m] + again[m] + Left(attempts[m] + 1)
        /\ Allowed' = Allowed
    BY <1>1, <2>1 DEF Spent, Allowed, Left
  <2>5. /\ Left(attempts[m] + 1) <= Left(attempts[m]) /\ Left(attempts[m]) \in Nat
        /\ Left(attempts[m] + 1) \in Nat
        /\ attempts[m] + 1 < MaxAttempts => Left(attempts[m] + 1) = Left(attempts[m]) - 1
    BY <1>2, LeftIsNat
  <2>6. Allowed \in Nat
    BY AllowedGrows, <2>3 DEF Counted, DeliveryIInv
  <2>7. Spent(m)' <= Allowed'
    BY <1>2, <2>4, <2>5, <2>6 DEF Spent
  <2>8. CASE Retryable(slot[s].no)
    <3>1. Spent(m)' + 1 <= Allowed'
      BY <1>2, <2>4, <2>5, <2>6, <2>8 DEF Spent, Retryable
    <3>2. Goto(s, "schedule")
      BY <1>4, <2>8
    <3>3. got'[m] <= faults'
      BY <1>1, <1>2, <2>1
    <3> QED BY <1>1, <2>3, <2>7, <3>1, <3>2, <3>3, GoesOn
  <2>9. CASE ~Retryable(slot[s].no)
    <3>1. Return(s) /\ got'[m] <= faults'
      BY <1>1, <1>2, <1>4, <2>1, <2>9
    <3> QED BY <1>1, <2>3, <2>7, <3>1, LetsGo
  <2> QED BY <2>8, <2>9
<1>5. CASE Fault /\ Return(s) /\ UNCHANGED Rows
  <2>1. /\ faults' = faults + 1 /\ faults < MaxFaults
        /\ UNCHANGED <<status, attempts>>
    BY <1>5 DEF Fault, Rows
  <2>2. Counted /\ OthersLeftAlone(m)
    BY <1>1, <1>2, <1>3, <2>1 DEF Counted, OthersLeftAlone, DeliveryIInv, TypeOK
  <2>3. Spent(m)' = Spent(m)
    BY <1>1, <2>1 DEF Spent, Left
  <2>4. Allowed \in Nat /\ Allowed' \in Nat /\ Allowed <= Allowed'
    BY AllowedGrows, <2>2 DEF Counted, DeliveryIInv
  <2>5. Spent(m)' <= Allowed' /\ got'[m] <= faults'
    <3>1. Spent(m) \in Nat
      BY SpentIsNat DEF DeliveryIInv
    <3> QED BY <1>1, <1>2, <2>1, <2>3, <2>4, <3>1
  <2> QED BY <1>1, <1>5, <2>2, <2>5, LetsGo
<1> QED BY <1>4, <1>5 DEF MarkFailed

(* The scheduled job takes over the attempt that its request gives up.      *)
LEMMA ScheduleRetryKeeps ==
  ASSUME DeliveryIInv, NEW s \in Slots, ScheduleRetry(s), NEW m \in Messages, slot[s].msg = m
  PROVE  DeliveryIInv'
<1>1. /\ slot[s].step = "schedule" /\ slot[s].step \in Holding /\ Return(s)
      /\ UNCHANGED <<status, attempts, again, got, calls, stalls>>
      /\ UNCHANGED <<channels, taken, outages, redis>>
      /\ \/ fresh' = [fresh EXCEPT ![m] = @ + 1] /\ faults' = faults
         \/ fresh' = fresh /\ faults' = faults + 1 /\ faults < MaxFaults
  BY DEF ScheduleRetry, At, Holding, Rows, History, EnqueueNotificationRetry, Fault, NoFault
<1>2. /\ attempts[m] \in Nat /\ calls[m] \in Nat /\ fresh[m] \in Nat /\ again[m] \in Nat
      /\ got[m] <= 1 + faults /\ (status[m] # "sent" => got[m] <= faults)
      /\ Spent(m) + 1 <= Allowed
      /\ faults \in Nat /\ stalls \in Nat /\ got[m] \in Nat
  BY <1>1, Held
<1>3. faults \in 0..MaxFaults /\ MaxFaults \in Nat /\ faults' \in 0..MaxFaults
      /\ faults <= faults'
  BY <1>1, <1>2, DeliveryAssumption DEF DeliveryIInv, TypeOK
<1>4. Counted /\ OthersLeftAlone(m)
  <2>1. /\ fresh' \in [Messages -> Nat]
        /\ \A n \in Messages \ {m} : fresh'[n] = fresh[n]
    <3>1. fresh \in [Messages -> Nat] /\ (fresh' = fresh \/ fresh' = [fresh EXCEPT ![m] = @ + 1])
      BY <1>1 DEF DeliveryIInv, TypeOK
    <3> QED BY <3>1, Bumped
  <2>2. /\ status' = status /\ attempts' = attempts /\ again' = again /\ got' = got
        /\ calls' = calls /\ stalls' = stalls
    BY <1>1
  <2>3. stalls' <= stalls' /\ stalls' \in 0..MaxStalls
    BY <1>2, <2>2 DEF DeliveryIInv, TypeOK
  <2> QED BY <1>3, <2>1, <2>2, <2>3 DEF Counted, OthersLeftAlone, DeliveryIInv, TypeOK
<1>5. Spent(m)' <= Allowed'
  <2>1. fresh'[m] = fresh[m] \/ fresh'[m] = fresh[m] + 1
    BY <1>1 DEF DeliveryIInv, TypeOK
  <2>2. Spent(m)' = calls[m] + fresh'[m] + again[m] + Left(attempts[m])
    BY <1>1 DEF Spent, Left
  <2>3. Allowed \in Nat /\ Allowed' \in Nat /\ Allowed <= Allowed'
    BY AllowedGrows, <1>4 DEF Counted, DeliveryIInv
  <2>4. Left(attempts[m]) \in Nat
    BY <1>2, LeftIsNat
  <2> QED BY <1>2, <2>1, <2>2, <2>3, <2>4 DEF Spent
<1>6. got'[m] <= faults' \/ (got'[m] <= 1 + faults' /\ status'[m] = "sent")
  BY <1>1, <1>2, <1>3
<1> QED BY <1>1, <1>4, <1>5, <1>6, LetsGo

LEMMA AttemptKeeps ==
  ASSUME DeliveryIInv, NEW s \in Slots, Attempt(s)
  PROVE  DeliveryIInv'
<1>1. slot[s].step \in Holding
  BY DEF Attempt, ReadRow, GiveUp, Send, MarkSent, MarkFailed, ScheduleRetry, At, Holding
<1>2. PICK m \in Messages : slot[s].msg = m
  BY <1>1, Holder
<1> QED BY <1>2, ReadRowKeeps, GiveUpKeeps, SendKeeps, MarkSentKeeps, MarkFailedKeeps,
           ScheduleRetryKeeps DEF Attempt
-----------------------------------------------------------------------------
(* A job is taken: the attempt is the worker's now.                         *)
LEMMA TakeJobKeeps ==
  ASSUME DeliveryIInv, NEW m \in Messages, TakeJob(m)
  PROVE  DeliveryIInv'
<1> DEFINE w == [Idle EXCEPT !.step = "read", !.msg = m, !.retry = (again' # again)]
<1>1. /\ slot[Worker].step = "idle" /\ slot' = [slot EXCEPT ![Worker] = w]
      /\ UNCHANGED <<status, attempts, got, calls, faults, stalls>>
      /\ UNCHANGED <<channels, redis, taken, outages>>
      /\ \/ fresh[m] > 0 /\ fresh' = [fresh EXCEPT ![m] = @ - 1] /\ again' = again
         \/ again[m] > 0 /\ again' = [again EXCEPT ![m] = @ - 1] /\ fresh' = fresh
  BY DEF TakeJob, At, Rows, History, Bounds, Due
<1>2. /\ fresh \in [Messages -> Nat] /\ again \in [Messages -> Nat]
      /\ calls[m] \in Nat /\ attempts[m] \in Nat /\ got[m] \in Nat /\ faults \in Nat
      /\ calls \in [Messages -> Nat] /\ attempts \in [Messages -> Nat]
      /\ got \in [Messages -> Nat] /\ stalls \in Nat /\ Worker \in Slots
      /\ status \in [Messages -> NotificationStatus \cup {"none"}]
      /\ faults \in 0..MaxFaults /\ stalls \in 0..MaxStalls
  BY DeliveryAssumption DEF DeliveryIInv, TypeOK, Slots
<1>3. /\ fresh' \in [Messages -> Nat] /\ again' \in [Messages -> Nat]
      /\ \A n \in Messages \ {m} : fresh'[n] = fresh[n] /\ again'[n] = again[n]
      /\ fresh'[m] + again'[m] + 1 = fresh[m] + again[m]
  <2>1. CASE fresh[m] > 0 /\ fresh' = [fresh EXCEPT ![m] = @ - 1] /\ again' = again
    BY <1>2, <2>1
  <2>2. CASE again[m] > 0 /\ again' = [again EXCEPT ![m] = @ - 1] /\ fresh' = fresh
    BY <1>2, <2>2
  <2> QED BY <1>1, <2>1, <2>2
<1>4. fresh[m] # 0 \/ again[m] # 0
  BY <1>1
<1>5. \A q \in Slots \ {Worker} : slot[q].msg # m
  BY <1>4 DEF DeliveryIInv, HoldsOne, Slots
<1>6. slot[Worker].msg = NoMessage /\ slot[Worker].rest = <<>>
  BY <1>1, <1>2 DEF DeliveryIInv, HoldsOne, Holding, WorkerHasNoRest
<1>7. w \in Work /\ w.msg = m /\ w.step = "read" /\ w.rest = <<>>
  <2>1. "read" \in Steps /\ <<>> \in Seq(Messages)
    BY DEF Steps
  <2>2. (again' # again) \in BOOLEAN
    OBVIOUS
  <2> QED BY <2>1, <2>2 DEF Work, Idle
<1>8. Counted /\ OthersLeftAlone(m)
  <2>1. faults <= faults /\ stalls <= stalls
    BY <1>2
  <2> QED BY <1>1, <1>2, <1>3, <2>1 DEF Counted, OthersLeftAlone
<1>9. Spent(m)' + 1 = Spent(m) /\ Spent(m) <= Allowed /\ Allowed' = Allowed
      /\ Spent(m)' \in Nat /\ Allowed \in Nat
  <2>1. Spent(m)' = calls[m] + fresh'[m] + again'[m] + Left(attempts[m])
    BY <1>1 DEF Spent, Left
  <2>2. Left(attempts[m]) \in Nat
    BY <1>2, LeftIsNat
  <2>3. Allowed' = Allowed /\ Spent(m) <= Allowed
    BY <1>1 DEF Allowed, DeliveryIInv, CallsInv
  <2>4. Allowed \in Nat
    BY AllowedGrows, <1>8 DEF Counted, DeliveryIInv
  <2>5. fresh'[m] \in Nat /\ again'[m] \in Nat /\ fresh[m] \in Nat /\ again[m] \in Nat
    BY <1>2, <1>3
  <2> QED BY <1>2, <1>3, <2>1, <2>2, <2>3, <2>4, <2>5 DEF Spent
<1>10. ~Untouched(m)
  BY <1>4 DEF Untouched
<1>11. got'[m] <= faults' \/ (got'[m] <= 1 + faults' /\ status'[m] = "sent")
  BY <1>1, <1>2, <1>5, <1>6, DeliveryAssumption DEF DeliveryIInv, GotInv
<1>12. m # NoMessage /\ Worker \notin Requests
  BY DeliveryAssumption
<1> HIDE DEF w
<1>13. w.step \in Holding /\ w.step \notin {"giveUp", "send", "sent", "failed", "next"}
  BY <1>7 DEF Holding
<1>14. Spent(m)' <= Allowed' /\ Spent(m)' + 1 <= Allowed'
  BY <1>9
<1> QED BY <1>1, <1>2, <1>5, <1>6, <1>7, <1>8, <1>10, <1>11, <1>12, <1>13, <1>14, MessageMoves

(* A job handed out again is one more attempt, for one more stall.          *)
LEMMA StallKeeps ==
  ASSUME DeliveryIInv, Stall, NEW m \in Messages, slot[Worker].msg = m
  PROVE  DeliveryIInv'
<1> DEFINE w == [slot[Worker] EXCEPT !.retry = TRUE]
<1>1. /\ slot[Worker].step # "idle" /\ slot' = [slot EXCEPT ![Worker] = w]
      /\ UNCHANGED <<status, attempts, fresh, got, calls, faults>>
      /\ UNCHANGED <<channels, redis, taken, outages>>
      /\ again' = [again EXCEPT ![m] = @ + 1]
      /\ stalls < MaxStalls /\ stalls' = stalls + 1
  BY DEF Stall, At, Rows, History, DeliveryIInv, TypeOK, Slots
<1>2. /\ Worker \in Slots /\ m # NoMessage /\ Worker \notin Requests
      /\ stalls \in 0..MaxStalls /\ MaxStalls \in Nat /\ faults \in 0..MaxFaults
      /\ faults \in Nat /\ stalls \in Nat /\ MaxAttempts \in Nat
  BY DeliveryAssumption DEF DeliveryIInv, TypeOK, Slots
<1>3. slot[Worker].step \in Holding
  BY <1>2 DEF DeliveryIInv, HoldsOne
<1>4. /\ attempts[m] \in Nat /\ got[m] \in Nat /\ calls[m] \in Nat
      /\ fresh[m] \in Nat /\ again[m] \in Nat
      /\ slot[Worker].step \in {"giveUp", "send", "sent", "failed"} =>
           slot[Worker].no = attempts[m] + 1 /\ status[m] # "sent"
      /\ got[m] <= 1 + faults
      /\ status[m] # "sent" /\ slot[Worker].step # "sent" => got[m] <= faults
      /\ Spent(m) <= Allowed
      /\ slot[Worker].step \in {"read", "giveUp", "send", "schedule"} => Spent(m) + 1 <= Allowed
  BY <1>2, <1>3, Held
<1>5. /\ w \in Work /\ w.msg = m /\ w.step = slot[Worker].step /\ w.no = slot[Worker].no
      /\ w.rest = slot[Worker].rest
  <2>1. slot[Worker] \in Work
    BY <1>2, WorkTyped DEF DeliveryIInv
  <2> QED BY <2>1 DEF Work
<1>6. /\ again' \in [Messages -> Nat] /\ again'[m] = again[m] + 1
      /\ \A n \in Messages \ {m} : again'[n] = again[n]
  <2>1. again \in [Messages -> Nat]
    BY DEF DeliveryIInv, TypeOK
  <2> QED BY <1>1, <1>4, <2>1
<1>7. Counted /\ OthersLeftAlone(m)
  <2>1. stalls' \in 0..MaxStalls /\ stalls <= stalls' /\ faults <= faults'
    BY <1>1, <1>2
  <2> QED BY <1>1, <1>2, <1>6, <2>1 DEF Counted, OthersLeftAlone, DeliveryIInv, TypeOK
<1>8. Spent(m)' = Spent(m) + 1 /\ Allowed' = Allowed + 1 /\ Spent(m) \in Nat /\ Allowed \in Nat
  <2>1. Spent(m)' = calls[m] + fresh[m] + (again[m] + 1) + Left(attempts[m])
    BY <1>1, <1>6 DEF Spent, Left
  <2>2. Left(attempts[m]) \in Nat
    BY <1>4, LeftIsNat
  <2> QED BY <1>1, <1>2, <1>4, <2>1, <2>2 DEF Spent, Allowed
<1>9. /\ Spent(m)' <= Allowed'
      /\ w.step \in {"read", "giveUp", "send", "schedule"} => Spent(m)' + 1 <= Allowed'
  BY <1>4, <1>5, <1>8
<1>10. w.step # "next" /\ w.step \in Holding
  BY <1>3, <1>5 DEF Holding
<1>11. \/ got'[m] <= faults'
       \/ /\ got'[m] <= 1 + faults'
          /\ status'[m] = "sent" \/ w.step = "sent"
  BY <1>1, <1>4, <1>5
<1>12. w.step \in {"giveUp", "send", "sent", "failed"} =>
         w.no = attempts'[m] + 1 /\ status'[m] # "sent"
  BY <1>1, <1>4, <1>5
<1> HIDE DEF w
<1> QED BY <1>1, <1>2, <1>5, <1>7, <1>9, <1>10, <1>11, <1>12, HolderMoves

(* A crash lets every message go and gives back the job of the worker; what *)
(* was on its way is explained by this fault.                               *)
LEMMA CrashKeeps ==
  ASSUME DeliveryIInv, Crash
  PROVE  DeliveryIInv'
<1> USE DEF DeliveryIInv
<1>1. /\ slot' = [s \in Slots |-> Idle] /\ channels' \in {Messages, Messages \ Optional}
      /\ faults' = faults + 1 /\ faults < MaxFaults
      /\ UNCHANGED <<status, attempts, fresh, redis, taken, got, calls, stalls, outages>>
  BY DEF Crash, Fault, Rows, History
<1>2. /\ Worker \in Slots /\ faults \in Nat /\ stalls \in Nat /\ MaxFaults \in Nat
      /\ faults \in 0..MaxFaults /\ MaxAttempts \in Nat /\ again \in [Messages -> Nat]
  BY DeliveryAssumption DEF TypeOK, Slots
<1>3. /\ again' \in [Messages -> Nat]
      /\ \A n \in Messages : again'[n] = again[n] \/ again'[n] = again[n] + 1
      /\ \A n \in Messages : n # slot[Worker].msg => again'[n] = again[n]
  <2>1. CASE again' = again
    BY <1>2, <2>1
  <2>2. CASE ~At(Worker, "idle") /\ again' = [again EXCEPT ![slot[Worker].msg] = @ + 1]
    <3>1. slot[Worker].step \in Steps /\ slot[Worker].step \notin {"idle", "next"}
      BY <1>2, <2>2, WorkTyped DEF WorkerHasNoRest, At
    <3>2. slot[Worker].step \in Holding
      BY <3>1 DEF Steps, Holding
    <3>3. PICK m \in Messages : slot[Worker].msg = m
      BY <1>2, <3>2, Holder
    <3>4. again' = [again EXCEPT ![m] = @ + 1]
      BY <2>2, <3>3
    <3> QED BY <1>2, <3>3, <3>4, Bumped
  <2> QED BY <2>1, <2>2 DEF Crash
<1>4. \A s \in Slots : slot'[s].msg = NoMessage /\ slot'[s].step = "idle" /\ slot'[s].rest = <<>>
  BY <1>1, IdleTyped
<1>5. TypeOK'
  <2>1. slot' \in [Slots -> Work]
    BY <1>1, IdleTyped
  <2>2. channels' \subseteq Messages
    BY <1>1
  <2>3. faults' \in 0..MaxFaults
    BY <1>1, <1>2
  <2> QED BY <1>1, <1>3, <2>1, <2>2, <2>3 DEF TypeOK, Work
<1>6. HoldsOne'
  BY <1>4, DeliveryAssumption DEF HoldsOne, Holding, Slots
<1>7. WorkerHasNoRest'
  BY <1>2, <1>4 DEF WorkerHasNoRest, At
<1>8. WaitsOnce'
  <2>1. ASSUME NEW n \in Messages, Untouched(n)
        PROVE  Untouched(n)'
    <3>1. n # slot[Worker].msg
      BY <1>2, <2>1 DEF Untouched
    <3> QED BY <1>1, <1>3, <1>4, <2>1, <3>1, DeliveryAssumption DEF Untouched
  <2>2. \A c \in Contacts : \A i \in DOMAIN c : c[i] \in Messages
    BY DeliveryAssumption
  <2> QED BY <1>1, <1>4, <2>1, <2>2 DEF WaitsOnce
<1>9. RowIsItsOwn'
  BY <1>4 DEF RowIsItsOwn
<1>10. GotInv'
  <2>1. ASSUME NEW n \in Messages
        PROVE  got'[n] <= faults'
    <3>1. got[n] \in Nat /\ got[n] <= 1 + faults
      BY <1>2 DEF TypeOK, GotInv
    <3> QED BY <1>1, <1>2, <3>1
  <2> QED BY <2>1 DEF GotInv
<1>11. CallsInv'
  <2>1. ASSUME NEW n \in Messages
        PROVE  Spent(n)' <= Allowed'
    <3>1. Spent(n)' = calls[n] + fresh[n] + again'[n] + Left(attempts[n])
      BY <1>1 DEF Spent, Left
    <3>2. Spent(n) <= Allowed
      BY DEF CallsInv
    <3>3. /\ calls[n] \in Nat /\ fresh[n] \in Nat /\ again[n] \in Nat
          /\ Left(attempts[n]) \in Nat
      BY LeftIsNat DEF TypeOK
    <3>4. Allowed' = Allowed + 1 /\ Allowed \in Nat
      BY <1>1, <1>2 DEF Allowed
    <3>5. Spent(n)' <= Spent(n) + 1
      BY <1>3, <3>1, <3>3 DEF Spent
    <3>6. Spent(n) \in Nat /\ Spent(n)' \in Nat
      BY <1>3, <3>1, <3>3 DEF Spent
    <3> QED BY <3>2, <3>4, <3>5, <3>6
  <2> QED BY <1>4, <2>1 DEF CallsInv
<1> QED BY <1>5, <1>6, <1>7, <1>8, <1>9, <1>10, <1>11
-----------------------------------------------------------------------------
(* A request between two messages: nothing is held, the rows stay.          *)
LEMMA RestTyped ==
  ASSUME DeliveryIInv, NEW s \in Slots, NEW i \in DOMAIN slot[s].rest
  PROVE  slot[s].rest[i] \in Messages
<1>1. slot[s].rest \in Seq(Messages)
  BY WorkTyped DEF DeliveryIInv
<1> QED BY <1>1

LEMMA RequestMoves ==
  ASSUME DeliveryIInv, NEW r \in Requests, slot[r].step = "idle" \/ slot[r].step = "next",
         NEW w \in Work, slot' = [slot EXCEPT ![r] = w], w.msg = NoMessage,
         w.step = "idle" \/ w.step = "next",
         UNCHANGED <<status, attempts, fresh, again, got, calls, stalls>>,
         UNCHANGED <<channels, redis, outages>>,
         taken' \subseteq Contacts, faults' \in 0..MaxFaults, faults <= faults',
         (\A n \in Messages : Untouched(n) => Untouched(n)') => WaitsOnce'
  PROVE  DeliveryIInv'
<1> USE DEF DeliveryIInv
<1>1. r \in Slots /\ r # Worker /\ slot[r].msg = NoMessage
  BY DeliveryAssumption DEF Slots, HoldsOne, Holding
<1>2. /\ slot' \in [Slots -> Work] /\ slot'[r] = w
      /\ \A q \in Slots \ {r} : slot'[q] = slot[q]
  BY <1>1, SlotSet
<1>3. \A q \in Slots : slot'[q].msg = slot[q].msg
  BY <1>1, <1>2
<1>4. TypeOK'
  BY <1>2 DEF TypeOK, Work
<1>5. HoldsOne'
  <2>1. \A q \in Slots : slot'[q].msg # NoMessage <=> slot'[q].step \in Holding
    BY <1>1, <1>2 DEF HoldsOne, Holding
  <2>2. \A q \in Slots : q \in Requests =>
          \A n \in Messages : slot'[q].msg = n => fresh'[n] = 0 /\ again'[n] = 0
    BY <1>3 DEF HoldsOne
  <2>3. \A q, p \in Slots : slot'[q].msg = slot'[p].msg /\ slot'[q].msg # NoMessage => q = p
    BY <1>3 DEF HoldsOne
  <2> QED BY <2>1, <2>2, <2>3 DEF HoldsOne
<1>6. WorkerHasNoRest'
  BY <1>1, <1>2, DeliveryAssumption DEF WorkerHasNoRest, At, Slots
<1>7. WaitsOnce'
  <2>1. ASSUME NEW n \in Messages, Untouched(n)
        PROVE  Untouched(n)'
    BY <1>3, <2>1 DEF Untouched
  <2> QED BY <2>1
<1>8. RowIsItsOwn'
  BY <1>1, <1>2 DEF RowIsItsOwn
<1>9. /\ faults \in Nat /\ faults' \in Nat /\ stalls \in Nat /\ stalls' = stalls
      /\ stalls \in 0..MaxStalls
  BY DeliveryAssumption DEF TypeOK
<1>10. GotInv'
  <2>1. ASSUME NEW n \in Messages, ~(got'[n] <= faults')
        PROVE  /\ got'[n] <= 1 + faults'
               /\ status'[n] = "sent" \/ \E q \in Slots : slot'[q].msg = n /\ slot'[q].step = "sent"
    <3>1. got'[n] = got[n] /\ status'[n] = status[n] /\ got[n] \in Nat
      BY DEF TypeOK
    <3>2. /\ got[n] <= 1 + faults
          /\ status[n] = "sent" \/ \E q \in Slots : slot[q].msg = n /\ slot[q].step = "sent"
      BY <1>9, <2>1, <3>1 DEF GotInv, At
    <3>3. \A q \in Slots : slot[q].step = "sent" => slot'[q] = slot[q]
      BY <1>2
    <3> QED BY <1>9, <3>1, <3>2, <3>3
  <2> QED BY <2>1 DEF GotInv, At
<1>11. CallsInv'
  <2>1. Allowed \in Nat /\ Allowed' \in Nat /\ Allowed <= Allowed'
    <3>1. stalls' \in 0..MaxStalls /\ stalls <= stalls'
      BY <1>9
    <3> QED BY <3>1, AllowedGrows
  <2>2. \A n \in Messages : Spent(n)' = Spent(n) /\ Spent(n) \in Nat
    BY SpentIsNat DEF Spent, Left
  <2>3. \A n \in Messages : Spent(n)' <= Allowed'
    BY <2>1, <2>2 DEF CallsInv
  <2>4. ASSUME NEW q \in Slots, NEW n \in Messages, slot'[q].msg = n,
               slot'[q].step \in {"read", "giveUp", "send", "schedule"}
        PROVE  Spent(n)' + 1 <= Allowed'
    <3>1. q # r /\ slot'[q] = slot[q]
      BY <1>1, <1>2, <2>4
    <3>2. Spent(n) + 1 <= Allowed
      BY <2>4, <3>1 DEF CallsInv
    <3> QED BY <2>1, <2>2, <3>2
  <2> QED BY <2>3, <2>4 DEF CallsInv
<1> QED BY <1>4, <1>5, <1>6, <1>7, <1>8, <1>10, <1>11

(* What is left of what waited, without k, still waits once.                *)
StillWaits(r, w, f, k) ==
  /\ slot' = [slot EXCEPT ![r] = w] /\ taken' = taken
  /\ \A i \in DOMAIN w.rest :
       f[i] \in DOMAIN slot[r].rest /\ w.rest[i] = slot[r].rest[f[i]] /\ w.rest[i] # k
  /\ \A i, j \in DOMAIN w.rest : f[i] = f[j] => i = j
  /\ \A n \in Messages \ {k} : Untouched(n) => Untouched(n)'
  /\ \A q \in Slots \ {r} : \A i \in DOMAIN slot[q].rest : slot[q].rest[i] # k
  /\ \A c \in Contacts \ taken : \A i \in DOMAIN c : c[i] # k

LEMMA RestShrinks ==
  ASSUME DeliveryIInv, NEW r \in Slots, NEW w \in Work, NEW f, NEW k, StillWaits(r, w, f, k)
  PROVE  WaitsOnce'
<1> USE DEF StillWaits
<1>1. slot'[r] = w /\ \A q \in Slots \ {r} : slot'[q] = slot[q]
  BY SlotSet DEF DeliveryIInv
<1>2. ASSUME NEW q \in Slots, NEW i \in DOMAIN slot'[q].rest
      PROVE  /\ slot'[q].rest[i] # k
             /\ IF q = r THEN f[i] \in DOMAIN slot[q].rest /\ slot'[q].rest[i] = slot[q].rest[f[i]]
                         ELSE i \in DOMAIN slot[q].rest /\ slot'[q].rest[i] = slot[q].rest[i]
  BY <1>1
<1>3. ASSUME NEW q \in Slots, NEW i \in DOMAIN slot'[q].rest
      PROVE  /\ slot'[q].rest[i] \in Messages \ {k} /\ Untouched(slot[q].rest[IF q = r THEN f[i] ELSE i])
             /\ slot'[q].rest[i] = slot[q].rest[IF q = r THEN f[i] ELSE i]
  BY <1>2, RestTyped DEF DeliveryIInv, WaitsOnce
<1>4. ASSUME NEW q \in Slots, NEW i \in DOMAIN slot'[q].rest, NEW n, n = slot'[q].rest[i]
      PROVE  Untouched(n)'
  <2>1. n \in Messages \ {k} /\ Untouched(n)
    BY <1>3, <1>4
  <2> QED BY <2>1
<1>5. ASSUME NEW q \in Slots, NEW p \in Slots, NEW i \in DOMAIN slot'[q].rest,
             NEW j \in DOMAIN slot'[p].rest, slot'[q].rest[i] = slot'[p].rest[j]
      PROVE  q = p /\ i = j
  <2>1. CASE q = r /\ p = r
    <3>1. f[i] = f[j]
      BY <1>2, <1>5, <2>1 DEF DeliveryIInv, WaitsOnce
    <3> QED BY <1>1, <2>1, <3>1
  <2>2. CASE q = r /\ p # r
    BY <1>2, <1>5, <2>2 DEF DeliveryIInv, WaitsOnce
  <2>3. CASE q # r /\ p = r
    BY <1>2, <1>5, <2>3 DEF DeliveryIInv, WaitsOnce
  <2>4. CASE q # r /\ p # r
    BY <1>2, <1>5, <2>4 DEF DeliveryIInv, WaitsOnce
  <2> QED BY <2>1, <2>2, <2>3, <2>4
<1>6. ASSUME NEW c \in Contacts \ taken', NEW i \in DOMAIN c
      PROVE  \A n : n = c[i] => Untouched(n)'
  <2>1. c[i] \in Messages \ {k} /\ Untouched(c[i])
    BY DeliveryAssumption DEF DeliveryIInv, WaitsOnce
  <2> QED BY <2>1
<1>7. ASSUME NEW c \in Contacts \ taken', NEW i \in DOMAIN c, NEW s \in Slots,
             NEW j \in DOMAIN slot'[s].rest
      PROVE  slot'[s].rest[j] # c[i]
  BY <1>2 DEF DeliveryIInv, WaitsOnce
<1> QED BY <1>4, <1>5, <1>6, <1>7 DEF WaitsOnce

(* The tail of what waits, with any step.                                   *)
LEMMA TailOfRest ==
  ASSUME DeliveryIInv, NEW r \in Slots, slot[r].rest # <<>>
  PROVE  LET rest == slot[r].rest IN
           /\ rest \in Seq(Messages) /\ Tail(rest) \in Seq(Messages) /\ Head(rest) = rest[1]
           /\ Head(rest) \in Messages /\ 1 \in DOMAIN rest
           /\ \A i \in DOMAIN Tail(rest) : i + 1 \in DOMAIN rest /\ i \in Nat /\ i # 0
                                           /\ Tail(rest)[i] = rest[i + 1]
<1> DEFINE rest == slot[r].rest
<1>1. rest \in Seq(Messages) /\ rest # <<>>
  BY WorkTyped DEF DeliveryIInv
<1> HIDE DEF rest
<1>2. /\ Tail(rest) \in Seq(Messages) /\ Head(rest) = rest[1] /\ Head(rest) \in Messages
      /\ 1 \in DOMAIN rest
  BY <1>1
<1>3. \A i \in DOMAIN Tail(rest) : i + 1 \in DOMAIN rest /\ i \in Nat /\ i # 0
                                   /\ Tail(rest)[i] = rest[i + 1]
  BY <1>1
<1> QED BY <1>1, <1>2, <1>3 DEF rest

LEMMA NotifyContactKeeps ==
  ASSUME DeliveryIInv, NEW r \in Requests, NEW c \in Contacts, NotifyContact(r, c)
  PROVE  DeliveryIInv'
<1> DEFINE w == [Idle EXCEPT !.step = "next", !.rest = c]
<1>1. /\ slot[r].step = "idle" /\ c \in Contacts \ taken /\ taken' = taken \cup {c}
      /\ slot' = [slot EXCEPT ![r] = w]
      /\ UNCHANGED <<status, attempts, fresh, again, got, calls, stalls>>
      /\ UNCHANGED <<channels, redis, outages, faults>>
  BY DEF NotifyContact, At, Rows, Jobs, History, Bounds
<1>2. w \in Work /\ w.step = "next" /\ w.msg = NoMessage /\ w.rest = c
  BY NextTyped, DeliveryAssumption
<1> HIDE DEF w
<1>3. r \in Slots
  BY DEF Slots
<1>4. slot'[r] = w /\ \A q \in Slots \ {r} : slot'[q] = slot[q]
  BY <1>1, <1>2, <1>3, SlotSet DEF DeliveryIInv
<1>5. ASSUME \A n \in Messages : Untouched(n) => Untouched(n)'
      PROVE  WaitsOnce'
  <2>1. ASSUME NEW q \in Slots, NEW i \in DOMAIN slot'[q].rest, NEW n, n = slot'[q].rest[i]
        PROVE  Untouched(n)'
    <3>1. n \in Messages /\ Untouched(n)
      <4>1. CASE q = r
        BY <1>1, <1>2, <1>4, <2>1, <4>1, DeliveryAssumption DEF DeliveryIInv, WaitsOnce
      <4>2. CASE q # r
        BY <1>4, <2>1, <4>2, RestTyped DEF DeliveryIInv, WaitsOnce
      <4> QED BY <4>1, <4>2
    <3> QED BY <1>5, <3>1
  <2>2. ASSUME NEW q \in Slots, NEW p \in Slots, NEW i \in DOMAIN slot'[q].rest,
               NEW j \in DOMAIN slot'[p].rest, slot'[q].rest[i] = slot'[p].rest[j]
        PROVE  q = p /\ i = j
    <3>1. CASE q = r /\ p = r
      BY <1>2, <1>4, <2>2, <3>1, OwnRows
    <3>2. CASE q = r /\ p # r
      BY <1>1, <1>2, <1>4, <2>2, <3>2 DEF DeliveryIInv, WaitsOnce
    <3>3. CASE q # r /\ p = r
      BY <1>1, <1>2, <1>4, <2>2, <3>3 DEF DeliveryIInv, WaitsOnce
    <3>4. CASE q # r /\ p # r
      BY <1>4, <2>2, <3>4 DEF DeliveryIInv, WaitsOnce
    <3> QED BY <3>1, <3>2, <3>3, <3>4
  <2>3. ASSUME NEW d \in Contacts \ taken', NEW i \in DOMAIN d
        PROVE  /\ \A n : n = d[i] => Untouched(n)'
               /\ \A s \in Slots : \A j \in DOMAIN slot'[s].rest : slot'[s].rest[j] # d[i]
    <3>1. d \in Contacts \ taken /\ d # c
      BY <1>1
    <3>2. d[i] \in Messages /\ Untouched(d[i])
      BY <3>1, DeliveryAssumption DEF DeliveryIInv, WaitsOnce
    <3>3. \A j \in DOMAIN c : c[j] # d[i]
      BY <3>1, OwnRows
    <3>4. \A s \in Slots : \A j \in DOMAIN slot[s].rest : slot[s].rest[j] # d[i]
      BY <3>1 DEF DeliveryIInv, WaitsOnce
    <3>5. \A s \in Slots : \A j \in DOMAIN slot'[s].rest : slot'[s].rest[j] # d[i]
      BY <1>2, <1>4, <3>3, <3>4
    <3> QED BY <1>5, <3>2, <3>5
  <2> QED BY <2>1, <2>2, <2>3 DEF WaitsOnce
<1>6. taken' \subseteq Contacts /\ faults' \in 0..MaxFaults /\ faults <= faults'
  <2>1. taken \subseteq Contacts /\ faults \in 0..MaxFaults /\ MaxFaults \in Nat
    BY DeliveryAssumption DEF DeliveryIInv, TypeOK
  <2> QED BY <1>1, <2>1
<1> QED BY <1>1, <1>2, <1>5, <1>6, RequestMoves

(* A message passed over, by Skip or by a failing insert, and the end of    *)
(* the request.                                                             *)
LEMMA PassesOver ==
  ASSUME DeliveryIInv, NEW r \in Requests, slot[r].step = "next",
         \/ slot' = [slot EXCEPT ![r] = Idle]
         \/ slot[r].rest # <<>> /\ slot' = [slot EXCEPT ![r].rest = Tail(@)],
         UNCHANGED <<status, attempts, fresh, again, got, calls, stalls>>,
         UNCHANGED <<channels, redis, outages, taken>>,
         faults' \in 0..MaxFaults, faults <= faults'
  PROVE  DeliveryIInv'
<1>1. r \in Slots /\ slot \in [Slots -> Work] /\ taken' \subseteq Contacts
  BY DEF Slots, DeliveryIInv, TypeOK, Work
<1>2. slot[r].msg = NoMessage
  BY <1>1 DEF DeliveryIInv, HoldsOne, Holding
<1>3. ASSUME \A n \in Messages : Untouched(n) => Untouched(n)',
             NEW w \in Work, slot' = [slot EXCEPT ![r] = w],
             NEW f, \A i \in DOMAIN w.rest : f[i] \in DOMAIN slot[r].rest /\ w.rest[i] = slot[r].rest[f[i]],
             \A i, j \in DOMAIN w.rest : f[i] = f[j] => i = j
      PROVE  WaitsOnce'
  <2>1. \A q \in Slots : \A i \in DOMAIN slot[q].rest : slot[q].rest[i] # NoMessage
    BY RestTyped, DeliveryAssumption
  <2>2. \A i \in DOMAIN w.rest : w.rest[i] # NoMessage
    BY <1>1, <1>3, <2>1
  <2>3. \A c \in Contacts : \A i \in DOMAIN c : c[i] # NoMessage
    BY DeliveryAssumption
  <2>4. StillWaits(r, w, f, NoMessage)
    BY <1>3, <2>1, <2>2, <2>3 DEF StillWaits
  <2> QED BY <1>1, <2>4, RestShrinks
<1>4. CASE slot' = [slot EXCEPT ![r] = Idle]
  <2>1. (\A n \in Messages : Untouched(n) => Untouched(n)') => WaitsOnce'
    <3>1. PICK w \in Work : w = Idle
      BY IdleTyped
    <3>2. slot' = [slot EXCEPT ![r] = w]
      BY <1>4, <3>1
    <3>3. \A i \in DOMAIN w.rest : FALSE
      BY <3>1, IdleTyped
    <3>4. ASSUME NEW f
          PROVE  /\ \A i \in DOMAIN w.rest : f[i] \in DOMAIN slot[r].rest /\ w.rest[i] = slot[r].rest[f[i]]
                 /\ \A i, j \in DOMAIN w.rest : f[i] = f[j] => i = j
      BY <3>3
    <3>5. PICK f : /\ \A i \in DOMAIN w.rest : f[i] \in DOMAIN slot[r].rest /\ w.rest[i] = slot[r].rest[f[i]]
                   /\ \A i, j \in DOMAIN w.rest : f[i] = f[j] => i = j
      BY <3>4
    <3>6. ASSUME \A n \in Messages : Untouched(n) => Untouched(n)'
          PROVE  WaitsOnce'
      BY <1>3, <3>2, <3>5, <3>6
    <3> QED BY <3>6
  <2> QED BY <1>1, <1>4, <2>1, IdleTyped, RequestMoves
<1>5. CASE slot[r].rest # <<>> /\ slot' = [slot EXCEPT ![r].rest = Tail(@)]
  <2> DEFINE w == [slot[r] EXCEPT !.rest = Tail(slot[r].rest)]
             f == [i \in DOMAIN Tail(slot[r].rest) |-> i + 1]
  <2>1. slot' = [slot EXCEPT ![r] = w]
    BY <1>1, <1>5
  <2>2. Tail(slot[r].rest) \in Seq(Messages)
    BY <1>1, <1>5, TailOfRest
  <2>3. /\ w \in Work /\ w.step = "next" /\ w.msg = NoMessage
        /\ w.rest = Tail(slot[r].rest)
    BY <1>1, <1>2, <2>2 DEF Work
  <2>4. \A i \in DOMAIN w.rest : f[i] \in DOMAIN slot[r].rest /\ w.rest[i] = slot[r].rest[f[i]]
    BY <1>1, <1>5, <2>3, TailOfRest
  <2>5. \A i, j \in DOMAIN w.rest : f[i] = f[j] => i = j
    <3>1. \A i \in DOMAIN w.rest : i \in Nat /\ f[i] = i + 1
      BY <1>1, <1>5, <2>3, TailOfRest
    <3> HIDE DEF f, w
    <3> QED BY <3>1
  <2> HIDE DEF w, f
  <2>6. (\A n \in Messages : Untouched(n) => Untouched(n)') => WaitsOnce'
    BY <1>3, <2>1, <2>3, <2>4, <2>5
  <2> QED BY <1>1, <2>1, <2>3, <2>6, RequestMoves
<1> QED BY <1>4, <1>5
(* A row is recorded and its first attempt begins, with all it may cost.    *)
LEMMA FirstAttempt ==
  ASSUME DeliveryIInv, NEW r \in Requests, slot[r].step = "next", slot[r].rest # <<>>,
         NEW m, m = Head(slot[r].rest), status' = [status EXCEPT ![m] = "queued"],
         NEW w \in Work, slot' = [slot EXCEPT ![r] = w],
         w.step = "read", w.msg = m, w.rest = Tail(slot[r].rest),
         UNCHANGED <<attempts, fresh, again, got, calls, stalls, faults>>,
         UNCHANGED <<channels, redis, outages, taken>>
  PROVE  DeliveryIInv'
<1> DEFINE f == [i \in DOMAIN Tail(slot[r].rest) |-> i + 1]
<1>1. r \in Slots /\ r # Worker
  BY DeliveryAssumption DEF Slots
<1>2. /\ m = slot[r].rest[1] /\ m \in Messages
      /\ 1 \in DOMAIN slot[r].rest
      /\ \A i \in DOMAIN Tail(slot[r].rest) :
           i + 1 \in DOMAIN slot[r].rest /\ i \in Nat /\ i # 0
           /\ Tail(slot[r].rest)[i] = slot[r].rest[i + 1]
  BY <1>1, TailOfRest
<1>5. \A i \in DOMAIN w.rest : f[i] \in DOMAIN slot[r].rest /\ w.rest[i] = slot[r].rest[f[i]]
  BY <1>2
<1>6. \A i \in DOMAIN w.rest : i \in Nat /\ i # 0 /\ f[i] = i + 1
  BY <1>2
<1> HIDE DEF f
<1>7. /\ slot' \in [Slots -> Work] /\ slot'[r] = w
      /\ \A q \in Slots \ {r} : slot'[q] = slot[q]
  BY <1>1, SlotSet DEF DeliveryIInv
<1>8. Untouched(m)
  BY <1>1, <1>2 DEF DeliveryIInv, WaitsOnce
<1>9. \A q \in Slots : slot[q].msg # m
  BY <1>8 DEF Untouched
<1>10. ASSUME NEW n \in Messages \ {m}, Untouched(n)
       PROVE  Untouched(n)'
  <2>1. status'[n] = status[n]
    BY <1>10 DEF DeliveryIInv, TypeOK
  <2>2. \A q \in Slots : slot'[q].msg # n
    BY <1>7, <1>10 DEF Untouched
  <2> QED BY <1>10, <2>1, <2>2 DEF Untouched
<1>11. WaitsOnce'
  <2>1. \A i, j \in DOMAIN w.rest : f[i] = f[j] => i = j
    BY <1>6
  <2>2. \A i \in DOMAIN w.rest : w.rest[i] # m
    <3>1. \A i \in DOMAIN w.rest : f[i] # 1
      BY <1>6
    <3> QED BY <1>1, <1>2, <1>5, <3>1 DEF DeliveryIInv, WaitsOnce
  <2>3. \A q \in Slots \ {r} : \A i \in DOMAIN slot[q].rest : slot[q].rest[i] # m
    BY <1>1, <1>2 DEF DeliveryIInv, WaitsOnce
  <2>4. \A c \in Contacts \ taken : \A i \in DOMAIN c : c[i] # m
    BY <1>1, <1>2 DEF DeliveryIInv, WaitsOnce
  <2>5. \A n \in Messages \ {m} : Untouched(n) => Untouched(n)'
    BY <1>10
  <2>6. StillWaits(r, w, f, m)
    BY <1>5, <2>1, <2>2, <2>3, <2>4, <2>5 DEF StillWaits
  <2> QED BY <1>1, <2>6, RestShrinks
<1>12. TypeOK'
  <2>1. status' \in [Messages -> NotificationStatus \cup {"none"}]
    BY DEF DeliveryIInv, TypeOK, NotificationStatus
  <2> QED BY <1>7, <2>1 DEF DeliveryIInv, TypeOK, Work
<1>13. HoldsOne'
  <2>1. m # NoMessage
    BY <1>2, DeliveryAssumption
  <2>2. \A q \in Slots : slot'[q].msg # NoMessage <=> slot'[q].step \in Holding
    BY <1>7, <2>1 DEF DeliveryIInv, HoldsOne, Holding
  <2>3. \A q \in Slots : q \in Requests =>
          \A n \in Messages : slot'[q].msg = n => fresh'[n] = 0 /\ again'[n] = 0
    BY <1>7, <1>8 DEF DeliveryIInv, HoldsOne, Untouched
  <2>4. \A q, p \in Slots : slot'[q].msg = slot'[p].msg /\ slot'[q].msg # NoMessage => q = p
    BY <1>7, <1>9 DEF DeliveryIInv, HoldsOne
  <2> QED BY <2>2, <2>3, <2>4 DEF HoldsOne
<1>14. WorkerHasNoRest'
  BY <1>1, <1>7 DEF DeliveryIInv, WorkerHasNoRest, At, Slots
<1>15. RowIsItsOwn'
  <2>1. ASSUME NEW q \in Slots, slot'[q].step \in {"giveUp", "send", "sent", "failed"}
        PROVE  slot'[q].no = attempts'[slot'[q].msg] + 1 /\ status'[slot'[q].msg] # "sent"
    <3>1. slot'[q] = slot[q] /\ q # r
      BY <1>7, <2>1
    <3>2. slot[q].msg \in Messages \ {m}
      BY <1>9, <2>1, <3>1, Holder DEF Holding
    <3>3. status'[slot[q].msg] = status[slot[q].msg]
      BY <3>2 DEF DeliveryIInv, TypeOK
    <3> QED BY <2>1, <3>1, <3>3 DEF DeliveryIInv, RowIsItsOwn
  <2> QED BY <2>1 DEF RowIsItsOwn
<1>16. GotInv'
  <2>1. faults \in Nat /\ faults' = faults /\ got' = got
    BY DEF DeliveryIInv, TypeOK
  <2>2. ASSUME NEW n \in Messages, ~(got[n] <= faults)
        PROVE  /\ got[n] <= 1 + faults
               /\ status'[n] = "sent" \/ \E q \in Slots : slot'[q].msg = n /\ slot'[q].step = "sent"
    <3>1. n # m
      BY <1>8, <2>1, <2>2 DEF Untouched
    <3>2. status'[n] = status[n]
      BY <3>1 DEF DeliveryIInv, TypeOK
    <3>3. /\ got[n] <= 1 + faults
          /\ status[n] = "sent" \/ \E q \in Slots : slot[q].msg = n /\ slot[q].step = "sent"
      BY <2>2 DEF DeliveryIInv, GotInv, At
    <3>4. \A q \in Slots : slot[q].step = "sent" => slot'[q] = slot[q]
      BY <1>7
    <3> QED BY <3>2, <3>3, <3>4
  <2> QED BY <2>1, <2>2 DEF GotInv, At
<1>17. CallsInv'
  <2>1. \A n \in Messages : Spent(n)' = Spent(n)
    BY DEF Spent, Left
  <2>2. Allowed' = Allowed
    BY DEF Allowed
  <2>3. Spent(m) + 1 <= Allowed
    <3>1. Spent(m) = Left(0)
      BY <1>8, LeftIsNat DEF Untouched, Spent
    <3>2. Left(0) = MaxAttempts - 1 \/ Left(0) = 0
      BY DeliveryAssumption DEF Left
    <3>3. faults \in Nat /\ stalls \in Nat /\ MaxAttempts \in Nat \ {0}
      BY DeliveryAssumption DEF DeliveryIInv, TypeOK
    <3> QED BY <3>1, <3>2, <3>3 DEF Allowed
  <2>4. ASSUME NEW q \in Slots, NEW n \in Messages, slot'[q].msg = n,
               slot'[q].step \in {"read", "giveUp", "send", "schedule"}
        PROVE  Spent(n) + 1 <= Allowed
    <3>1. CASE q = r
      BY <1>7, <2>3, <2>4, <3>1
    <3>2. CASE q # r
      BY <1>7, <2>4, <3>2 DEF DeliveryIInv, CallsInv
    <3> QED BY <3>1, <3>2
  <2> QED BY <2>1, <2>2, <2>4 DEF DeliveryIInv, CallsInv
<1> QED BY <1>11, <1>12, <1>13, <1>14, <1>15, <1>16, <1>17 DEF DeliveryIInv

LEMMA DispatchKeeps ==
  ASSUME DeliveryIInv, NEW r \in Requests, Dispatch(r)
  PROVE  DeliveryIInv'
<1>1. /\ slot[r].step = "next" /\ slot[r].rest # <<>>
      /\ UNCHANGED <<attempts, fresh, again, got, calls, stalls>>
      /\ UNCHANGED <<channels, redis, outages, taken>>
  BY DEF Dispatch, At, Jobs, History
<1>2. PICK m : m = Head(slot[r].rest)
  OBVIOUS
<1>3. faults \in 0..MaxFaults /\ MaxFaults \in Nat
  BY DeliveryAssumption DEF DeliveryIInv, TypeOK
<1>4. \/ /\ status' = [status EXCEPT ![m] = "queued"] /\ NoFault
         /\ slot' = [[slot EXCEPT ![r].rest = Tail(slot[r].rest)] EXCEPT ![r].step = "read", ![r].msg = m]
      \/ /\ Fault /\ status' = status
         /\ \/ slot' = [slot EXCEPT ![r].rest = Tail(@)]
            \/ slot' = [slot EXCEPT ![r] = Idle]
  BY <1>2 DEF Dispatch
<1>5. CASE /\ status' = [status EXCEPT ![m] = "queued"] /\ NoFault
           /\ slot' = [[slot EXCEPT ![r].rest = Tail(slot[r].rest)] EXCEPT ![r].step = "read", ![r].msg = m]
  <2> DEFINE w == [[[slot[r] EXCEPT !.rest = Tail(slot[r].rest)] EXCEPT !.step = "read"] EXCEPT !.msg = m]
  <2>1. r \in Slots /\ slot \in [Slots -> Work]
    BY DEF Slots, DeliveryIInv, TypeOK, Work
  <2>2. Tail(slot[r].rest) \in Seq(Messages) /\ m \in Messages
    BY <1>1, <1>2, <2>1, TailOfRest
  <2>3. slot' = [slot EXCEPT ![r] = w]
    BY <1>5, <2>1
  <2>4. w \in Work /\ w.step = "read" /\ w.msg = m /\ w.rest = Tail(slot[r].rest)
    <3>1. "read" \in Steps
      BY DEF Steps
    <3>2. slot[r] \in Work
      BY <2>1
    <3> QED BY <2>2, <3>1, <3>2 DEF Work
  <2> HIDE DEF w
  <2> QED BY <1>1, <1>2, <1>5, <2>3, <2>4, FirstAttempt DEF NoFault
<1>6. CASE /\ Fault /\ status' = status
           /\ \/ slot' = [slot EXCEPT ![r].rest = Tail(@)]
              \/ slot' = [slot EXCEPT ![r] = Idle]
  <2>1. faults' \in 0..MaxFaults /\ faults <= faults'
    BY <1>3, <1>6 DEF Fault
  <2> QED BY <1>1, <1>6, <2>1, PassesOver
<1> QED BY <1>4, <1>5, <1>6

LEMMA SkipAndNotifiedKeep ==
  ASSUME DeliveryIInv, NEW r \in Requests, Skip(r) \/ Notified(r)
  PROVE  DeliveryIInv'
<1>1. faults \in 0..MaxFaults /\ faults <= faults
  BY DeliveryAssumption DEF DeliveryIInv, TypeOK
<1> QED BY <1>1, PassesOver DEF Skip, Notified, At, Rows, Jobs, History, Bounds

(* Redis comes and goes, and steps that change nothing.                     *)
LEMMA OthersKeep ==
  ASSUME DeliveryIInv, RedisDown \/ RedisUp \/ UNCHANGED vars
  PROVE  DeliveryIInv'
<1> USE DEF DeliveryIInv
<1>1. UNCHANGED <<status, attempts, fresh, again, slot, channels, taken, got, calls, faults, stalls>>
  BY DEF RedisDown, RedisUp, vars, Rows, Jobs, History, Bounds
<1>2. redis' \in {"up", "down"} /\ outages' \in 0..MaxOutages
  BY DeliveryAssumption DEF TypeOK, RedisDown, RedisUp, vars, Bounds
<1>3. TypeOK'
  BY <1>1, <1>2 DEF TypeOK
<1>4. HoldsOne' /\ WorkerHasNoRest' /\ RowIsItsOwn' /\ GotInv'
  BY <1>1 DEF HoldsOne, WorkerHasNoRest, RowIsItsOwn, GotInv, At
<1>5. WaitsOnce'
  BY <1>1 DEF WaitsOnce, Untouched
<1>6. CallsInv'
  BY <1>1 DEF CallsInv, Spent, Allowed, Left
<1> QED BY <1>3, <1>4, <1>5, <1>6

LEMMA InitGives ==
  ASSUME Init
  PROVE  DeliveryIInv
<1> USE DEF Init
<1>1. \A s \in Slots : slot[s] = Idle
  OBVIOUS
<1>2. TypeOK
  <2>1. slot \in [Slots -> Work]
    BY IdleTyped
  <2> QED BY <2>1, DeliveryAssumption DEF TypeOK, Work
<1>3. HoldsOne
  BY <1>1, IdleTyped, DeliveryAssumption DEF HoldsOne, Holding, Slots
<1>4. WorkerHasNoRest
  BY <1>1, IdleTyped DEF WorkerHasNoRest, At, Slots
<1>5. \A n \in Messages : Untouched(n)
  BY <1>1, IdleTyped, DeliveryAssumption DEF Untouched
<1>6. \A c \in Contacts : \A i \in DOMAIN c : c[i] \in Messages
  BY DeliveryAssumption
<1>7. \A s \in Slots : DOMAIN slot[s].rest = {}
  BY <1>1, IdleTyped
<1>8. WaitsOnce
  BY <1>5, <1>6, <1>7 DEF WaitsOnce
<1>9. RowIsItsOwn
  BY <1>1, IdleTyped DEF RowIsItsOwn
<1>10. GotInv
  <2>1. faults = 0 /\ \A n \in Messages : got[n] = 0
    OBVIOUS
  <2>2. 0 <= 0
    OBVIOUS
  <2> QED BY <2>1, <2>2 DEF GotInv
<1>11. CallsInv
  <2>1. \A s \in Slots, n \in Messages : slot[s].msg # n
    BY <1>5 DEF Untouched
  <2>2. ASSUME NEW n \in Messages
        PROVE  Spent(n) <= Allowed
    <3>1. Spent(n) = Left(0)
      BY <1>5, <2>2, LeftIsNat DEF Untouched, Spent
    <3>2. Left(0) = MaxAttempts - 1 \/ Left(0) = 0
      BY DeliveryAssumption DEF Left
    <3> QED BY <3>1, <3>2, DeliveryAssumption DEF Allowed
  <2> QED BY <2>1, <2>2 DEF CallsInv
<1> QED BY <1>2, <1>3, <1>4, <1>8, <1>9, <1>10, <1>11 DEF DeliveryIInv

-----------------------------------------------------------------------------
(* Whatever requests, the worker, providers, crashes and Redis do, the      *)
(* invariant of the delivery of notifications holds (notify.ts, queue.ts).  *)
THEOREM DeliveryInvariant == Spec => []DeliveryIInv
<1>1. Init => DeliveryIInv
  BY InitGives
<1>2. DeliveryIInv /\ [Next]_vars => DeliveryIInv'
  <2> SUFFICES ASSUME DeliveryIInv, [Next]_vars PROVE DeliveryIInv'
    OBVIOUS
  <2>1. Requests \subseteq Slots /\ Worker \in Slots
    BY DEF Slots
  <2>2. ASSUME NEW r \in Requests, NEW c \in Contacts, NotifyContact(r, c)
        PROVE  DeliveryIInv'
    BY <2>2, NotifyContactKeeps
  <2>3. ASSUME NEW r \in Requests, RequestStep(r)
        PROVE  DeliveryIInv'
    BY <2>1, <2>3, SkipAndNotifiedKeep, DispatchKeeps, AttemptKeeps DEF RequestStep
  <2>4. CASE Attempt(Worker)
    BY <2>1, <2>4, AttemptKeeps
  <2>5. ASSUME NEW m \in Messages, TakeJob(m)
        PROVE  DeliveryIInv'
    BY <2>5, TakeJobKeeps
  <2>6. CASE Stall
    <3>1. slot[Worker].step \in Steps /\ slot[Worker].step \notin {"idle", "next"}
      BY <2>1, <2>6, WorkTyped DEF DeliveryIInv, WorkerHasNoRest, Stall, At
    <3>2. slot[Worker].step \in Holding
      BY <3>1 DEF Steps, Holding
    <3>3. PICK m \in Messages : slot[Worker].msg = m
      BY <2>1, <3>2, Holder
    <3> QED BY <2>6, <3>3, StallKeeps
  <2>7. CASE Crash
    BY <2>7, CrashKeeps
  <2>8. CASE RedisDown \/ RedisUp \/ UNCHANGED vars
    BY <2>8, OthersKeep
  <2> QED BY <2>2, <2>3, <2>4, <2>5, <2>6, <2>7, <2>8 DEF Next
<1> QED BY <1>1, <1>2, PTL DEF Spec

(* A recipient gets a message once and once more for each loss after the    *)
(* provider took it; a provider is called MAX_ATTEMPTS times and once more  *)
(* for each loss and each job handed out again (attemptDelivery,            *)
(* scheduleRetry), for every number of requests, messages and attempts.     *)
THEOREM DeliveryBounded == Spec => []DeliveryInv
<1>1. DeliveryIInv => DeliveryInv
  <2> SUFFICES ASSUME DeliveryIInv PROVE DeliveryInv
    OBVIOUS
  <2>1. ASSUME NEW n \in Messages
        PROVE  got[n] <= 1 + faults
    <3>1. got[n] \in Nat /\ faults \in Nat
      BY DEF DeliveryIInv, TypeOK
    <3> QED BY <3>1 DEF DeliveryIInv, GotInv
  <2>2. ASSUME NEW n \in Messages
        PROVE  calls[n] <= MaxAttempts + faults + stalls
    <3>1. Spent(n) <= Allowed
      BY DEF DeliveryIInv, CallsInv
    <3>2. /\ calls[n] \in Nat /\ fresh[n] \in Nat /\ again[n] \in Nat /\ faults \in Nat
          /\ stalls \in Nat /\ Left(attempts[n]) \in Nat /\ MaxAttempts \in Nat
      BY LeftIsNat, DeliveryAssumption DEF DeliveryIInv, TypeOK
    <3> QED BY <3>1, <3>2 DEF Spent, Allowed
  <2> QED BY <2>1, <2>2 DEF DeliveryInv, DeliveredOnce, CallsBounded, DeliveryIInv
<1> QED BY <1>1, DeliveryInvariant, PTL
=============================================================================
