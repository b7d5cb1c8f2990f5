------------------------------ MODULE AuditLog ------------------------------
(***************************************************************************)
(* The audit trail: rows chained by their hashes, appended by concurrent   *)
(* requests under an advisory lock, altered by whoever has the database.   *)
(***************************************************************************)
EXTENDS Integers, Sequences

CONSTANTS
  Writers,   \* slots for requests that append at the same time
  Users,     \* staff accounts an entry may name as its actor
  Actions,   \* what an entry says was done
  Reported,  \* the actions isSecurityRelevant selects for the SIEM
  NoUser,
  Free,      \* the advisory lock when nobody holds it
  MaxSeq,    \* bound: sequence numbers drawn
  MaxEdits   \* bound: alterations by hand

ASSUME AuditAssumption ==
  /\ NoUser \notin Users /\ Free \notin Writers /\ Reported \subseteq Actions
  /\ MaxSeq \in Nat /\ MaxEdits \in Nat

VARIABLES
  rows,      \* committed rows of audit_log
  seq,       \* the identity column's last value; a rollback returns none
  lock,      \* the writer that holds pg_advisory_xact_lock, if any
  writer,    \* what each writer is doing
  accounts,  \* the users that exist
  siem,      \* numbers of the entries that reached the SIEM
  edits,
  vouched    \* the rows the last successful verification went over

vars == <<rows, seq, lock, writer, accounts, siem, edits, vouched>>

Fields == [actor : Users \cup {NoUser}, action : Actions]

(* canonical() and sha256: two hashes agree when the fields and the hash    *)
(* before do, so a hash is written as the sequence of all that went into it.*)
Null == <<>>
HashOfFieldsOnly(fields, prev) == <<fields>>
Hash(fields, prev) == Append(prev, fields)

(* The last row in sequence order, and the hash to continue from.           *)
Newest(rs) == CHOOSE r \in rs : \A s \in rs : s.seq <= r.seq
TailHash(rs) == IF rs = {} THEN Null ELSE Newest(rs).hash
Before(r, rs) == {s \in rs : s.seq < r.seq}

(* verifyAuditChain goes over the rows that have a hash, each against its   *)
(* stored hash and the one before it.                                       *)
Hashed(rs) == {r \in rs : r.hash # Null}
Link(r, rs) ==
  LET prev == TailHash(Before(r, rs))
  IN  r.prev = prev /\ r.hash = Hash(r.fields, prev)
Verified(rs) == \A r \in Hashed(rs) : Link(r, Hashed(rs))

Idle == [step |-> "idle"]
At(w, s) == writer[w].step = s
Goto(w, s) == writer' = [writer EXCEPT ![w].step = s]

Init ==
  /\ rows = {} /\ seq = 0 /\ lock = Free
  /\ writer = [w \in Writers |-> Idle]
  /\ accounts = Users /\ siem = {} /\ edits = 0
  /\ vouched = {}

-----------------------------------------------------------------------------
(* recordAudit: one transaction; the lock is held to its end.               *)
Record(w, f) ==
  /\ At(w, "idle")
  /\ f.actor \in accounts \cup {NoUser}
  /\ writer' = [writer EXCEPT ![w] =
       [step |-> "lock", fields |-> f, prev |-> Null, seq |-> 0]]
  /\ UNCHANGED <<rows, seq, lock, accounts, siem, edits, vouched>>

LockShared(w) == lock \in {Free} \cup Writers
LockFree(w)   == lock = Free

Lock(w) ==
  /\ At(w, "lock")
  /\ LockFree(w)
  /\ lock' = w
  /\ Goto(w, "tail")
  /\ UNCHANGED <<rows, seq, accounts, siem, edits, vouched>>

ReadTail(w) ==
  /\ At(w, "tail")
  /\ writer' = [writer EXCEPT ![w].step = "insert",
                              ![w].prev = TailHash(rows)]
  /\ UNCHANGED <<rows, seq, lock, accounts, siem, edits, vouched>>

(* The insert draws its number; the foreign key refuses a deleted actor.    *)
Insert(w) ==
  /\ At(w, "insert")
  /\ writer[w].fields.actor \in accounts \cup {NoUser}
  /\ seq < MaxSeq
  /\ seq' = seq + 1
  /\ writer' = [writer EXCEPT ![w].step = "commit", ![w].seq = seq + 1]
  /\ UNCHANGED <<rows, lock, accounts, siem, edits, vouched>>

Row(w) == [seq |-> writer[w].seq, fields |-> writer[w].fields,
           prev |-> writer[w].prev,
           hash |-> Hash(writer[w].fields, writer[w].prev)]

Commit(w) ==
  /\ At(w, "commit")
  /\ rows' = rows \cup {Row(w)}
  /\ lock' = Free
  /\ writer' = [writer EXCEPT ![w].step = "forward", ![w].prev = Null]
  /\ UNCHANGED <<seq, accounts, siem, edits, vouched>>

(* The transaction rolls back: a refused row, a lost connection, a crash.   *)
FailLoudly(w) ==
  /\ writer[w].step \in {"lock", "tail", "insert", "commit"}
  /\ lock' = IF lock = w THEN Free ELSE lock
  /\ Goto(w, "forward")
  /\ UNCHANGED <<rows, seq, accounts, siem, edits, vouched>>
Fail(w) ==
  /\ writer[w].step \in {"lock", "tail", "insert", "commit"}
  /\ lock' = IF lock = w THEN Free ELSE lock
  /\ writer' = [writer EXCEPT ![w] = Idle]
  /\ UNCHANGED <<rows, seq, accounts, siem, edits, vouched>>

(* forwardAuditEvent: not awaited, a failed call is logged and forgotten.   *)
Forward(w) ==
  /\ At(w, "forward")
  /\ \/ writer[w].fields.action \in Reported
        /\ siem' = siem \cup {writer[w].seq}
     \/ siem' = siem
  /\ writer' = [writer EXCEPT ![w] = Idle]
  /\ UNCHANGED <<rows, seq, lock, accounts, edits, vouched>>

-----------------------------------------------------------------------------
(* The account of a leaver is deleted: ON DELETE SET NULL rewrites his rows.*)
(* A row of his that is inserted and not committed makes the delete wait.   *)
Forgotten(f, u) == IF f.actor = u THEN [f EXCEPT !.actor = NoUser] ELSE f
DeleteUser(u) ==
  /\ u \in accounts
  /\ \A w \in Writers : At(w, "commit") => writer[w].fields.actor # u
  /\ accounts' = accounts \ {u}
  /\ rows' = {[r EXCEPT !.fields = Forgotten(r.fields, u)] : r \in rows}
  /\ UNCHANGED <<seq, lock, writer, siem, edits, vouched>>

(* verifyAuditChain, which the audit analyst runs with every question.      *)
Verify ==
  /\ Verified(rows)
  /\ vouched' = Hashed(rows)
  /\ UNCHANGED <<rows, seq, lock, writer, accounts, siem, edits>>

(* Somebody with the database deletes a row, or writes one under a number   *)
(* that was drawn, over the row that has it or as a new one: with a prev    *)
(* that is in the table or follows the rows before, and no hash, a hash     *)
(* that is in the table, or the one he computes from what he wrote.         *)
AtNumber(n) == {r \in rows : r.seq = n}
Prevs(n) == {r.prev : r \in AtNumber(n)} \cup {TailHash({r \in rows : r.seq < n})}
Hashes(n, f, p) == {Null, Hash(f, p)} \cup {r.hash : r \in AtNumber(n)}
EditRow(n, f, p, h) ==
  /\ edits < MaxEdits
  /\ edits' = edits + 1
  /\ \A w \in Writers : At(w, "commit") => writer[w].seq # n
  /\ rows' = (rows \ AtNumber(n))
               \cup {[seq |-> n, fields |-> f, prev |-> p, hash |-> h]}
  /\ UNCHANGED <<seq, lock, writer, accounts, siem, vouched>>
DropRow(r) ==
  /\ edits < MaxEdits
  /\ edits' = edits + 1
  /\ rows' = rows \ {r}
  /\ UNCHANGED <<seq, lock, writer, accounts, siem, vouched>>

Write(w) == Lock(w) \/ ReadTail(w) \/ Insert(w) \/ Commit(w) \/ Forward(w)

Next ==
  \/ \E w \in Writers : Write(w) \/ Fail(w) \/ \E f \in Fields : Record(w, f)
  \/ \E u \in Users : DeleteUser(u)
  \/ Verify
  \/ \E r \in rows : DropRow(r)
  \/ \E n \in 1..seq, f \in Fields : \E p \in Prevs(n) :
       \E h \in Hashes(n, f, p) : EditRow(n, f, p, h)

Spec == Init /\ [][Next]_vars

-----------------------------------------------------------------------------
AuditRows == [seq : 1..MaxSeq, fields : Fields, prev : Seq(Fields), hash : Seq(Fields)]

(* The variables have their types.                                         *)
TypeOK ==
  /\ seq \in 0..MaxSeq
  /\ lock \in Writers \cup {Free}
  /\ \A w \in Writers : writer[w] = Idle \/
       /\ writer[w].step \in {"lock", "tail", "insert", "commit", "forward"}
       /\ writer[w].fields \in Fields
       /\ writer[w].seq \in 0..seq
  /\ rows \subseteq AuditRows /\ \A r \in rows : r.seq <= seq
  /\ accounts \subseteq Users
  /\ siem \subseteq 0..seq
  /\ edits \in 0..MaxEdits /\ vouched \subseteq AuditRows

(* What one verification went over cannot be altered, deleted, reordered or *)
(* added to unnoticed as long as a later row of it, or the row itself,      *)
(* still has its hash: in a later trail that verifies, the rows up to one   *)
(* with the same hash are the same but for their numbers.  This is what     *)
(* recordAudit's "detects any later deletion/modification" comes to: rows   *)
(* deleted from the end, and rows hashed afresh to the end, pass.           *)
UpTo(r, rs) == {[fields |-> s.fields, prev |-> s.prev, hash |-> s.hash] :
                  s \in {r} \cup Before(r, rs)}
VouchedStays ==
  Verified(rows) =>
    \A r \in Hashed(rows), s \in vouched :
      r.hash = s.hash => UpTo(r, Hashed(rows)) = UpTo(s, vouched)

(* Appends raise no alarm: while nobody alters the table and no account is  *)
(* deleted the trail verifies at every moment, through every interleaving,  *)
(* rollback and gap in the numbers (recordAudit's "so the chain can't fork  *)
(* under concurrency").                                                     *)
NoFalseAlarm == edits = 0 /\ accounts = Users => Verified(rows)

(* The SIEM is told of nothing that the trail does not hold: an entry whose *)
(* transaction rolled back is never forwarded.                              *)
ForwardedIsRecorded ==
  edits = 0 => \A n \in siem : \E r \in rows :
                 r.seq = n /\ r.fields.action \in Reported

(* The trail's types, and the SIEM is never ahead of it.                    *)
AuditInv == TypeOK /\ ForwardedIsRecorded
=============================================================================
