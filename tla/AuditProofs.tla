----------------------------- MODULE AuditProofs -----------------------------
(***************************************************************************)
(* What a verification of the audit trail vouches for.  The argument: two  *)
(* rows with the same hash have the same fields and the same hash before,  *)
(* so that in two trails that verify the rows before them agree too, down  *)
(* to the first.                                                           *)
(***************************************************************************)
EXTENDS AuditLog, SequenceTheorems, WellFoundedInduction, TLAPS

(* Rows that have the types of rows, no two with one number.                *)
Trail(rs) ==
  /\ \A r \in rs :
       r \in [seq : 1..seq, fields : Fields, prev : Seq(Fields),
              hash : Seq(Fields)]
  /\ \A r, s \in rs : r.seq = s.seq => r = s

(* Each row links to the one before it.                                     *)
Chained(rs) == \A r \in rs : Link(r, rs)

RowsInv ==
  /\ seq \in 0..MaxSeq
  /\ Trail(rows) /\ Trail(vouched) /\ Chained(vouched)

(* The writer that holds the lock and has drawn a number has the last one,  *)
(* and no row has taken it.                                                 *)
Numbered(w) == writer[w].seq = seq /\ \A r \in rows : r.seq # seq

Doing == [step : {"lock", "tail", "insert", "commit", "forward"},
          fields : Fields, prev : Seq(Fields), seq : Nat]

WriterInv(w) ==
  /\ \/ writer[w] = Idle
     \/ writer[w] \in Doing /\ writer[w].seq <= seq
  /\ writer[w].step \in {"tail", "insert", "commit"} => lock = w
  /\ At(w, "commit") => Numbered(w) /\ seq # 0
WritersInv ==
  /\ writer = [w \in Writers |-> writer[w]]
  /\ \A w \in Writers : WriterInv(w)

ChainInv == RowsInv /\ WritersInv

-----------------------------------------------------------------------------
(* A set of numbers has a smallest member, a bounded one a largest.         *)
LEMMA Smallest ==
  ASSUME NEW U, U \subseteq Nat, U # {}
  PROVE  \E x \in U : \A y \in U : x <= y
<1>1. PICK u \in U : \A y \in U : ~ (<<y, u>> \in OpToRel(<, Nat))
  BY NatLessThanWellFounded, WFMin
<1>2. \A y \in U : u \in Nat /\ y \in Nat
  OBVIOUS
<1>3. \A y \in U : ~(y < u)
  BY <1>1, <1>2 DEF OpToRel
<1>4. \A y \in U : u <= y
  BY <1>2, <1>3
<1> QED BY <1>4

LEMMA Largest ==
  ASSUME NEW n \in Nat, NEW T, T \subseteq 0..n, T # {}
  PROVE  \E x \in T : \A y \in T : y <= x
<1> DEFINE U == {n - x : x \in T}
<1>1. U \subseteq Nat /\ U # {}
  <2>1. U \subseteq Nat OBVIOUS
  <2>2. PICK x \in T : TRUE OBVIOUS
  <2>3. n - x \in U OBVIOUS
  <2> QED BY <2>1, <2>3
<1>2. PICK u \in U : \A y \in U : u <= y
  <2> HIDE DEF U
  <2> QED BY <1>1, Smallest
<1> QED BY <1>2

(* A trail that is not empty has a newest row.                              *)
LEMMA NewestOf ==
  ASSUME NEW n \in Nat, NEW rs, rs # {}, \A r \in rs : r.seq \in 1..n
  PROVE  Newest(rs) \in rs /\ \A s \in rs : s.seq <= Newest(rs).seq
<1> DEFINE T == {r.seq : r \in rs}
<1>1. T \subseteq 0..n /\ T # {} OBVIOUS
<1>2. PICK x \in T : \A y \in T : y <= x
  <2> HIDE DEF T
  <2> QED BY <1>1, Largest
<1>3. PICK r \in rs : \A s \in rs : s.seq <= r.seq BY <1>2
<1> QED BY <1>3 DEF Newest

LEMMA TailTyped ==
  ASSUME seq \in Nat, NEW rs, Trail(rs)
  PROVE  /\ TailHash(rs) \in Seq(Fields)
         /\ rs = {} => TailHash(rs) = Null
         /\ rs # {} => /\ Newest(rs) \in rs
                       /\ \A s \in rs : s.seq <= Newest(rs).seq
                       /\ TailHash(rs) = Newest(rs).hash
<1>1. CASE rs = {}
  BY <1>1, EmptySeq DEF TailHash, Null
<1>2. CASE rs # {}
  <2>1. \A r \in rs : r.seq \in 1..seq /\ r.hash \in Seq(Fields)
    BY DEF Trail
  <2> QED BY <1>2, <2>1, NewestOf DEF TailHash
<1> QED BY <1>1, <1>2

(* What Hash keeps: both its arguments.                                     *)
LEMMA HashIsInjective ==
  ASSUME NEW f \in Fields, NEW p \in Seq(Fields),
         NEW g \in Fields, NEW q \in Seq(Fields)
  PROVE  /\ Hash(f, p) \in Seq(Fields) /\ Hash(f, p) # Null
         /\ Hash(f, p) = Hash(g, q) <=> f = g /\ p = q
<1>1. Append(p, f) = Append(q, g) <=> p = q /\ f = g
  BY AppendInjective
<1> QED BY <1>1, AppendProperties DEF Hash, Null

-----------------------------------------------------------------------------
(* Rows taken from a trail are a trail.                                     *)
LEMMA PartOfTrail ==
  ASSUME NEW rs, Trail(rs), NEW part \in SUBSET rs
  PROVE  Trail(part)
BY DEF Trail

(* The rows up to one that is not the first are it and the rows up to the   *)
(* one before it.                                                           *)
Content(r) == [fields |-> r.fields, prev |-> r.prev, hash |-> r.hash]

LEMMA UpToUnfolds ==
  ASSUME seq \in Nat, NEW rs, Trail(rs), NEW r \in rs
  PROVE  /\ Before(r, rs) = {} => UpTo(r, rs) = {Content(r)}
         /\ Before(r, rs) # {} =>
              LET t == Newest(Before(r, rs))
              IN  /\ t \in rs /\ t.seq < r.seq
                  /\ TailHash(Before(r, rs)) = t.hash
                  /\ UpTo(r, rs) = {Content(r)} \cup UpTo(t, rs)
<1> DEFINE B == Before(r, rs)
<1>1. UpTo(r, rs) = {Content(r)} \cup {Content(s) : s \in B}
  BY DEF UpTo, Content
<1>2. CASE B = {}
  BY <1>1, <1>2
<1>3. CASE B # {}
  <2> DEFINE t == Newest(B)
  <2>1. B \in SUBSET rs /\ Trail(B) /\ \A s \in B : s.seq < r.seq
    BY PartOfTrail DEF Before
  <2>2. t \in B /\ (\A s \in B : s.seq <= t.seq) /\ TailHash(B) = t.hash
    <3> HIDE DEF B
    <3> QED BY <1>3, <2>1, TailTyped
  <2>3. \A s \in rs : s.seq \in Nat
    BY DEF Trail
  <2>4. B = {t} \cup Before(t, rs)
    <3>1. ASSUME NEW s \in B PROVE s = t \/ s \in Before(t, rs)
      <4>1. s.seq = t.seq \/ s.seq < t.seq
        BY <2>1, <2>2, <2>3
      <4>2. s.seq = t.seq => s = t
        BY <2>1, <2>2 DEF Trail
      <4> QED BY <2>1, <4>1, <4>2 DEF Before
    <3>2. ASSUME NEW s \in Before(t, rs) PROVE s \in B
      <4>1. s \in rs /\ s.seq < t.seq /\ t.seq < r.seq /\ t \in rs
        BY <2>1, <2>2 DEF Before
      <4>2. s.seq < r.seq
        BY <2>3, <4>1
      <4> QED BY <4>1, <4>2 DEF Before
    <3> HIDE DEF B, t
    <3> QED BY <2>2, <3>1, <3>2
  <2>5. UpTo(t, rs) = {Content(s) : s \in {t} \cup Before(t, rs)}
    BY DEF UpTo, Content
  <2> HIDE DEF B, t
  <2>6. UpTo(r, rs) = {Content(r)} \cup UpTo(t, rs)
    BY <1>1, <2>4, <2>5
  <2> QED BY <1>3, <2>1, <2>2, <2>6 DEF B, t
<1> QED BY <1>2, <1>3

(* Two chained trails that hold a row with the same hash agree up to it:    *)
(* of the rows where they would not, take the first.                        *)
LEMMA SameHashSamePast ==
  ASSUME seq \in Nat, NEW A, NEW B, Trail(A), Trail(B), Chained(A), Chained(B),
         NEW a \in A, NEW b \in B, a.hash = b.hash
  PROVE  UpTo(a, A) = UpTo(b, B)
<1> DEFINE Differ(r, s) == r.hash = s.hash /\ UpTo(r, A) # UpTo(s, B)
           U == {n \in Nat : \E r \in A : r.seq = n /\ \E s \in B : Differ(r, s)}
<1> SUFFICES ASSUME Differ(a, b) PROVE FALSE
  OBVIOUS
<1>1. U \subseteq Nat /\ U # {}
  BY DEF Trail
<1>2. PICK n \in U : \A m \in U : n <= m
  <2> HIDE DEF U
  <2> QED BY <1>1, Smallest
<1>3. PICK r \in A, s \in B : r.seq = n /\ Differ(r, s)
  OBVIOUS
<1>4. \A t \in A : t.seq < r.seq => \A u \in B : ~Differ(t, u)
  <2> SUFFICES ASSUME NEW t \in A, t.seq < r.seq, NEW u \in B, Differ(t, u)
               PROVE  FALSE
    OBVIOUS
  <2>1. t.seq \in Nat /\ r.seq \in Nat
    BY DEF Trail
  <2>2. t.seq \in U
    BY <2>1
  <2> HIDE DEF U, Differ
  <2> QED BY <1>2, <1>3, <2>1, <2>2
<1> HIDE DEF U
<1>5. /\ r.prev = TailHash(Before(r, A)) /\ r.hash = Hash(r.fields, r.prev)
      /\ s.prev = TailHash(Before(s, B)) /\ s.hash = Hash(s.fields, s.prev)
  BY DEF Chained, Link
<1>6. /\ r.fields \in Fields /\ r.prev \in Seq(Fields)
      /\ s.fields \in Fields /\ s.prev \in Seq(Fields)
  BY DEF Trail
<1>7. r.fields = s.fields /\ r.prev = s.prev /\ Content(r) = Content(s)
  <2>1. Hash(r.fields, r.prev) = Hash(s.fields, s.prev)
    BY <1>3, <1>5
  <2>2. r.fields = s.fields /\ r.prev = s.prev
    <3> HIDE DEF Differ
    <3> QED BY <1>6, <2>1, HashIsInjective
  <2>3. r.hash = s.hash
    BY <1>3
  <2> QED BY <2>2, <2>3 DEF Content
<1>8. \A x \in A \cup B : x.hash # Null
  BY HashIsInjective DEF Chained, Link, Trail
<1>9. /\ Before(r, A) = {} => TailHash(Before(r, A)) = Null
      /\ Before(s, B) = {} => TailHash(Before(s, B)) = Null
  BY DEF TailHash
<1>10. CASE Before(r, A) = {}
  <2>1. Before(s, B) = {}
    BY <1>5, <1>7, <1>8, <1>9, <1>10, UpToUnfolds
  <2>2. UpTo(r, A) = {Content(r)} /\ UpTo(s, B) = {Content(s)}
    <3> HIDE DEF Differ
    <3> QED BY <1>10, <2>1, UpToUnfolds
  <2> QED BY <1>3, <1>7, <2>2
<1>11. CASE Before(r, A) # {}
  <2> DEFINE t == Newest(Before(r, A))
             u == Newest(Before(s, B))
  <2>1. /\ t \in A /\ t.seq < r.seq /\ TailHash(Before(r, A)) = t.hash
        /\ UpTo(r, A) = {Content(r)} \cup UpTo(t, A)
    BY <1>11, UpToUnfolds
  <2>2. Before(s, B) # {}
    BY <1>5, <1>7, <1>8, <1>9, <2>1
  <2>3. /\ u \in B /\ TailHash(Before(s, B)) = u.hash
        /\ UpTo(s, B) = {Content(s)} \cup UpTo(u, B)
    BY <2>2, UpToUnfolds
  <2>4. t.hash = u.hash
    BY <1>5, <1>7, <2>1, <2>3
  <2> HIDE DEF t, u
  <2>5. UpTo(t, A) = UpTo(u, B)
    BY <1>4, <2>1, <2>3, <2>4
  <2> QED BY <1>3, <1>7, <2>1, <2>3, <2>5
<1> QED BY <1>10, <1>11

(* The invariant gives the property.                                        *)
LEMMA ChainDetects == RowsInv => VouchedStays
<1> SUFFICES ASSUME RowsInv, Verified(rows), NEW r \in Hashed(rows),
                    NEW s \in vouched, r.hash = s.hash
             PROVE  UpTo(r, Hashed(rows)) = UpTo(s, vouched)
  BY DEF VouchedStays
<1>1. seq \in Nat /\ Trail(Hashed(rows)) /\ Trail(vouched)
  BY AuditAssumption, PartOfTrail DEF RowsInv, Hashed
<1>2. Chained(Hashed(rows)) /\ Chained(vouched)
  BY DEF RowsInv, Verified, Chained
<1> QED BY <1>1, <1>2, SameHashSamePast

-----------------------------------------------------------------------------
(* Steps that leave the rows alone.                                         *)
LEMMA RowsKept ==
  ASSUME RowsInv, UNCHANGED <<rows, seq, vouched>>
  PROVE  RowsInv'
<1>1. Chained(vouched)'
  BY DEF RowsInv, Chained, Link, Before, TailHash, Newest, Hash, Null
<1> QED BY <1>1 DEF RowsInv, Trail

LEMMA InitChain == Init => ChainInv
<1> SUFFICES ASSUME Init PROVE ChainInv
  OBVIOUS
<1>1. RowsInv
  BY AuditAssumption DEF Init, RowsInv, Trail, Chained
<1>2. WritersInv
  BY DEF Init, WritersInv, WriterInv, Idle, At
<1> QED BY <1>1, <1>2 DEF ChainInv

(* A writer that goes on to x, in the order of the lock.                    *)
LEMMA WriterMoves ==
  ASSUME ChainInv, RowsInv', NEW w \in Writers, NEW x,
         writer' = [writer EXCEPT ![w] = x],
         x = Idle \/ (x \in Doing /\ x.seq <= seq'),
         x.step \in {"tail", "insert", "commit"} => lock' = w,
         x.step = "commit" => /\ x.seq = seq' /\ seq' # 0
                              /\ \A r \in rows' : r.seq # seq',
         lock' = lock \/ lock \in {w, Free},
         seq' = seq \/ (seq' = seq + 1 /\ lock = w),
         rows' = rows \/ lock = w
  PROVE  ChainInv'
<1>1. seq \in Nat /\ writer'[w] = x
  BY AuditAssumption DEF ChainInv, RowsInv, WritersInv
<1>2. ASSUME NEW v \in Writers PROVE WriterInv(v)'
  <2>1. CASE v = w
    BY <1>1, <2>1 DEF WriterInv, At, Numbered, Idle
  <2>2. CASE v # w
    <3>1. writer'[v] = writer[v] /\ WriterInv(v)
      BY <2>2 DEF ChainInv, WritersInv
    <3>2. writer[v].step \in {"tail", "insert", "commit"} =>
            lock' = v /\ lock = v /\ v # Free
      BY <2>2, <3>1, AuditAssumption DEF WriterInv
    <3>3. writer[v] \in Doing => writer[v].seq \in Nat
      BY DEF Doing
    <3>4. seq <= seq'
      BY <1>1
    <3>5. writer[v] \in Doing /\ writer[v].seq <= seq => writer[v].seq <= seq'
      BY <1>1, <3>3, <3>4
    <3>6. At(v, "commit") => seq' = seq /\ rows' = rows
      BY <2>2, <3>2 DEF At
    <3> QED BY <3>1, <3>2, <3>5, <3>6 DEF WriterInv, At, Numbered
  <2> QED BY <2>1, <2>2
<1> QED BY <1>2 DEF ChainInv, WritersInv

LEMMA WritersKeep ==
  ASSUME ChainInv, NEW w \in Writers,
         \/ \E f \in Fields : Record(w, f)
         \/ Lock(w) \/ ReadTail(w) \/ Fail(w) \/ Forward(w)
  PROVE  ChainInv'
<1>1. RowsInv' /\ UNCHANGED <<rows, seq>> /\ seq \in Nat
  BY RowsKept, AuditAssumption
     DEF ChainInv, RowsInv, Record, Lock, ReadTail, Fail, Forward
<1>2. WriterInv(w) /\ writer = [v \in Writers |-> writer[v]]
  BY DEF ChainInv, WritersInv
<1>3. ASSUME NEW f \in Fields, Record(w, f) PROVE ChainInv'
  <2> DEFINE x == [step |-> "lock", fields |-> f, prev |-> Null, seq |-> 0]
  <2>1. x \in Doing /\ x.step = "lock" /\ x.seq = 0
    BY EmptySeq DEF Doing, Null
  <2>2. writer' = [writer EXCEPT ![w] = x] /\ lock' = lock /\ x.seq <= seq'
    BY <1>1, <1>3 DEF Record
  <2> HIDE DEF x
  <2> QED BY <1>1, <2>1, <2>2, WriterMoves
<1>4. CASE Fail(w) \/ Forward(w)
  <2>1. writer' = [writer EXCEPT ![w] = Idle] /\ Idle.step = "idle"
    BY <1>4 DEF Fail, Forward, Idle
  <2>2. lock' = lock \/ lock = w
    BY <1>4 DEF Fail, Forward
  <2> QED BY <1>1, <2>1, <2>2, WriterMoves
<1>5. CASE Lock(w)
  <2> DEFINE x == [writer[w] EXCEPT !.step = "tail"]
  <2>1. writer[w] \in Doing /\ writer[w].seq <= seq
    BY <1>2, <1>5 DEF WriterInv, Lock, At, Idle
  <2>2. x \in Doing /\ x.step = "tail" /\ x.seq = writer[w].seq
    BY <2>1 DEF Doing
  <2>3. writer' = [writer EXCEPT ![w] = x] /\ lock = Free /\ lock' = w
    BY <1>5 DEF Lock, LockFree, Goto
  <2> HIDE DEF x
  <2> QED BY <1>1, <2>1, <2>2, <2>3, WriterMoves
<1>6. CASE ReadTail(w)
  <2> DEFINE x == [writer[w] EXCEPT !.step = "insert", !.prev = TailHash(rows)]
  <2>1. writer[w] \in Doing /\ writer[w].seq <= seq /\ lock = w
    BY <1>2, <1>6 DEF WriterInv, ReadTail, At, Idle
  <2>2. TailHash(rows) \in Seq(Fields)
    BY <1>1, TailTyped DEF ChainInv, RowsInv
  <2>3. x \in Doing /\ x.step = "insert" /\ x.seq = writer[w].seq
    BY <2>1, <2>2 DEF Doing
  <2>4. writer' = [writer EXCEPT ![w] = x] /\ lock' = w
    BY <2>1, <1>6 DEF ReadTail
  <2> HIDE DEF x
  <2> QED BY <1>1, <2>1, <2>3, <2>4, WriterMoves
<1> QED BY <1>3, <1>4, <1>5, <1>6

LEMMA InsertKeeps ==
  ASSUME ChainInv, NEW w \in Writers, Insert(w)
  PROVE  ChainInv'
<1> DEFINE x == [writer[w] EXCEPT !.step = "commit", !.seq = seq + 1]
<1>1. /\ RowsInv /\ seq \in Nat /\ seq' = seq + 1 /\ seq < MaxSeq
      /\ \A r \in rows : r.seq \in 1..seq
      /\ rows' = rows /\ lock' = lock /\ vouched' = vouched
  BY AuditAssumption DEF ChainInv, RowsInv, Trail, Insert
<1>2. RowsInv'
  <2>1. Trail(rows)' /\ Trail(vouched)'
    BY <1>1 DEF RowsInv, Trail
  <2>2. Chained(vouched)'
    BY <1>1 DEF RowsInv, Chained, Link, Before, TailHash, Newest, Hash, Null
  <2> QED BY <1>1, <2>1, <2>2, AuditAssumption DEF RowsInv
<1>3. /\ writer[w] \in Doing /\ lock = w
  BY DEF ChainInv, WritersInv, WriterInv, Insert, At, Idle
<1>4. x \in Doing /\ x.step = "commit" /\ x.seq = seq' /\ x.seq <= seq'
  <2>1. seq + 1 \in Nat /\ seq + 1 <= seq'
    BY <1>1
  <2> QED BY <1>1, <1>3, <2>1 DEF Doing
<1>5. writer' = [writer EXCEPT ![w] = x]
  BY DEF Insert
<1>6. seq' # 0 /\ \A r \in rows' : r.seq # seq'
  BY <1>1
<1> HIDE DEF x
<1> QED BY <1>1, <1>2, <1>3, <1>4, <1>5, <1>6, WriterMoves

LEMMA CommitKeeps ==
  ASSUME ChainInv, NEW w \in Writers, Commit(w)
  PROVE  ChainInv'
<1> DEFINE x == [writer[w] EXCEPT !.step = "forward", !.prev = Null]
<1>0. PICK n : n = Row(w)
  OBVIOUS
<1>1. /\ RowsInv /\ writer[w] \in Doing /\ seq \in Nat /\ seq # 0
      /\ Numbered(w) /\ lock = w
  BY AuditAssumption
     DEF ChainInv, RowsInv, WritersInv, WriterInv, Commit, At, Idle
<1>2. /\ rows' = rows \cup {n} /\ seq' = seq /\ lock' = Free
      /\ vouched' = vouched
  BY <1>0 DEF Commit
<1>3. /\ n \in [seq : 1..seq, fields : Fields, prev : Seq(Fields),
                hash : Seq(Fields)]
      /\ n.seq = seq
  <2>1. writer[w].fields \in Fields /\ writer[w].prev \in Seq(Fields)
    BY <1>1 DEF Doing
  <2> QED BY <1>0, <1>1, <2>1, HashIsInjective DEF Row, Numbered
<1>4. Trail(rows)' /\ Trail(vouched)'
  BY <1>1, <1>2, <1>3 DEF RowsInv, Trail, Numbered
<1>5. Chained(vouched)'
  BY <1>1, <1>2 DEF RowsInv, Chained, Link, Before, TailHash, Newest, Hash, Null
<1>6. RowsInv'
  BY <1>1, <1>2, <1>4, <1>5 DEF RowsInv
<1>7. x \in Doing /\ x.step = "forward" /\ x.seq <= seq'
  <2>1. writer[w].seq = seq /\ seq <= seq'
    BY <1>1, <1>2 DEF Numbered
  <2> QED BY <1>1, <2>1, EmptySeq DEF Doing, Null
<1>8. writer' = [writer EXCEPT ![w] = x]
  BY DEF Commit
<1> HIDE DEF x
<1> QED BY <1>1, <1>2, <1>6, <1>7, <1>8, WriterMoves

-----------------------------------------------------------------------------
(* Whatever is done to the table, its rows stay rows, one to a number, and  *)
(* none has the number a writer has drawn and not committed.                *)
LEMMA AlteredKeeps ==
  ASSUME ChainInv, UNCHANGED <<seq, vouched, writer, lock>>, Trail(rows'),
         \A w \in Writers : At(w, "commit") =>
           \A r \in rows' : r.seq # writer[w].seq
  PROVE  ChainInv'
<1>1. RowsInv'
  <2>1. Trail(rows)' /\ Trail(vouched)'
    BY DEF ChainInv, RowsInv, Trail
  <2>2. Chained(vouched)'
    BY DEF ChainInv, RowsInv, Chained, Link, Before, TailHash, Newest, Hash,
           Null
  <2> QED BY <2>1, <2>2 DEF ChainInv, RowsInv
<1>2. ASSUME NEW v \in Writers PROVE WriterInv(v)'
  <2>1. WriterInv(v)
    BY DEF ChainInv, WritersInv
  <2> QED BY <2>1 DEF WriterInv, At, Numbered
<1> QED BY <1>1, <1>2 DEF ChainInv, WritersInv

LEMMA NoneDrawn ==
  ASSUME ChainInv, NEW w \in Writers, At(w, "commit"), NEW r \in rows
  PROVE  r.seq # writer[w].seq
BY DEF ChainInv, WritersInv, WriterInv, Numbered

LEMMA DeleteUserKeeps ==
  ASSUME ChainInv, NEW u \in Users, DeleteUser(u)
  PROVE  ChainInv'
<1> DEFINE F(r) == [r EXCEPT !.fields = Forgotten(r.fields, u)]
<1>1. \A r \in rows :
        /\ F(r) \in [seq : 1..seq, fields : Fields, prev : Seq(Fields),
                     hash : Seq(Fields)]
        /\ F(r).seq = r.seq
  BY DEF ChainInv, RowsInv, Trail, Forgotten, Fields
<1>2. rows' = {F(r) : r \in rows}
  BY DEF DeleteUser
<1>3. \A r, s \in rows : r.seq = s.seq => r = s
  BY DEF ChainInv, RowsInv, Trail
<1> HIDE DEF F
<1>4. Trail(rows')
  BY <1>1, <1>2, <1>3 DEF Trail
<1>5. \A w \in Writers : At(w, "commit") =>
        \A r \in rows' : r.seq # writer[w].seq
  BY <1>1, <1>2, NoneDrawn
<1> QED BY <1>4, <1>5, AlteredKeeps DEF DeleteUser

LEMMA EditRowKeeps ==
  ASSUME ChainInv, NEW n \in 1..seq, NEW f \in Fields, NEW p \in Seq(Fields),
         NEW h \in Seq(Fields), EditRow(n, f, p, h)
  PROVE  ChainInv'
<1>1. PICK e : e = [seq |-> n, fields |-> f, prev |-> p, hash |-> h]
  OBVIOUS
<1>2. /\ rows' = {r \in rows : r.seq # n} \cup {e} /\ e.seq = n
      /\ e \in [seq : 1..seq, fields : Fields, prev : Seq(Fields),
                hash : Seq(Fields)]
  BY <1>1 DEF EditRow, AtNumber
<1>3. Trail(rows')
  BY <1>2 DEF ChainInv, RowsInv, Trail
<1>4. \A w \in Writers : At(w, "commit") =>
        \A r \in rows' : r.seq # writer[w].seq
  BY <1>2, NoneDrawn DEF EditRow
<1> QED BY <1>3, <1>4, AlteredKeeps DEF EditRow

LEMMA DropRowKeeps ==
  ASSUME ChainInv, NEW r \in rows, DropRow(r)
  PROVE  ChainInv'
<1>1. Trail(rows') /\ rows' \subseteq rows
  BY PartOfTrail DEF ChainInv, RowsInv, DropRow
<1>2. \A w \in Writers : At(w, "commit") =>
        \A s \in rows' : s.seq # writer[w].seq
  BY <1>1, NoneDrawn
<1> QED BY <1>1, <1>2, AlteredKeeps DEF DropRow

(* What is vouched for is what the rows were: hashed, chained.              *)
LEMMA VerifyKeeps ==
  ASSUME ChainInv, Verify
  PROVE  ChainInv'
<1>1. Trail(Hashed(rows)) /\ Chained(Hashed(rows))
  BY PartOfTrail DEF ChainInv, RowsInv, Hashed, Verify, Verified, Chained
<1>2. UNCHANGED <<rows, seq, lock, writer>> /\ vouched' = Hashed(rows)
  BY DEF Verify
<1>3. Trail(rows)' /\ Trail(vouched)'
  BY <1>1, <1>2 DEF ChainInv, RowsInv, Trail
<1>4. Chained(vouched)'
  BY <1>1, <1>2 DEF Chained, Link, Before, TailHash, Newest, Hash, Null
<1>5. \A w \in Writers : WriterInv(w)'
  BY <1>2 DEF ChainInv, WritersInv, WriterInv, At, Numbered
<1> QED BY <1>2, <1>3, <1>4, <1>5 DEF ChainInv, RowsInv, WritersInv

LEMMA StutterKeeps ==
  ASSUME ChainInv, UNCHANGED vars
  PROVE  ChainInv'
<1>1. RowsInv'
  BY RowsKept DEF vars, ChainInv
<1> QED BY <1>1 DEF vars, ChainInv, WritersInv, WriterInv, At, Numbered

-----------------------------------------------------------------------------
(* What the table holds, and the hash of it, are sequences of entries.      *)
LEMMA AlterationsTyped ==
  ASSUME ChainInv, NEW n \in 1..seq, NEW f \in Fields, NEW p \in Prevs(n),
         NEW h \in Hashes(n, f, p)
  PROVE  p \in Seq(Fields) /\ h \in Seq(Fields)
<1>1. /\ seq \in Nat /\ Null \in Seq(Fields)
      /\ \A r \in rows : r.prev \in Seq(Fields) /\ r.hash \in Seq(Fields)
  BY EmptySeq, AuditAssumption DEF ChainInv, RowsInv, Trail, Null
<1>2. TailHash({r \in rows : r.seq < n}) \in Seq(Fields)
  <2>1. PICK part \in SUBSET rows : part = {r \in rows : r.seq < n}
    OBVIOUS
  <2> QED BY <1>1, <2>1, PartOfTrail, TailTyped DEF ChainInv, RowsInv
<1>3. p \in Seq(Fields)
  BY <1>1, <1>2 DEF Prevs, AtNumber
<1> QED BY <1>1, <1>3, HashIsInjective DEF Hashes, AtNumber

LEMMA ChainInductive == ChainInv /\ [Next]_vars => ChainInv'
<1> SUFFICES ASSUME ChainInv, [Next]_vars PROVE ChainInv'
  OBVIOUS
<1>1. ASSUME NEW w \in Writers,
             Write(w) \/ Fail(w) \/ \E f \in Fields : Record(w, f)
      PROVE  ChainInv'
  BY <1>1, WritersKeep, InsertKeeps, CommitKeeps DEF Write
<1>2. ASSUME NEW u \in Users, DeleteUser(u) PROVE ChainInv'
  BY <1>2, DeleteUserKeeps
<1>3. ASSUME NEW r \in rows, DropRow(r) PROVE ChainInv'
  BY <1>3, DropRowKeeps
<1>4. ASSUME NEW n \in 1..seq, NEW f \in Fields, NEW p \in Prevs(n),
             NEW h \in Hashes(n, f, p), EditRow(n, f, p, h)
      PROVE  ChainInv'
  BY <1>4, AlterationsTyped, EditRowKeeps
<1>5. CASE Verify
  BY <1>5, VerifyKeeps
<1>6. CASE UNCHANGED vars
  BY <1>6, StutterKeeps
<1> QED BY <1>1, <1>2, <1>3, <1>4, <1>5, <1>6 DEF Next

(* At every moment, in a trail that verifies the rows up to one whose hash  *)
(* an earlier verification has seen are those it saw up to it, whatever was *)
(* written, deleted or hashed afresh in between, for any number of writers, *)
(* entries and alterations.                                                 *)
THEOREM AuditTamperEvident == Spec => []VouchedStays
<1>1. ChainInv => VouchedStays
  BY ChainDetects DEF ChainInv
<1> QED BY <1>1, InitChain, ChainInductive, PTL DEF Spec

-----------------------------------------------------------------------------
(* Without alterations every row has a hash and links to the one before,    *)
(* and the writer under way continues the newest.                           *)
Untouched == edits = 0 /\ accounts = Users
Continues(w) ==
  writer[w].step \in {"insert", "commit"} => writer[w].prev = TailHash(rows)
Sound == Hashed(rows) = rows /\ Chained(rows)
AlarmInv ==
  /\ edits \in Nat
  /\ Untouched => Sound /\ \A w \in Writers : Continues(w)

LEMMA CommitRaisesNoAlarm ==
  ASSUME ChainInv, AlarmInv, NEW w \in Writers, Commit(w)
  PROVE  AlarmInv'
<1>0. PICK n : n = Row(w)
  OBVIOUS
<1>1. /\ rows' = rows \cup {n} /\ lock = w
      /\ n.seq = writer[w].seq /\ n.prev = writer[w].prev
      /\ n.hash = Hash(n.fields, n.prev)
  BY <1>0 DEF Commit, Row, ChainInv, WritersInv, WriterInv, At
<1>2. /\ n.seq = seq /\ seq \in Nat
      /\ \A r \in rows : r.seq < n.seq /\ r.seq \in Nat
  <2>1. Numbered(w) /\ seq \in Nat /\ \A r \in rows : r.seq \in 1..seq
    BY AuditAssumption
       DEF ChainInv, RowsInv, Trail, WritersInv, WriterInv, Commit, At
  <2> QED BY <1>1, <2>1 DEF Numbered
<1>3. /\ \A r \in rows : Before(r, rows') = Before(r, rows)
      /\ Before(n, rows') = rows
  <2>1. ~(n.seq < n.seq) /\ \A r \in rows : ~(n.seq < r.seq)
    BY <1>2
  <2> QED BY <1>1, <1>2, <2>1 DEF Before
<1>4. ASSUME Untouched' PROVE Sound'
  <2>1. Sound /\ n.prev = TailHash(rows)
    BY <1>1, <1>4 DEF AlarmInv, Untouched, Commit, Continues, At
  <2>2. n.hash # Null
    <3>1. n.fields \in Fields /\ n.prev \in Seq(Fields)
      BY <1>0 DEF Row, ChainInv, WritersInv, WriterInv, Commit, At, Idle, Doing
    <3> QED BY <1>1, <3>1, HashIsInjective
  <2>3. \A r \in rows' : Link(r, rows')
    BY <1>1, <1>3, <2>1 DEF Sound, Chained, Link
  <2>4. \A r \in rows' : r.hash # Null
    BY <1>1, <2>1, <2>2 DEF Sound, Hashed
  <2> QED BY <2>3, <2>4
          DEF Sound, Hashed, Chained, Link, Before, TailHash, Newest, Hash, Null
<1>5. \A v \in Writers : Continues(v)'
  <2> SUFFICES ASSUME NEW v \in Writers PROVE Continues(v)'
    OBVIOUS
  <2>1. v # w => writer[v].step \notin {"insert", "commit"}
    BY <1>1 DEF ChainInv, WritersInv, WriterInv
  <2>2. writer'[v].step \notin {"insert", "commit"}
    BY <2>1 DEF Commit, ChainInv, WritersInv, WriterInv, Doing, Idle, At
  <2> QED BY <2>2 DEF Continues
<1> QED BY <1>4, <1>5 DEF AlarmInv, Commit

LEMMA WritersRaiseNoAlarm ==
  ASSUME ChainInv, AlarmInv, NEW w \in Writers,
         \/ \E f \in Fields : Record(w, f)
         \/ Lock(w) \/ ReadTail(w) \/ Insert(w) \/ Fail(w) \/ Forward(w)
  PROVE  AlarmInv'
<1>1. UNCHANGED <<rows, edits, accounts>>
  BY DEF Record, Lock, ReadTail, Insert, Fail, Forward
<1>2. Sound => Sound'
  BY <1>1 DEF Sound, Hashed, Chained, Link, Before, TailHash, Newest, Hash, Null
<1>3. ASSUME NEW v \in Writers, Continues(v) PROVE Continues(v)'
  <2>1. TailHash(rows)' = TailHash(rows)
    BY <1>1 DEF TailHash, Newest, Null
  <2>2. CASE v # w
    <3>1. writer'[v] = writer[v]
      BY <2>2 DEF Record, Lock, ReadTail, Insert, Fail, Forward, Goto, ChainInv,
                  WritersInv
    <3> QED BY <1>3, <2>1, <3>1 DEF Continues
  <2>3. CASE v = w
    <3>1. WriterInv(w) /\ writer = [u \in Writers |-> writer[u]]
      BY DEF ChainInv, WritersInv
    <3>2. CASE ReadTail(w)
      <4>1. writer[w] \in Doing
        BY <3>1, <3>2 DEF ReadTail, At, WriterInv, Idle
      <4>2. writer'[w].prev = TailHash(rows)
        BY <3>1, <3>2, <4>1 DEF ReadTail, Doing
      <4> QED BY <2>1, <2>3, <4>2 DEF Continues
    <3>3. CASE Insert(w)
      <4>1. writer[w] \in Doing /\ writer[w].prev = TailHash(rows)
        BY <1>3, <2>3, <3>1, <3>3 DEF Insert, At, WriterInv, Idle, Continues
      <4>2. writer'[w].prev = writer[w].prev
        BY <3>1, <3>3, <4>1 DEF Insert, Doing
      <4> QED BY <2>1, <2>3, <4>1, <4>2 DEF Continues
    <3>4. CASE Lock(w)
      <4>1. writer[w] \in Doing
        BY <3>1, <3>4 DEF Lock, At, WriterInv, Idle
      <4>2. writer'[w].step = "tail"
        BY <3>1, <3>4, <4>1 DEF Lock, Goto, Doing
      <4> QED BY <2>3, <4>2 DEF Continues
    <3>5. CASE \/ \E f \in Fields : Record(w, f)
               \/ Fail(w) \/ Forward(w)
      <4>1. writer'[w].step \in {"lock", "idle"}
        BY <3>1, <3>5 DEF Record, Fail, Forward, Idle
      <4> QED BY <2>3, <4>1 DEF Continues
    <3> QED BY <3>2, <3>3, <3>4, <3>5
  <2> QED BY <2>2, <2>3
<1> QED BY <1>1, <1>2, <1>3 DEF AlarmInv, Untouched

(* A step that alters no row, or after which the trail is not untouched.    *)
LEMMA OthersRaiseNoAlarm ==
  ASSUME AlarmInv,
         \/ UNCHANGED <<rows, writer, edits, accounts>>
         \/ edits' \in Nat /\ ~Untouched'
  PROVE  AlarmInv'
<1>1. CASE UNCHANGED <<rows, writer, edits, accounts>>
  BY <1>1 DEF AlarmInv, Untouched, Continues, Sound, Hashed, Chained, Link,
              Before, TailHash, Newest, Hash, Null
<1>2. CASE edits' \in Nat /\ ~Untouched'
  BY <1>2 DEF AlarmInv
<1> QED BY <1>1, <1>2

LEMMA AlarmInductive == ChainInv /\ AlarmInv /\ [Next]_vars => AlarmInv'
<1> SUFFICES ASSUME ChainInv, AlarmInv, [Next]_vars PROVE AlarmInv'
  OBVIOUS
<1>1. ASSUME NEW w \in Writers,
             Write(w) \/ Fail(w) \/ \E f \in Fields : Record(w, f)
      PROVE  AlarmInv'
  BY <1>1, CommitRaisesNoAlarm, WritersRaiseNoAlarm DEF Write
<1>2. ASSUME NEW u \in Users, DeleteUser(u) PROVE AlarmInv'
  <2>1. edits' = edits /\ accounts' # Users
    BY <1>2 DEF DeleteUser
  <2> QED BY <2>1, OthersRaiseNoAlarm DEF AlarmInv, Untouched
<1>3. ASSUME \/ \E r \in rows : DropRow(r)
             \/ \E n \in 1..seq, f \in Fields : \E p \in Prevs(n) :
                  \E h \in Hashes(n, f, p) : EditRow(n, f, p, h)
      PROVE  AlarmInv'
  <2>1. edits' = edits + 1 /\ edits \in Nat
    BY <1>3 DEF DropRow, EditRow, AlarmInv
  <2>2. edits' \in Nat /\ edits' # 0
    BY <2>1
  <2> QED BY <2>2, OthersRaiseNoAlarm DEF Untouched
<1>4. CASE Verify \/ UNCHANGED vars
  BY <1>4, OthersRaiseNoAlarm DEF Verify, vars
<1> QED BY <1>1, <1>2, <1>3, <1>4 DEF Next

(* Until somebody alters the table or an account is deleted, the trail      *)
(* verifies at every moment, for any number of concurrent appends.          *)
THEOREM AuditNoFalseAlarm == Spec => []NoFalseAlarm
<1>1. Init => AlarmInv
  BY DEF Init, AlarmInv, Sound, Hashed, Chained, Continues, Idle
<1>2. AlarmInv => NoFalseAlarm
  BY DEF AlarmInv, Untouched, Sound, Chained, NoFalseAlarm, Verified
<1> QED BY <1>1, <1>2, InitChain, ChainInductive, AlarmInductive, PTL DEF Spec
-----------------------------------------------------------------------------
(* What is forwarded is in the trail: the entry of a writer that has        *)
(* committed is there until somebody alters the table, with its action      *)
(* whatever becomes of its actor.                                           *)
RecordedAs(n, action) == \E r \in rows : r.seq = n /\ r.fields.action = action
OnItsWay ==
  edits = 0 => \A w \in Writers :
    At(w, "forward") => RecordedAs(writer[w].seq, writer[w].fields.action)
TrailInv == TypeOK /\ ForwardedIsRecorded /\ OnItsWay

(* The types of the trail follow from the shape of its rows.                *)
LEMMA RowsTyped ==
  ASSUME RowsInv
  PROVE  /\ rows \subseteq AuditRows /\ \A r \in rows : r.seq <= seq
         /\ vouched \subseteq AuditRows
<1> SUFFICES ASSUME NEW r \in rows \cup vouched
             PROVE  r \in AuditRows /\ r.seq <= seq
  OBVIOUS
<1>1. /\ r \in [seq : 1..seq, fields : Fields, prev : Seq(Fields), hash : Seq(Fields)]
      /\ seq \in 0..MaxSeq
  BY DEF RowsInv, Trail
<1>2. r.seq \in 1..seq /\ r.seq \in 1..MaxSeq
  BY <1>1, AuditAssumption
<1> QED BY <1>1, <1>2 DEF AuditRows

(* One writer goes on; no row of an entry is lost by it.                    *)
LEMMA OneWriter ==
  ASSUME ChainInv, ChainInv', TrailInv, NEW w \in Writers, NEW x,
         writer' = [writer EXCEPT ![w] = x], UNCHANGED <<accounts, edits>>,
         lock' \in {lock, w, Free}, seq <= seq',
         \/ x = Idle
         \/ /\ x.step \in {"lock", "tail", "insert", "commit", "forward"}
            /\ x.fields \in Fields /\ x.seq \in 0..seq',
         rows \subseteq rows',
         x.step = "forward" => RecordedAs(x.seq, x.fields.action)',
         \/ siem' = siem
         \/ /\ siem' = siem \cup {writer[w].seq} /\ At(w, "forward")
            /\ writer[w].fields.action \in Reported
  PROVE  TrailInv'
<1>1. /\ writer'[w] = x /\ \A v \in Writers \ {w} : writer'[v] = writer[v]
      /\ seq \in 0..MaxSeq /\ seq' \in 0..MaxSeq
  BY DEF ChainInv, WritersInv, RowsInv
<1>2. TypeOK'
  <2>1. ASSUME NEW v \in Writers
        PROVE  writer'[v] = Idle \/
                 /\ writer'[v].step \in {"lock", "tail", "insert", "commit", "forward"}
                 /\ writer'[v].fields \in Fields /\ writer'[v].seq \in 0..seq'
    <3>1. CASE v = w
      BY <1>1, <3>1
    <3>2. CASE v # w
      <4>1. writer[v] = Idle \/
              /\ writer[v].step \in {"lock", "tail", "insert", "commit", "forward"}
              /\ writer[v].fields \in Fields /\ writer[v].seq \in 0..seq
        BY DEF TrailInv, TypeOK
      <4> QED BY <1>1, <3>2, <4>1
    <3> QED BY <3>1, <3>2
  <2>2. siem' \subseteq 0..seq'
    <3>1. siem \subseteq 0..seq
      BY DEF TrailInv, TypeOK
    <3>2. At(w, "forward") => writer[w].seq \in 0..seq
      BY DEF TrailInv, TypeOK, At, Idle
    <3>3. siem' \subseteq 0..seq
      BY <3>1, <3>2
    <3> QED BY <1>1, <3>3
  <2>3. /\ rows' \subseteq AuditRows /\ \A r \in rows' : r.seq <= seq'
        /\ vouched' \subseteq AuditRows
    <3>1. RowsInv'
      BY DEF ChainInv
    <3>2. (/\ rows \subseteq AuditRows /\ \A r \in rows : r.seq <= seq
           /\ vouched \subseteq AuditRows)'
      BY <3>1, RowsTyped, PTL
    <3> QED BY <3>2 DEF AuditRows
  <2>4. lock' \in Writers \cup {Free}
    BY DEF TrailInv, TypeOK
  <2>5. seq' \in 0..MaxSeq /\ accounts' \subseteq Users /\ edits' \in 0..MaxEdits
    BY <1>1 DEF TrailInv, TypeOK
  <2> QED BY <2>1, <2>2, <2>3, <2>4, <2>5 DEF TypeOK
<1>3. ForwardedIsRecorded'
  <2> SUFFICES ASSUME edits = 0, NEW n \in siem'
               PROVE  \E r \in rows' : r.seq = n /\ r.fields.action \in Reported
    BY DEF ForwardedIsRecorded
  <2>1. CASE n \in siem
    BY <2>1 DEF TrailInv, ForwardedIsRecorded
  <2>2. CASE n \notin siem
    BY <2>2 DEF TrailInv, OnItsWay, RecordedAs
  <2> QED BY <2>1, <2>2
<1>4. OnItsWay'
  <2> SUFFICES ASSUME edits = 0, NEW v \in Writers, writer'[v].step = "forward"
               PROVE  \E r \in rows' : r.seq = writer'[v].seq
                                       /\ r.fields.action = writer'[v].fields.action
    BY DEF OnItsWay, RecordedAs, At
  <2>1. CASE v = w
    BY <1>1, <2>1 DEF RecordedAs
  <2>2. CASE v # w
    <3>1. RecordedAs(writer[v].seq, writer[v].fields.action)
      BY <1>1, <2>2 DEF TrailInv, OnItsWay, At
    <3> QED BY <1>1, <2>2, <3>1 DEF RecordedAs
  <2> QED BY <2>1, <2>2
<1> QED BY <1>2, <1>3, <1>4 DEF TrailInv
LEMMA WriterKeepsTrail ==
  ASSUME ChainInv, ChainInv', TrailInv, NEW w \in Writers,
         Write(w) \/ Fail(w) \/ \E f \in Fields : Record(w, f)
  PROVE  TrailInv'
<1>1. /\ writer = [v \in Writers |-> writer[v]] /\ seq \in Nat
      /\ writer[w].step # "idle" => writer[w] \in Doing
      /\ writer[w].step # "idle" => writer[w].fields \in Fields /\ writer[w].seq \in 0..seq
  BY DEF ChainInv, WritersInv, WriterInv, RowsInv, Idle, TrailInv, TypeOK
<1>2. ASSUME NEW f \in Fields, Record(w, f) PROVE TrailInv'
  <2>1. PICK x : x = [step |-> "lock", fields |-> f, prev |-> Null, seq |-> 0]
    OBVIOUS
  <2>2. /\ writer' = [writer EXCEPT ![w] = x] /\ x.step = "lock" /\ x.fields = f /\ x.seq = 0
        /\ UNCHANGED <<rows, seq, lock, accounts, siem, edits>>
    BY <1>2, <2>1 DEF Record
  <2> QED BY <1>1, <1>2, <2>2, OneWriter
<1>3. CASE Fail(w)
  <2>1. /\ writer' = [writer EXCEPT ![w] = Idle] /\ lock' \in {lock, Free}
        /\ UNCHANGED <<rows, seq, accounts, siem, edits>> /\ Idle.step = "idle"
    BY <1>3 DEF Fail, Idle
  <2> QED BY <1>1, <2>1, OneWriter
<1>4. CASE Forward(w)
  <2>1. /\ writer' = [writer EXCEPT ![w] = Idle] /\ lock' = lock /\ At(w, "forward")
        /\ UNCHANGED <<rows, seq, accounts, edits>> /\ Idle.step = "idle"
        /\ \/ siem' = siem
           \/ siem' = siem \cup {writer[w].seq} /\ writer[w].fields.action \in Reported
    BY <1>4 DEF Forward, Idle
  <2> QED BY <1>1, <2>1, OneWriter
<1>5. ASSUME NEW step \in {"tail", "insert", "commit"}, NEW x \in Doing,
             writer' = [writer EXCEPT ![w] = x], x.step = step,
             x.fields = writer[w].fields,
             x.seq \in 0..seq', writer[w].step # "idle",
             lock' \in {lock, w}, seq <= seq',
             UNCHANGED <<rows, accounts, siem, edits>>
      PROVE  TrailInv'
  BY <1>1, <1>5, OneWriter
<1>6. CASE Lock(w)
  <2> DEFINE x == [writer[w] EXCEPT !.step = "tail"]
  <2>1. /\ writer' = [writer EXCEPT ![w] = x] /\ writer[w].step # "idle" /\ lock' = w
        /\ UNCHANGED <<rows, seq, accounts, siem, edits>>
    BY <1>1, <1>6 DEF Lock, Goto, At
  <2>2. x \in Doing /\ x.step = "tail" /\ x.fields = writer[w].fields /\ x.seq \in 0..seq'
    BY <1>1, <2>1 DEF Doing
  <2> HIDE DEF x
  <2> QED BY <1>1, <1>5, <2>1, <2>2
<1>7. CASE ReadTail(w)
  <2> DEFINE x == writer'[w]
  <2>1. /\ writer' = [writer EXCEPT ![w] = x] /\ writer[w].step # "idle" /\ lock' = lock
        /\ UNCHANGED <<rows, seq, accounts, siem, edits>>
    BY <1>1, <1>7 DEF ReadTail, At
  <2>2. x \in Doing /\ x.step = "insert" /\ x.fields = writer[w].fields /\ x.seq \in 0..seq'
    <3>1. writer[w] \in Doing
      BY <1>1, <2>1
    <3>2. /\ writer'[w].step = "insert" /\ writer'[w].fields = writer[w].fields
          /\ writer'[w].seq = writer[w].seq
      BY <1>1, <1>7, <3>1 DEF ReadTail, Doing
    <3>3. writer'[w] \in Doing
      BY <3>2 DEF ChainInv, WritersInv, WriterInv, Idle
    <3> QED BY <1>1, <2>1, <3>2, <3>3
  <2> HIDE DEF x
  <2> QED BY <1>1, <1>5, <2>1, <2>2
<1>8. CASE Insert(w)
  <2> DEFINE x == [writer[w] EXCEPT !.step = "commit", !.seq = seq + 1]
  <2>1. /\ writer' = [writer EXCEPT ![w] = x] /\ writer[w].step # "idle" /\ lock' = lock
        /\ UNCHANGED <<rows, accounts, siem, edits>> /\ seq' = seq + 1
    BY <1>1, <1>8 DEF Insert, At
  <2>2. x \in Doing /\ x.step = "commit" /\ x.fields = writer[w].fields /\ x.seq \in 0..seq'
    <3>1. seq + 1 \in Nat /\ seq + 1 \in 0..(seq + 1)
      BY <1>1
    <3> QED BY <1>1, <2>1, <3>1 DEF Doing
  <2> HIDE DEF x
  <2> QED BY <1>1, <1>5, <2>1, <2>2
<1>9. CASE Commit(w)
  <2>0. PICK x : x = [writer[w] EXCEPT !.step = "forward", !.prev = Null]
    OBVIOUS
  <2>1. /\ writer' = [writer EXCEPT ![w] = x] /\ writer[w].step # "idle" /\ lock' = Free
        /\ UNCHANGED <<seq, accounts, siem, edits>> /\ rows' = rows \cup {Row(w)}
    BY <1>1, <1>9, <2>0 DEF Commit, At
  <2>2. /\ x \in Doing /\ x.step = "forward" /\ x.fields = writer[w].fields
        /\ x.seq = writer[w].seq
    BY <1>1, <2>0, <2>1, EmptySeq DEF Doing, Null
  <2>3. RecordedAs(x.seq, x.fields.action)'
    <3>1. Row(w).seq = writer[w].seq /\ Row(w).fields = writer[w].fields
      BY DEF Row
    <3> QED BY <2>1, <2>2, <3>1 DEF RecordedAs
  <2>4. x.fields \in Fields /\ x.seq \in 0..seq' /\ seq <= seq' /\ rows \subseteq rows'
    BY <1>1, <2>1, <2>2
  <2> QED BY <2>1, <2>2, <2>3, <2>4, OneWriter
<1> QED BY <1>2, <1>3, <1>4, <1>6, <1>7, <1>8, <1>9 DEF Write

(* The table is altered behind the trail's back, or a leaver's rows forget  *)
(* him: numbers and actions stay, or somebody has altered the table.        *)
LEMMA TableKeepsTrail ==
  ASSUME ChainInv, ChainInv', TrailInv, UNCHANGED <<seq, lock, writer, siem>>,
         accounts' \subseteq Users, edits' \in 0..MaxEdits,
         \/ edits' # 0
         \/ /\ edits = 0
            /\ \A r \in rows : \E x \in rows' :
                 x.seq = r.seq /\ x.fields.action = r.fields.action
  PROVE  TrailInv'
<1>1. /\ rows' \subseteq AuditRows /\ \A r \in rows' : r.seq <= seq'
      /\ vouched' \subseteq AuditRows
  <2>1. RowsInv'
    BY DEF ChainInv
  <2>2. (/\ rows \subseteq AuditRows /\ \A r \in rows : r.seq <= seq
         /\ vouched \subseteq AuditRows)'
    BY <2>1, RowsTyped, PTL
  <2> QED BY <2>2 DEF AuditRows
<1>2. TypeOK'
  BY <1>1 DEF TrailInv, TypeOK
<1>3. ForwardedIsRecorded' /\ OnItsWay'
  <2>1. CASE edits' # 0
    BY <2>1 DEF ForwardedIsRecorded, OnItsWay
  <2>2. CASE edits' = 0
    <3>1. \A n,
    a : RecordedAs(n, a) => \E x \in rows' : x.seq = n /\ x.fields.action = a
      BY <2>2 DEF RecordedAs
    <3>2. ForwardedIsRecorded'
      BY <2>2 DEF TrailInv, ForwardedIsRecorded
    <3>3. OnItsWay'
      BY <2>2, <3>1 DEF TrailInv, OnItsWay, RecordedAs, At
    <3> QED BY <3>2, <3>3
  <2> QED BY <2>1, <2>2
<1> QED BY <1>2, <1>3 DEF TrailInv

LEMMA TrailInductive == ChainInv /\ ChainInv' /\ TrailInv /\ [Next]_vars => TrailInv'
<1> SUFFICES ASSUME ChainInv, ChainInv', TrailInv, [Next]_vars PROVE TrailInv'
  OBVIOUS
<1>0. edits \in 0..MaxEdits /\ MaxEdits \in Nat /\ accounts \subseteq Users
  BY AuditAssumption DEF TrailInv, TypeOK
<1>1. ASSUME NEW w \in Writers,
Write(w) \/ Fail(w) \/ \E f \in Fields : Record(w, f)
      PROVE  TrailInv'
  BY <1>1, WriterKeepsTrail
<1>2. ASSUME NEW u \in Users, DeleteUser(u) PROVE TrailInv'
  <2> DEFINE F(r) == [r EXCEPT !.fields = Forgotten(r.fields, u)]
  <2>1. \A r \in rows : F(r).seq = r.seq /\ F(r).fields.action = r.fields.action
    BY DEF ChainInv, RowsInv, Trail, Forgotten, Fields
  <2>2. rows' = {F(r) : r \in rows} /\ accounts' \subseteq accounts /\ edits' = edits
        /\ UNCHANGED <<seq, lock, writer, siem>>
    BY <1>2 DEF DeleteUser
  <2> HIDE DEF F
  <2>3. \A r \in rows : \E x \in rows' : x.seq = r.seq /\ x.fields.action = r.fields.action
    BY <2>1, <2>2
  <2> QED BY <1>0, <2>2, <2>3, TableKeepsTrail
<1>3. ASSUME \/ \E r \in rows : DropRow(r)
             \/ \E n \in 1..seq, f \in Fields : \E p \in Prevs(n) :
                  \E h \in Hashes(n, f, p) : EditRow(n, f, p, h)
      PROVE  TrailInv'
  <2>1. edits' = edits + 1 /\ edits < MaxEdits /\ UNCHANGED <<seq, lock, writer, siem, accounts>>
    BY <1>3 DEF DropRow, EditRow
  <2>2. edits' # 0 /\ edits' \in 0..MaxEdits
    BY <1>0, <2>1
  <2> QED BY <1>0, <2>1, <2>2, TableKeepsTrail
<1>4. CASE Verify \/ UNCHANGED vars
  <2>1. /\ UNCHANGED <<seq, lock, writer, siem>> /\ rows' = rows /\ edits' = edits
        /\ accounts' = accounts
    BY <1>4 DEF Verify, vars
  <2>2. edits' # 0 \/ (edits = 0 /\ \A r \in rows : \E x \in rows' :
                         x.seq = r.seq /\ x.fields.action = r.fields.action)
    BY <2>1
  <2> QED BY <1>0, <2>1, <2>2, TableKeepsTrail
<1> QED BY <1>1, <1>2, <1>3, <1>4 DEF Next

(* The SIEM is told of no entry that the trail does not hold: forwarding    *)
(* comes after the commit (recordAudit, forwardAuditEvent), and an entry    *)
(* that rolled back or whose actor was deleted is never the exception.      *)
THEOREM AuditForwardsTheRecorded == Spec => []AuditInv
<1>1. Init => TrailInv
  <2> SUFFICES ASSUME Init PROVE TrailInv
    OBVIOUS
  <2>1. TypeOK
    BY AuditAssumption DEF Init, TypeOK
  <2> QED BY <2>1 DEF Init, TrailInv, ForwardedIsRecorded, OnItsWay, At, Idle
<1>2. TrailInv => AuditInv
  BY DEF TrailInv, AuditInv
<1> QED BY <1>1, <1>2, InitChain, ChainInductive, TrailInductive, PTL DEF Spec
=============================================================================
