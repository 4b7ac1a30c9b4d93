--------------------------- MODULE DispatchProofs ---------------------------
(***************************************************************************)
(* The dispatch stage for every program, width and delay: its signals, the *)
(* size of the skid buffer, the order of the instructions, their counts,   *)
(* and that none is lost.                                                  *)
(*                                                                         *)
(* Rename is stopped exactly while the stage is Blocked or Unblocking, and *)
(* nothing waits in the skid buffer in the other states. While it is       *)
(* stopped, what the buffer holds and what may still come down the wire    *)
(* fit into it together (Room).                                            *)
(*                                                                         *)
(* The second invariant (LInv) is about what waits or is on the wire, in a *)
(* row (Queued).  A step adds younger instructions at its end, takes the   *)
(* oldest away, or throws some away while the ROB squashes; and then       *)
(* rename has sent nothing since the squash (Squashing), so that they are  *)
(* all of the old path.                                                    *)
(***************************************************************************)
EXTENDS Dispatch, FiniteSetTheorems, SequenceTheorems, WellFoundedInduction, TLAPS

W == renameWidth
D == renameToIEWDelay

Inst == {[seq |-> s, kind |-> Program[s]] : s \in Nat}
Statuses == {"Running", "Blocked", "Unblocking", "Squashing"}
Held == {"Blocked", "Unblocking"}

(* The stage, by its fields. *)
Stage(d, i, k, b, u, c) ==
  [dispatchStatus |-> d, insts |-> i, skidBuffer |-> k,
   toRename |-> [iewBlock |-> b, iewUnblock |-> u, dispatched |-> c]]

(* n instructions fill at most j groups, and only the groups before the    *)
(* last j ones of the wire may still hold any.                             *)
Fits(w, n, j) == n <= j * W /\ \A x \in DOMAIN w : x > D + 1 - j => w[x] = <<>>
Room(w, n) == \E j \in 0 .. D + 1 : Fits(w, n, j)

Good(t, sd, w, d, i, k, b, u) ==
  /\ ((sd \/ b) /\ ~u) <=> d \in Held
  /\ t = "check" => ~b /\ ~u
  /\ u => sd /\ ~b
  /\ d = "Unblocking" => k # <<>> /\ sd /\ ~b /\ ~u
  /\ t # "dispatch" \/ d \in {"Blocked", "Squashing"} => i = <<>>
  /\ Len(i) <= W
  /\ d \notin Held => k = <<>>
  /\ d \in Held => Room(w, Len(k) + Len(i))

WireOK(t, w) ==
  /\ w \in Seq(Seq(Inst)) /\ Len(w) = D + (IF t = "check" THEN 1 ELSE 0)
  /\ \A x \in 1 .. Len(w) : Len(w[x]) <= W

IInv ==
  /\ turn \in {"commit", "rename", "check", "dispatch"}
  /\ stalled \in BOOLEAN /\ next \in Nat
  /\ WireOK(turn, wire)
  /\ \E d \in Statuses, i, k \in Seq(Inst), b, u \in BOOLEAN : \E c :
       /\ iew = Stage(d, i, k, b, u, c)
       /\ Good(turn, stalled, wire, d, i, k, b, u)

-----------------------------------------------------------------------------
(* Widths and delays. *)
LEMMA Widths == W \in Nat /\ W > 0 /\ D \in Nat /\ D > 0 /\ dispatchWidth \in Nat
                /\ NumInsts \in Nat
BY DispatchAssumption DEF DispatchAssumption, W, D, NumInsts

(* The lesser of two numbers is not above the first. *)
LEMMA MinOfTwo ==
  ASSUME NEW x \in Int, NEW y \in Int
  PROVE  Min({x, y}) \in Int /\ Min({x, y}) <= x
<1>1. \E z \in {x, y} : \A v \in {x, y} : z <= v
  <2>1. CASE x <= y
    BY <2>1
  <2>2. CASE y <= x
    BY <2>2
  <2> QED
    BY <2>1, <2>2
<1>2. Min({x, y}) \in {x, y} /\ \A v \in {x, y} : Min({x, y}) <= v
  BY <1>1 DEF Min
<1> QED
  BY <1>2

(* One group more, ... *)
LEMMA OneMore ==
  ASSUME NEW j \in Nat
  PROVE  (j + 1) * W = j * W + W /\ j * W \in Nat /\ 0 * W = 0 /\ 1 * W = W
BY Widths

(* ... and all of them. *)
LEMMA AllGroups ==
  ASSUME NEW j \in 0 .. D + 1
  PROVE  j * W <= (D + 1) * W
<1>1. (D + 1) * W = j * W + (D + 1 - j) * W
  BY Widths
<1>2. (D + 1 - j) * W \in Nat /\ j * W \in Nat
  BY Widths
<1> QED
  BY <1>1, <1>2

(* A group always fits once the wire is back to its length, ... *)
LEMMA RoomForOne ==
  ASSUME NEW w \in Seq(Seq(Inst)), Len(w) = D, NEW n \in Nat, n <= W
  PROVE  Room(w, n)
<1>1. 1 \in 0 .. D + 1 /\ n <= 1 * W
  BY Widths, OneMore
<1>2. \A x \in DOMAIN w : ~(x > D + 1 - 1)
  BY Widths
<1> QED
  BY <1>1, <1>2 DEF Room, Fits

(* ... fewer instructions fit where more do, ... *)
LEMMA RoomForLess ==
  ASSUME NEW w, NEW n \in Nat, NEW m \in Nat, m <= n, Room(w, n)
  PROVE  Room(w, m)
<1>1. PICK j \in 0 .. D + 1 : Fits(w, n, j)
  BY DEF Room
<1>2. m <= j * W
  BY <1>1, OneMore DEF Fits
<1> QED
  BY <1>1, <1>2 DEF Room, Fits

(* ... a stopped rename takes no room, ... *)
LEMMA RoomStays ==
  ASSUME NEW w \in Seq(Seq(Inst)), NEW n \in Nat, Room(w, n)
  PROVE  Room(Append(w, <<>>), n)
<1>1. PICK j \in 0 .. D + 1 : Fits(w, n, j)
  BY DEF Room
<1>2. ASSUME NEW x \in DOMAIN Append(w, <<>>), x > D + 1 - j
      PROVE  Append(w, <<>>)[x] = <<>>
  <2>1. <<>> \in Seq(Inst)
    OBVIOUS
  <2>2. CASE x = Len(w) + 1
    BY <2>1, <2>2
  <2>3. CASE x # Len(w) + 1
    <3>1. x \in DOMAIN w /\ Append(w, <<>>)[x] = w[x]
      BY <1>2, <2>1, <2>3
    <3> QED
      BY <1>1, <1>2, <3>1 DEF Fits
  <2> QED
    BY <2>2, <2>3
<1> QED
  BY <1>1, <1>2 DEF Room, Fits

(* ... and what arrives had room already. *)
LEMMA RoomForHead ==
  ASSUME NEW w \in Seq(Seq(Inst)), Len(w) = D + 1, Len(w[1]) <= W,
         NEW n \in Nat, Room(w, n)
  PROVE  Room(Tail(w), n + Len(Head(w)))
<1>0. /\ Head(w) = w[1] /\ w[1] \in Seq(Inst) /\ Len(w[1]) \in Nat
      /\ \A x \in DOMAIN Tail(w) : x \in Nat /\ x + 1 \in DOMAIN w /\ Tail(w)[x] = w[x + 1]
  BY Widths
<1>1. PICK j \in 0 .. D + 1 : Fits(w, n, j)
  BY DEF Room
<1>2. CASE j = D + 1
  <2>1. w[1] = <<>>
    BY <1>1, <1>2, Widths DEF Fits
  <2>2. \A x \in DOMAIN Tail(w) : Tail(w)[x] = <<>>
    BY <1>0, <1>1, <1>2, Widths DEF Fits
  <2>3. Len(w[1]) = 0 /\ n + Len(Head(w)) = n
    <3>1. Len(<<>>) = 0
      OBVIOUS
    <3>2. Len(w[1]) = 0
      BY <2>1, <3>1, Zenon
    <3>3. Len(Head(w)) = Len(w[1])
      BY <1>0
    <3> QED
      BY <3>2, <3>3
  <2> QED
    BY <1>1, <2>2, <2>3 DEF Room, Fits
<1>3. CASE j # D + 1
  <2>1. j + 1 \in 0 .. D + 1 /\ j \in Nat
    BY <1>3, Widths
  <2>2. n + Len(Head(w)) <= (j + 1) * W
    BY <1>0, <1>1, <2>1, OneMore, Widths DEF Fits
  <2>3. ASSUME NEW x \in DOMAIN Tail(w), x > D + 1 - (j + 1)
        PROVE  Tail(w)[x] = <<>>
    <3>1. x + 1 \in DOMAIN w /\ x + 1 > D + 1 - j
      BY <1>0, <2>1, <2>3, Widths
    <3>2. Tail(w)[x] = w[x + 1]
      BY <1>0, <2>3
    <3> QED
      BY <1>1, <3>1, <3>2, Zenon DEF Fits
  <2> QED
    BY <2>1, <2>2, <2>3 DEF Room, Fits
<1> QED
  BY <1>2, <1>3

-----------------------------------------------------------------------------
(* What the methods of the stage do to its fields. *)
LEMMA Fields ==
  ASSUME NEW d, NEW i, NEW k, NEW b, NEW u, NEW c
  PROVE  /\ Stage(d, i, k, b, u, c).dispatchStatus = d
         /\ Stage(d, i, k, b, u, c).insts = i
         /\ Stage(d, i, k, b, u, c).skidBuffer = k
         /\ Stage(d, i, k, b, u, c).toRename.iewBlock = b
         /\ Stage(d, i, k, b, u, c).toRename.iewUnblock = u
         /\ Stage(d, i, k, b, u, c).toRename.dispatched = c
BY DEF Stage

(* One sequence after another: the provers see through Stage only when its *)
(* fields are names.                                                       *)
Joined(x, k, i) == x = k \o i
Rest(r, q, n) == r = SubSeq(q, n + 1, Len(q))
First(g, q, n) == g = SubSeq(q, 1, n)
Counted(e, c, g) == e = Plus(c, CountIn(g))
Stops(z, b, d) == z = (b \/ d \notin Held)
Releases(z, u, d) == z = (u \/ d \in Held)
IsTrue(y)  == y = TRUE
IsFalse(y) == y = FALSE

(* A field is replaced. *)
LEMMA SetStatus ==
  ASSUME NEW d, NEW i, NEW k, NEW b, NEW u, NEW c, NEW x
  PROVE  [Stage(d, i, k, b, u, c) EXCEPT !.dispatchStatus = x] = Stage(x, i, k, b, u, c)
BY DEF Stage

LEMMA SetInsts ==
  ASSUME NEW d, NEW i, NEW k, NEW b, NEW u, NEW c, NEW x
  PROVE  [Stage(d, i, k, b, u, c) EXCEPT !.insts = x] = Stage(d, x, k, b, u, c)
BY DEF Stage

LEMMA SetSkid ==
  ASSUME NEW d, NEW i, NEW k, NEW b, NEW u, NEW c, NEW x
  PROVE  [Stage(d, i, k, b, u, c) EXCEPT !.skidBuffer = x] = Stage(d, i, x, b, u, c)
BY DEF Stage

LEMMA SetBlock ==
  ASSUME NEW d, NEW i, NEW k, NEW b, NEW u, NEW c, NEW x
  PROVE  [Stage(d, i, k, b, u, c) EXCEPT !.toRename.iewBlock = x] = Stage(d, i, k, x, u, c)
BY DEF Stage

LEMMA SetUnblock ==
  ASSUME NEW d, NEW i, NEW k, NEW b, NEW u, NEW c, NEW x
  PROVE  [Stage(d, i, k, b, u, c) EXCEPT !.toRename.iewUnblock = x] = Stage(d, i, k, b, x, c)
BY DEF Stage

LEMMA SetCount ==
  ASSUME NEW d, NEW i, NEW k, NEW b, NEW u, NEW c, NEW x
  PROVE  [Stage(d, i, k, b, u, c) EXCEPT !.toRename.dispatched = x] = Stage(d, i, k, b, u, x)
BY DEF Stage

(* Each method, by the fields it leaves. *)
LEMMA CreditFields ==
  ASSUME NEW d, NEW i, NEW k, NEW b, NEW u, NEW c, NEW g
  PROVE  Credit(Stage(d, i, k, b, u, c), g) = Stage(d, i, k, b, u, Plus(c, CountIn(g)))
<1> DEFINE s == Stage(d, i, k, b, u, c)
           e == Plus(c, CountIn(g))
<1>1. s.toRename.dispatched = c
  BY DEF Stage
<1>2. [s EXCEPT !.toRename.dispatched = e] = Stage(d, i, k, b, u, e)
  <2> HIDE DEF e
  <2> QED
    BY SetCount
<1>3. Credit(s, g) = [s EXCEPT !.toRename.dispatched = Plus(s.toRename.dispatched, CountIn(g))]
  BY DEF Credit
<1> QED
  BY <1>1, <1>2, <1>3

(* skidInsert moves the instructions of the wire behind the buffer. *)
LEMMA SkidInsertFields ==
  ASSUME NEW d, NEW i, NEW k, NEW b, NEW u, NEW c, NEW x, Joined(x, k, i)
  PROVE  skidInsert(Stage(d, i, k, b, u, c)) = Stage(d, <<>>, x, b, u, c)
<1> DEFINE s == Stage(d, i, k, b, u, c)
           s1 == Stage(d, i, x, b, u, c)
<1>0. s.skidBuffer = k /\ s.insts = i
  BY ONLY Fields
<1>2. [s EXCEPT !.skidBuffer = x] = s1
  BY ONLY SetSkid
<1>3. [s1 EXCEPT !.insts = <<>>] = Stage(d, <<>>, x, b, u, c)
  BY ONLY SetInsts
<1> HIDE DEF s, s1
<1>1. s.skidBuffer \o s.insts = x
  BY <1>0 DEF Joined
<1>4. skidInsert(s) = [s EXCEPT !.skidBuffer = x, !.insts = <<>>]
  BY <1>1 DEF skidInsert
<1>5. skidInsert(s) = [s1 EXCEPT !.insts = <<>>]
  BY <1>2, <1>4
<1> QED
  BY <1>3, <1>5 DEF s

(* block, which signals iewBlock unless rename is stopped already. *)
LEMMA BlockFields ==
  ASSUME NEW d, NEW i, NEW k, NEW b, NEW u, NEW c, NEW x, Joined(x, k, i)
  PROVE  block(Stage(d, i, k, b, u, c))
           = Stage("Blocked", <<>>, x, b \/ d \notin Held, u, c)
<1> DEFINE s == Stage(d, i, k, b, u, c)
           s1 == Stage(d, <<>>, x, b, u, c)
           v == b \/ d \notin Held
           s2 == Stage(d, <<>>, x, v, u, c)
<1>1. skidInsert(s) = s1
  BY SkidInsertFields
<1>2. (s1.toRename.iewBlock \/ s.dispatchStatus \notin Held) = v
  BY Fields
<1>3. [s1 EXCEPT !.toRename.iewBlock = v] = s2
  <2> HIDE DEF v
  <2> QED
    BY SetBlock
<1>4. [s2 EXCEPT !.dispatchStatus = "Blocked"] = Stage("Blocked", <<>>, x, v, u, c)
  <2> HIDE DEF v
  <2> QED
    BY SetStatus
<1> HIDE DEF s, s1, s2, v
<1>5. block(s) = [s1 EXCEPT !.toRename.iewBlock = v, !.dispatchStatus = "Blocked"]
  BY <1>1, <1>2 DEF block, Held
<1>6. block(s) = [s2 EXCEPT !.dispatchStatus = "Blocked"]
  BY <1>3, <1>5
<1> QED
  BY <1>4, <1>6 DEF s, v

(* unblock with nothing left: the stage runs and rename is released. *)
LEMMA UnblockEmpty ==
  ASSUME NEW d, NEW i, NEW b, NEW u, NEW c, NEW y, IsTrue(y)
  PROVE  unblock(Stage(d, i, <<>>, b, u, c)) = Stage("Running", i, <<>>, b, y, c)
<1> DEFINE k == <<>>
           s == Stage(d, i, k, b, u, c)
           s1 == Stage(d, i, k, b, y, c)
<1>1. s.skidBuffer = <<>>
  BY ONLY Fields
<1>2. [s EXCEPT !.toRename.iewUnblock = y] = s1
  <2> HIDE DEF k
  <2> QED
    BY ONLY SetUnblock
<1>3. [s1 EXCEPT !.dispatchStatus = "Running"] = Stage("Running", i, k, b, y, c)
  <2> HIDE DEF k
  <2> QED
    BY ONLY SetStatus
<1> HIDE DEF s, s1
<1>4. unblock(s) = [s EXCEPT !.toRename.iewUnblock = y, !.dispatchStatus = "Running"]
  BY <1>1 DEF unblock, IsTrue
<1>5. [s EXCEPT !.toRename.iewUnblock = y, !.dispatchStatus = "Running"]
        = [s1 EXCEPT !.dispatchStatus = "Running"]
  BY <1>2
<1> QED
  BY <1>3, <1>4, <1>5 DEF s

(* unblock with instructions left changes nothing. *)
LEMMA UnblockOther ==
  ASSUME NEW d, NEW i, NEW k, NEW b, NEW u, NEW c, k # <<>>
  PROVE  unblock(Stage(d, i, k, b, u, c)) = Stage(d, i, k, b, u, c)
<1> DEFINE s == Stage(d, i, k, b, u, c)
<1>1. s.skidBuffer = k
  BY ONLY Fields
<1> HIDE DEF s
<1>2. unblock(s) = s
  BY <1>1 DEF unblock
<1> QED
  BY <1>2 DEF s

(* emptyRenameInsts drops what has come from rename. *)
LEMMA EmptyRenameFields ==
  ASSUME NEW d, NEW i, NEW k, NEW b, NEW u, NEW c
  PROVE  emptyRenameInsts(Stage(d, i, k, b, u, c)) = Stage(d, <<>>, k, b, u, Plus(c, CountIn(i)))
<1> DEFINE s == Stage(d, i, k, b, u, c)
           e == Plus(c, CountIn(i))
           s1 == Stage(d, i, k, b, u, e)
<1>1. Credit(s, i) = s1 /\ s.insts = i
  BY CreditFields, Fields
<1>2. [s1 EXCEPT !.insts = <<>>] = Stage(d, <<>>, k, b, u, e)
  <2> HIDE DEF e
  <2> QED
    BY SetInsts
<1> HIDE DEF s, s1
<1>3. emptyRenameInsts(s) = [s1 EXCEPT !.insts = <<>>]
  BY <1>1 DEF emptyRenameInsts
<1> QED
  BY <1>2, <1>3 DEF s

(* squash empties both buffers, and releases rename if it is stopped. *)
LEMMA SquashFields ==
  ASSUME NEW d, NEW i, NEW k, NEW b, NEW u, NEW c, NEW z, Releases(z, u, d),
         NEW e, Counted(e, c, k), NEW f, Counted(f, e, i)
  PROVE  squash(Stage(d, i, k, b, u, c)) = Stage("Squashing", <<>>, <<>>, b, z, f)
<1> DEFINE s == Stage(d, i, k, b, u, c)
           e1 == Plus(c, CountIn(k))
           e2 == Plus(e1, CountIn(i))
           s1 == Stage(d, i, k, b, u, e1)
           s2 == Stage(d, i, <<>>, b, u, e1)
           s3 == Stage(d, <<>>, <<>>, b, u, e2)
           v == u \/ d \in Held
           s4 == Stage(d, <<>>, <<>>, b, v, e2)
<1>1. Credit(s, k) = s1 /\ s.skidBuffer = k /\ s.dispatchStatus = d
  BY CreditFields, Fields
<1>2. [s1 EXCEPT !.skidBuffer = <<>>] = s2
  <2> HIDE DEF e1
  <2> QED
    BY SetSkid
<1>3. emptyRenameInsts(s2) = s3
  <2> HIDE DEF e1
  <2> QED
    BY EmptyRenameFields
<1>4. s3.toRename.iewUnblock = u
  BY Fields
<1>5. [s3 EXCEPT !.toRename.iewUnblock = v] = s4
  <2> HIDE DEF e2, v
  <2> QED
    BY SetUnblock
<1>6. [s4 EXCEPT !.dispatchStatus = "Squashing"] = Stage("Squashing", <<>>, <<>>, b, v, e2)
  <2> HIDE DEF e2, v
  <2> QED
    BY SetStatus
<1>v. (s3.toRename.iewUnblock \/ s.dispatchStatus \in Held) = v
  BY <1>1, <1>4
<1>c. e = e1 /\ f = e2
  BY DEF Counted
<1> HIDE DEF s, s1, s2, s3, s4, e1, e2, v
<1>7. squash(s) = [emptyRenameInsts([s1 EXCEPT !.skidBuffer = <<>>]) EXCEPT
                     !.toRename.iewUnblock = @ \/ s.dispatchStatus \in Held,
                     !.dispatchStatus = "Squashing"]
  BY <1>1 DEF squash, Held
<1>8. squash(s) = [s3 EXCEPT !.toRename.iewUnblock = v, !.dispatchStatus = "Squashing"]
  BY <1>2, <1>3, <1>7, <1>v
<1>9. squash(s) = [s4 EXCEPT !.dispatchStatus = "Squashing"]
  BY <1>5, <1>8
<1>10. squash(s) = Stage("Squashing", <<>>, <<>>, b, v, e2)
  BY <1>6, <1>9
<1>11. v = z
  BY DEF v, Releases
<1> QED
  BY <1>10, <1>11, <1>c DEF s

(* dispatchInsts from the wire: everything fits, or the rest goes to the *)
(* skid buffer and the stage blocks, taking back a release. *)
LEMMA DispatchFields ==
  ASSUME NEW d, NEW i, NEW k, NEW b, NEW u, NEW c, NEW n, NEW y, IsFalse(y),
         NEW i1, Rest(i1, i, n), NEW g, First(g, i, n), NEW e, Counted(e, c, g),
         NEW x, Joined(x, k, i1), NEW z, Stops(z, b, d),
         NEW r, r = dispatchInsts(Stage(d, i, k, b, u, c), "insts", n)
  PROVE  /\ i1 = <<>> => r = Stage(d, i1, k, b, u, e)
         /\ i1 # <<>> => r = Stage("Blocked", <<>>, x, z, y, e)
<1> DEFINE s == Stage(d, i, k, b, u, c)
           s1 == Stage(d, i1, k, b, u, c)
           t == Stage(d, i1, k, b, u, e)
           v == b \/ d \notin Held
           t1 == Stage("Blocked", <<>>, x, v, u, e)
<1>1. s.insts = i /\ t.insts = i1 /\ [s EXCEPT !.insts = i1] = s1
  BY ONLY Fields, SetInsts
<1>2. Credit(s1, SubSeq(i, 1, n)) = t
  <2>1. Credit(s1, g) = Stage(d, i1, k, b, u, Plus(c, CountIn(g)))
    BY ONLY CreditFields
  <2>2. e = Plus(c, CountIn(g)) /\ g = SubSeq(i, 1, n)
    BY DEF Counted, First
  <2> HIDE DEF s1
  <2> QED
    BY <2>1, <2>2
<1>3. block(t) = t1
  BY BlockFields
<1>4. [t1 EXCEPT !.toRename.iewUnblock = y] = Stage("Blocked", <<>>, x, v, y, e)
  <2> HIDE DEF v
  <2> QED
    BY ONLY SetUnblock
<1>z. v = z
  BY DEF Stops
<1> HIDE DEF s, s1, t, t1, v
<1>5. [s EXCEPT !["insts"] = SubSeq(@, n + 1, Len(@))] = s1
  BY <1>1 DEF Rest
<1>6. dispatchInsts(s, "insts", n) =
        IF t.insts = <<>> THEN t ELSE [block(t) EXCEPT !.toRename.iewUnblock = y]
  BY <1>1, <1>2, <1>5 DEF dispatchInsts, IsFalse
<1>7. dispatchInsts(s, "insts", n) =
        IF i1 = <<>> THEN t ELSE Stage("Blocked", <<>>, x, v, y, e)
  BY <1>1, <1>3, <1>4, <1>6
<1> QED
  BY <1>7, <1>z DEF s, t

(* dispatchInsts from the skid buffer, with the same two outcomes. *)
LEMMA DispatchSkidFields ==
  ASSUME NEW d, NEW i, NEW k, NEW b, NEW u, NEW c, NEW n, NEW y, IsFalse(y),
         NEW k1, Rest(k1, k, n), NEW g, First(g, k, n), NEW e, Counted(e, c, g),
         NEW x, Joined(x, k1, i), NEW z, Stops(z, b, d),
         NEW r, r = dispatchInsts(Stage(d, i, k, b, u, c), "skidBuffer", n)
  PROVE  /\ k1 = <<>> => r = Stage(d, i, k1, b, u, e)
         /\ k1 # <<>> => r = Stage("Blocked", <<>>, x, z, y, e)
<1> DEFINE s == Stage(d, i, k, b, u, c)
           s1 == Stage(d, i, k1, b, u, c)
           t == Stage(d, i, k1, b, u, e)
           v == b \/ d \notin Held
           t1 == Stage("Blocked", <<>>, x, v, u, e)
<1>1. s.skidBuffer = k /\ t.skidBuffer = k1 /\ [s EXCEPT !.skidBuffer = k1] = s1
  BY ONLY Fields, SetSkid
<1>2. Credit(s1, SubSeq(k, 1, n)) = t
  <2>1. Credit(s1, g) = Stage(d, i, k1, b, u, Plus(c, CountIn(g)))
    BY ONLY CreditFields
  <2>2. e = Plus(c, CountIn(g)) /\ g = SubSeq(k, 1, n)
    BY DEF Counted, First
  <2> HIDE DEF s1
  <2> QED
    BY <2>1, <2>2
<1>3. block(t) = t1
  BY BlockFields
<1>4. [t1 EXCEPT !.toRename.iewUnblock = y] = Stage("Blocked", <<>>, x, v, y, e)
  <2> HIDE DEF v
  <2> QED
    BY ONLY SetUnblock
<1>z. v = z
  BY DEF Stops
<1> HIDE DEF s, s1, t, t1, v
<1>5. [s EXCEPT !["skidBuffer"] = SubSeq(@, n + 1, Len(@))] = s1
  BY <1>1 DEF Rest
<1>6. dispatchInsts(s, "skidBuffer", n) =
        IF t.skidBuffer = <<>> THEN t ELSE [block(t) EXCEPT !.toRename.iewUnblock = y]
  BY <1>1, <1>2, <1>5 DEF dispatchInsts, IsFalse
<1>7. dispatchInsts(s, "skidBuffer", n) =
        IF k1 = <<>> THEN t ELSE Stage("Blocked", <<>>, x, v, y, e)
  BY <1>1, <1>3, <1>4, <1>6
<1> QED
  BY <1>7, <1>z DEF s, t

(* The signals are cleared at the start of a cycle. *)
LEMMA QuietFields ==
  ASSUME NEW d, NEW i, NEW k, NEW b, NEW u, NEW c, NEW f, IsFalse(f)
  PROVE  [Stage(d, i, k, b, u, c) EXCEPT !.toRename = Quiet] = Stage(d, i, k, f, f, None)
<1> DEFINE With(x) == [dispatchStatus |-> d, insts |-> i, skidBuffer |-> k, toRename |-> x]
<1>1. ASSUME NEW x
      PROVE  [Stage(d, i, k, b, u, c) EXCEPT !.toRename = x] = With(x)
  BY DEF Stage
<1>2. Stage(d, i, k, f, f, None) = With(Quiet)
  BY Zenon DEF Stage, Quiet, IsFalse
<1> HIDE DEF With
<1> QED
  BY <1>1, <1>2

-----------------------------------------------------------------------------
(* The steps of a cycle. *)

(* What waits in the stage, and what it tells rename. *)
Here == iew.skidBuffer \o iew.insts
Told == iew.toRename.dispatched

(* Rename: it sends what may go, if anything. *)
Sends ==
  /\ Here' = Here /\ Told' = None /\ iew'.dispatchStatus = iew.dispatchStatus
  /\ \E s \in Seq(Inst) :
       /\ \A x \in 1 .. Len(s) : s[x].seq = next + x - 1
       /\ wire' = Append(wire, s) /\ next' = next + Len(s)
       /\ inProgress' = Minus(Plus(inProgress, CountIn(s)), Told)
       /\ fromCommit.squash \/ refill > 0 \/ iew.dispatchStatus \in Held => Len(s) = 0

(* The check of the signals: what arrives waits with the rest; or the ROB  *)
(* squashes and it is dropped; or commit squashes and all of it is.        *)
Outcome(p, c, h, d2, p2, c2) ==
  \/ ~fromCommit.robSquashing /\ p2 = p \o h /\ c2 = c
  \/ fromCommit.robSquashing /\ d2 = "Blocked" /\ p2 = p /\ Counted(c2, c, h)
  \/ /\ fromCommit.squash /\ d2 = "Squashing" /\ p2 = <<>>
     /\ \E e : Counted(e, c, p) /\ Counted(c2, e, h)
Arrives == Outcome(Here, Told, Head(wire), iew'.dispatchStatus, Here', Told')

(* The dispatch: the oldest ones leave, or nothing happens. *)
Taken(p, p2, c, c2) == \E g \in Seq(Inst) : p = g \o p2 /\ Counted(c2, c, g) /\ Entered(g)
Takes ==
  \/ iew.dispatchStatus \in {"Blocked", "Squashing"} /\ iew' = iew /\ lastDispatched' = lastDispatched
  \/ iew.dispatchStatus \notin {"Blocked", "Squashing"} /\ Taken(Here, Here', Told, Told')

LEMMA Before ==
  ASSUME NEW d, NEW i, NEW k, NEW b, NEW u, NEW c, iew = Stage(d, i, k, b, u, c)
  PROVE  Here = k \o i /\ Told = c /\ iew.dispatchStatus = d
<1>1. iew.skidBuffer = k /\ iew.insts = i /\ iew.toRename.dispatched = c /\ iew.dispatchStatus = d
  BY Fields
<1> QED
  BY <1>1 DEF Here, Told

LEMMA After ==
  ASSUME NEW d, NEW i, NEW k, NEW b, NEW u, NEW c, iew' = Stage(d, i, k, b, u, c)
  PROVE  Here' = k \o i /\ Told' = c /\ iew'.dispatchStatus = d
<1>1. /\ iew'.skidBuffer = k /\ iew'.insts = i /\ iew'.toRename.dispatched = c
      /\ iew'.dispatchStatus = d
  BY Fields
<1> QED
  BY <1>1 DEF Here, Told

(* The new stage is all that is left to show for each. *)
LEMMA StageKeeps ==
  ASSUME turn' \in {"commit", "rename", "check", "dispatch"},
         stalled' \in BOOLEAN, next' \in Nat, WireOK(turn', wire'),
         NEW d \in Statuses, NEW i \in Seq(Inst), NEW k \in Seq(Inst),
         NEW b \in BOOLEAN, NEW u \in BOOLEAN, NEW c,
         iew' = Stage(d, i, k, b, u, c), Good(turn', stalled', wire', d, i, k, b, u)
  PROVE  IInv'
BY DEF IInv

(* The stage starts Running, empty and with a silent rename. *)
LEMMA InitIInv == Init => IInv
<1> SUFFICES ASSUME Init
             PROVE  IInv
  OBVIOUS
<1>1. iew = Stage("Running", <<>>, <<>>, FALSE, FALSE, None)
  BY DEF Init, Stage, Quiet
<1>2. WireOK(turn, wire)
  <2>1. <<>> \in Seq(Inst) /\ Len(<<>>) = 0
    OBVIOUS
  <2>2. wire \in Seq(Seq(Inst)) /\ Len(wire) = D /\ \A x \in 1 .. D : wire[x] = <<>>
    BY <2>1, Widths DEF Init, D
  <2>3. turn = "commit"
    BY DEF Init
  <2> QED
    BY <2>1, <2>2, <2>3, Widths DEF WireOK
<1>3. Good(turn, stalled, wire, "Running", <<>>, <<>>, FALSE, FALSE)
  BY Widths DEF Init, Good, Held
<1>4. <<>> \in Seq(Inst) /\ "Running" \in Statuses
  BY DEF Statuses
<1> QED
  BY <1>1, <1>2, <1>3, <1>4 DEF IInv, Init

(* The phase of commit. *)
LEMMA CommitKeeps ==
  ASSUME IInv, Commit
  PROVE  IInv'
<1>0. PICK d \in Statuses, i \in Seq(Inst), k \in Seq(Inst), b \in BOOLEAN, u \in BOOLEAN :
        \E e : iew = Stage(d, i, k, b, u, e) /\ Good(turn, stalled, wire, d, i, k, b, u)
  BY DEF IInv
<1>1. PICK c : iew = Stage(d, i, k, b, u, c) /\ Good(turn, stalled, wire, d, i, k, b, u)
  BY <1>0
<1>2. /\ turn = "commit" /\ turn' = "rename"
      /\ iew' = iew /\ wire' = wire /\ stalled' = stalled /\ next' = next
  BY DEF Commit, renameVars
<1>3. WireOK(turn', wire')
  BY <1>2 DEF IInv, WireOK
<1>4. Good(turn', stalled', wire', d, i, k, b, u)
  BY <1>1, <1>2 DEF Good
<1> QED
  BY <1>1, <1>2, <1>3, <1>4, StageKeeps DEF IInv

(* The phase of rename: it fills the end of the wire unless it is stopped. *)
LEMMA RenameKeeps ==
  ASSUME IInv, Rename
  PROVE  IInv' /\ Sends
<1>0. PICK d \in Statuses, i \in Seq(Inst), k \in Seq(Inst), b \in BOOLEAN, u \in BOOLEAN :
        \E e : iew = Stage(d, i, k, b, u, e) /\ Good(turn, stalled, wire, d, i, k, b, u)
  BY DEF IInv
<1>1. PICK c : iew = Stage(d, i, k, b, u, c) /\ Good(turn, stalled, wire, d, i, k, b, u)
  BY <1>0
<1>2. /\ turn = "rename" /\ turn' = "check"
      /\ wire \in Seq(Seq(Inst)) /\ Len(wire) = D /\ next \in Nat /\ stalled \in BOOLEAN
      /\ \A x \in 1 .. D : Len(wire[x]) <= W
  BY Widths DEF Rename, IInv, WireOK
<1>3. iew.toRename.iewBlock = b /\ iew.toRename.iewUnblock = u
  BY <1>1, Fields
<1> DEFINE blocked == (stalled \/ b) /\ ~u
           most == IF blocked \/ refill > 0 \/ fromCommit.squash THEN 0
                   ELSE Min({renameWidth, NumInsts + 1 - next})
           sent(n) == [x \in 1 .. n |-> [seq |-> next + x - 1, kind |-> Program[next + x - 1]]]
<1>4. stalled' = blocked /\ iew' = [iew EXCEPT !.toRename = Quiet]
  BY <1>3 DEF Rename
<1>5. PICK n \in 0 .. most : /\ wire' = Append(wire, sent(n)) /\ next' = next + n
                             /\ inProgress' = Minus(Plus(inProgress, CountIn(sent(n))), Told)
  BY <1>3 DEF Rename, Told
<1>6. n \in Nat /\ n <= W /\ (blocked => n = 0)
  <2>1. Min({renameWidth, NumInsts + 1 - next}) \in Int /\ Min({renameWidth, NumInsts + 1 - next}) <= W
    BY <1>2, Widths, MinOfTwo, SMTT(30) DEF W
  <2>2. most \in Int /\ most <= W /\ (blocked => most = 0)
    BY <2>1, Widths
  <2> HIDE DEF most, blocked
  <2> QED
    BY <2>2, Widths
<1>7. sent(n) \in Seq(Inst) /\ Len(sent(n)) = n
  <2>1. \A x \in 1 .. n : [seq |-> next + x - 1, kind |-> Program[next + x - 1]] \in Inst
    <3> SUFFICES ASSUME NEW x \in 1 .. n
                 PROVE  [seq |-> next + x - 1, kind |-> Program[next + x - 1]] \in Inst
      OBVIOUS
    <3>1. next + x - 1 \in Nat
      BY <1>2, <1>6
    <3> QED
      BY <3>1 DEF Inst
  <2>2. sent(n) \in [1 .. n -> Inst]
    BY <2>1
  <2> HIDE DEF sent
  <2> QED
    BY <1>6, <2>2
<1>8. n = 0 => sent(n) = <<>>
  BY <1>7
<1>n. fromCommit.squash \/ refill > 0 \/ blocked => n = 0
  <2>1. fromCommit.squash \/ refill > 0 \/ blocked => most = 0
    OBVIOUS
  <2> HIDE DEF most, blocked, sent
  <2> QED
    BY <2>1
<1>q. \A x \in 1 .. n : sent(n)[x].seq = next + x - 1
  OBVIOUS
<1> HIDE DEF sent, most
<1>9. WireOK(turn', wire')
  <2>1. wire' \in Seq(Seq(Inst)) /\ Len(wire') = D + 1
    BY <1>2, <1>5, <1>7, Widths
  <2>2. ASSUME NEW x \in 1 .. D + 1
        PROVE  Len(wire'[x]) <= W
    <3>1. CASE x = D + 1
      BY <1>2, <1>5, <1>6, <1>7, <3>1, Widths
    <3>2. CASE x # D + 1
      <4>1. x \in 1 .. D /\ wire'[x] = wire[x]
        BY <1>2, <1>5, <1>7, <3>2, Widths
      <4> QED
        BY <1>2, <4>1
    <3> QED
      BY <3>1, <3>2
  <2> QED
    BY <1>2, <2>1, <2>2 DEF WireOK
<1>10. iew' = Stage(d, i, k, FALSE, FALSE, None)
  <2> DEFINE s == Stage(d, i, k, b, u, c)
             f == FALSE
             s1 == Stage(d, i, k, f, f, None)
  <2>1. [s EXCEPT !.toRename = Quiet] = s1
    <3>1. IsFalse(f)
      BY DEF IsFalse
    <3> HIDE DEF f
    <3> QED
      BY <3>1, QuietFields
  <2> HIDE DEF s, s1
  <2>2. iew = s
    BY <1>1 DEF s
  <2>3. iew' = s1
    BY <1>4, <2>1, <2>2
  <2> QED
    BY <2>3 DEF s1
<1>11. Good(turn', stalled', wire', d, i, k, FALSE, FALSE)
  <2>1. blocked <=> d \in Held
    BY <1>1 DEF Good
  <2>2. i = <<>> /\ Len(i) <= W /\ (d \notin Held => k = <<>>) /\ (d = "Unblocking" => k # <<>>)
    BY <1>1, <1>2 DEF Good
  <2>3. d \in Held => Room(wire', Len(k) + Len(i))
    <3> SUFFICES ASSUME d \in Held
                 PROVE  Room(wire', Len(k) + Len(i))
      OBVIOUS
    <3>1. Room(wire, Len(k) + Len(i)) /\ Len(k) + Len(i) \in Nat
      BY <1>1 DEF Good
    <3>2. wire' = Append(wire, <<>>)
      BY <1>5, <1>6, <1>8, <2>1
    <3> QED
      BY <1>2, <3>1, <3>2, RoomStays
  <2> HIDE DEF blocked
  <2> QED
    BY <1>2, <1>4, <2>1, <2>2, <2>3 DEF Good, Held
<1>12. stalled' \in BOOLEAN /\ next' \in Nat
  BY <1>2, <1>4, <1>5, <1>6
<1>13. IInv'
  BY <1>2, <1>9, <1>10, <1>11, <1>12, StageKeeps
<1>14. blocked <=> d \in Held
  BY <1>1 DEF Good
<1> HIDE DEF blocked
<1>15. Here' = Here /\ Told' = None /\ iew.dispatchStatus = d /\ iew'.dispatchStatus = d
  <2>1. Here = k \o i /\ iew.dispatchStatus = d
    BY <1>1, Before
  <2>2. Here' = k \o i /\ Told' = None /\ iew'.dispatchStatus = d
    <3> DEFINE f == FALSE
    <3>1. iew' = Stage(d, i, k, f, f, None)
      BY <1>10
    <3> HIDE DEF f
    <3> QED
      BY <3>1, After
  <2> QED
    BY <2>1, <2>2
<1>16. Sends
  BY <1>5, <1>7, <1>14, <1>15, <1>n, <1>q DEF Sends
<1> QED
  BY <1>13, <1>16


(* sortInsts and checkSignalsAndUpdate. *)
LEMMA CheckKeeps ==
  ASSUME IInv, checkSignalsAndUpdate
  PROVE  IInv' /\ Arrives
<1>0. PICK d \in Statuses, i \in Seq(Inst), k \in Seq(Inst), b \in BOOLEAN, u \in BOOLEAN :
        \E e : iew = Stage(d, i, k, b, u, e) /\ Good(turn, stalled, wire, d, i, k, b, u)
  BY DEF IInv
<1>1. PICK c : iew = Stage(d, i, k, b, u, c) /\ Good(turn, stalled, wire, d, i, k, b, u)
  BY <1>0
<1> DEFINE h == Head(wire)
           s == Stage(d, h, k, b, u, c)
           arrived == [iew EXCEPT !.insts = @ \o Head(wire)]
           s1 == IF fromCommit.robSquashing
                 THEN [emptyRenameInsts(arrived) EXCEPT !.dispatchStatus = "Squashing"]
                 ELSE arrived
<1>2. /\ turn = "check" /\ turn' = "dispatch" /\ wire' = Tail(wire)
      /\ stalled' = stalled /\ next' = next /\ stalled \in BOOLEAN /\ next \in Nat
  BY SMTT(30) DEF checkSignalsAndUpdate, renameVars, IInv
<1>3. \/ fromCommit.squash /\ iew' = squash(arrived)
      \/ \E full \in BOOLEAN :
           iew' = IF full \/ fromCommit.robSquashing THEN block(s1)
                  ELSE IF s1.dispatchStatus = "Blocked"
                  THEN unblock([s1 EXCEPT !.dispatchStatus = "Unblocking"])
                  ELSE IF s1.dispatchStatus = "Squashing"
                  THEN [s1 EXCEPT !.dispatchStatus = "Running"] ELSE s1
  BY DEF checkSignalsAndUpdate
<1>4. /\ i = <<>> /\ b = FALSE /\ u = FALSE /\ (stalled <=> d \in Held)
      /\ (d = "Unblocking" => k # <<>>) /\ (d \notin Held => k = <<>>)
  BY <1>1, <1>2 DEF Good
<1>5. /\ wire \in Seq(Seq(Inst)) /\ Len(wire) = D + 1
      /\ \A x \in 1 .. D + 1 : Len(wire[x]) <= W
  BY <1>2 DEF IInv, WireOK
<1>6. /\ h \in Seq(Inst) /\ h = wire[1] /\ Len(h) <= W /\ Len(h) \in Nat
      /\ wire' \in Seq(Seq(Inst)) /\ Len(wire') = D
      /\ \A x \in 1 .. D : wire'[x] = wire[x + 1]
  BY <1>2, <1>5, Widths
<1>7. WireOK(turn', wire')
  <2>1. \A x \in 1 .. D : Len(wire'[x]) <= W
    BY <1>5, <1>6, Widths
  <2> QED
    BY <1>2, <1>6, <2>1, Widths DEF WireOK
<1>8. d \in Held => Room(wire', Len(k) + Len(h)) /\ Room(wire', Len(k))
  <2> SUFFICES ASSUME d \in Held
               PROVE  Room(wire', Len(k) + Len(h)) /\ Room(wire', Len(k))
    OBVIOUS
  <2>1. Len(i) = 0 /\ Len(k) \in Nat
    BY <1>4
  <2>2. Room(wire, Len(k))
    BY <1>1, <2>1 DEF Good
  <2>3. Room(Tail(wire), Len(k) + Len(Head(wire)))
    BY <1>5, <1>6, <2>1, <2>2, RoomForHead, Widths
  <2>4. Room(wire', Len(k) + Len(h))
    BY <1>2, <2>3
  <2> HIDE DEF h
  <2> QED
    BY <1>6, <2>1, <2>4, RoomForLess
<1>9. arrived = s
  <2> DEFINE s0 == Stage(d, i, k, b, u, c)
  <2>1. [s0 EXCEPT !.insts = h] = s /\ s0.insts = i
    <3> HIDE DEF h
    <3> QED
      BY ONLY SetInsts, Fields
  <2>2. i \o h = h
    BY <1>4, <1>6
  <2> HIDE DEF s0, s
  <2>3. iew = s0
    BY <1>1 DEF s0
  <2>4. arrived = [s0 EXCEPT !.insts = h]
    <3>1. iew.insts \o Head(wire) = h
      BY <2>1, <2>2, <2>3
    <3> HIDE DEF h
    <3> QED
      BY <2>3, <3>1
  <2> QED
    BY <2>1, <2>4
<1> HIDE DEF arrived, h
<1>10. ASSUME NEW d2 \in Statuses, NEW i2 \in Seq(Inst), NEW k2 \in Seq(Inst),
              NEW b2 \in BOOLEAN, NEW u2 \in BOOLEAN, NEW c2,
              iew' = Stage(d2, i2, k2, b2, u2, c2),
              Good("dispatch", stalled, wire', d2, i2, k2, b2, u2),
              NEW p2, Joined(p2, k2, i2), Outcome(k, c, h, d2, p2, c2)
       PROVE  IInv' /\ Arrives
  <2>1. IInv'
    BY <1>2, <1>7, <1>10, StageKeeps
  <2>2. Here = k /\ Told = c
    <3>1. Here = k \o i /\ Told = c
      BY <1>1, Before
    <3> QED
      BY <1>4, <3>1
  <2>3. Here' = p2 /\ Told' = c2 /\ iew'.dispatchStatus = d2
    <3>1. Here' = k2 \o i2 /\ Told' = c2 /\ iew'.dispatchStatus = d2
      BY <1>10, After
    <3> QED
      BY <1>10, <3>1 DEF Joined
  <2>4. Head(wire) = h
    BY DEF h
  <2>5. Arrives
    BY <1>10, <2>2, <2>3, <2>4 DEF Arrives
  <2> QED
    BY <2>1, <2>5
<1>j. /\ Joined(<<>>, <<>>, <<>>) /\ \A q \in Seq(Inst) : Joined(q, q, <<>>)
      /\ Joined(k \o h, k, h)
  BY <1>6 DEF Joined
<1>o. ~fromCommit.robSquashing => \A d2 : Outcome(k, c, h, d2, k \o h, c)
  BY DEF Outcome
<1>e. <<>> \in Seq(Inst) /\ Len(<<>>) = 0
  OBVIOUS
<1>w. ASSUME ~fromCommit.robSquashing, NEW d2 \in Statuses, NEW b2 \in BOOLEAN, NEW u2 \in BOOLEAN,
             iew' = Stage(d2, h, k, b2, u2, c), Good("dispatch", stalled, wire', d2, h, k, b2, u2)
      PROVE  IInv' /\ Arrives
  <2> DEFINE p2 == k \o h
  <2>1. Joined(p2, k, h) /\ Outcome(k, c, h, d2, p2, c)
    BY <1>w, <1>j, <1>o
  <2> HIDE DEF p2
  <2>2. h \in Seq(Inst) /\ k \in Seq(Inst)
    BY <1>6
  <2> QED
    BY <1>10, <1>w, <2>1, <2>2
<1>11. CASE fromCommit.squash /\ iew' = squash(arrived)
  <2> DEFINE u2 == u \/ d \in Held
             e0 == Plus(c, CountIn(k))
             e == Plus(e0, CountIn(h))
  <2>00. Counted(e0, c, k) /\ Counted(e, e0, h) /\ Releases(u2, u, d)
    BY DEF Counted, Releases
  <2>0. squash(s) = Stage("Squashing", <<>>, <<>>, b, u2, e)
    <3> HIDE DEF u2, e0, e
    <3> QED
      BY ONLY <2>00, SquashFields
  <2> HIDE DEF e0, e
  <2>1. iew' = Stage("Squashing", <<>>, <<>>, b, u2, e)
    <3> HIDE DEF u2, s
    <3> QED
      BY <1>9, <1>11, <2>0
  <2>2. Good("dispatch", stalled, wire', "Squashing", <<>>, <<>>, b, u2)
    BY <1>4, <1>e, Widths DEF Good, Held
  <2>3. u2 \in BOOLEAN /\ "Squashing" \in Statuses
    BY DEF Statuses
  <2>4. Outcome(k, c, h, "Squashing", <<>>, e)
    BY <1>11, <2>00 DEF Outcome
  <2>5. iew' = Stage("Squashing", <<>>, <<>>, b, u2, e)
    BY <2>1
  <2> HIDE DEF u2, s, s1
  <2> QED
    BY <1>10, <1>e, <1>j, <2>2, <2>3, <2>4, <2>5
<1>12. ASSUME NEW d1 \in Statuses, NEW i1 \in Seq(Inst), NEW c1,
              s1 = Stage(d1, i1, k, b, u, c1), iew' = block(s1),
              Len(i1) <= W, d \in Held \/ d1 = d \/ d1 = "Squashing",
              d \in Held => Room(wire', Len(k) + Len(i1)),
              d \notin Held => d1 \notin Held,
              Outcome(k, c, h, "Blocked", k \o i1, c1)
       PROVE  IInv' /\ Arrives
  <2> DEFINE x == k \o i1
             b2 == b \/ d1 \notin Held
  <2>1. x \in Seq(Inst) /\ Len(x) = Len(k) + Len(i1)
    OBVIOUS
  <2>2. Joined(x, k, i1)
    BY DEF Joined
  <2>3. Room(wire', Len(x) + Len(<<>>))
    <3>1. CASE d \in Held
      BY <1>12, <1>e, <2>1, <3>1
    <3>2. CASE d \notin Held
      <4>1. Len(k) = 0 /\ Len(x) \in Nat /\ Len(x) <= W
        BY <1>4, <1>12, <1>e, <2>1, <3>2
      <4> HIDE DEF x
      <4> QED
        BY <1>6, <1>e, <4>1, RoomForOne
    <3> QED
      BY <3>1, <3>2
  <2>8. Joined(x, x, <<>>) /\ Outcome(k, c, h, "Blocked", x, c1)
    BY <1>12, <1>j, <2>1
  <2> HIDE DEF x
  <2>4. iew' = Stage("Blocked", <<>>, x, b2, u, c1)
    BY <1>12, <2>2, BlockFields, SMTT(30)
  <2>5. stalled \/ b2
    BY <1>4, <1>12
  <2>6. b2 \in BOOLEAN /\ "Blocked" \in Statuses
    BY DEF Statuses
  <2> HIDE DEF b2
  <2>7. Good("dispatch", stalled, wire', "Blocked", <<>>, x, b2, u)
    BY <1>4, <1>e, <2>3, <2>5, Widths DEF Good, Held
  <2> QED
    BY <1>10, <1>e, <2>1, <2>4, <2>6, <2>7, <2>8
<1>13. ASSUME NEW full \in BOOLEAN, fromCommit.robSquashing, iew' = block(s1)
       PROVE  IInv' /\ Arrives
  <2>1. emptyRenameInsts(s) = Stage(d, <<>>, k, b, u, Plus(c, CountIn(h)))
    BY ONLY EmptyRenameFields
  <2> DEFINE e == Plus(c, CountIn(h))
             r == Stage(d, <<>>, k, b, u, e)
  <2>2. [r EXCEPT !.dispatchStatus = "Squashing"] = Stage("Squashing", <<>>, k, b, u, e)
    <3> HIDE DEF e
    <3> QED
      BY ONLY SetStatus
  <2> HIDE DEF r, s
  <2>3. emptyRenameInsts(arrived) = r
    BY <1>9, <2>1 DEF r
  <2>4. s1 = [r EXCEPT !.dispatchStatus = "Squashing"]
    BY <1>13, <2>3
  <2>5. s1 = Stage("Squashing", <<>>, k, b, u, e)
    BY <2>2, <2>4
  <2>6. Len(k) + Len(<<>>) = Len(k) /\ Len(<<>>) <= W
    BY <1>e, Widths
  <2>7. "Squashing" \in Statuses /\ "Squashing" \notin Held
    BY DEF Statuses, Held
  <2>8. Outcome(k, c, h, "Blocked", k \o <<>>, e)
    BY <1>13 DEF Outcome, Counted
  <2> HIDE DEF s1, e
  <2> QED
    BY <1>8, <1>12, <1>13, <1>e, <2>5, <2>6, <2>7, <2>8
<1>14. ~fromCommit.robSquashing => s1 = s
  BY <1>9
<1> HIDE DEF s1
<1>15. ASSUME ~fromCommit.robSquashing, s1 = s, iew' = block(s1)
       PROVE  IInv' /\ Arrives
  <2>1. Outcome(k, c, h, "Blocked", k \o h, c)
    BY <1>15, <1>o
  <2> QED
    BY <1>6, <1>8, <1>12, <1>15, <2>1
<1>16. ASSUME ~fromCommit.robSquashing, s1 = s, d = "Blocked",
              iew' = unblock([s1 EXCEPT !.dispatchStatus = "Unblocking"])
       PROVE  IInv' /\ Arrives
  <2> DEFINE r == Stage("Unblocking", h, k, b, u, c)
             t == TRUE
  <2>1. [s EXCEPT !.dispatchStatus = "Unblocking"] = r
    BY ONLY SetStatus
  <2>2. /\ unblock(Stage("Unblocking", h, <<>>, b, u, c)) = Stage("Running", h, <<>>, b, t, c)
        /\ k # <<>> => unblock(r) = r
    <3>1. IsTrue(t)
      BY DEF IsTrue
    <3> HIDE DEF t
    <3>2. unblock(Stage("Unblocking", h, <<>>, b, u, c)) = Stage("Running", h, <<>>, b, t, c)
      BY ONLY <3>1, UnblockEmpty
    <3>3. ASSUME k # <<>>
          PROVE  unblock(r) = r
      BY ONLY <3>3, UnblockOther
    <3> QED
      BY <3>2, <3>3
  <2> HIDE DEF s, t
  <2>3. iew' = unblock(r)
    <3> HIDE DEF r
    <3> QED
      BY <1>16, <2>1
  <2>4. stalled /\ "Running" \in Statuses /\ "Unblocking" \in Statuses
    BY <1>4, <1>16 DEF Held, Statuses
  <2>5. CASE k = <<>>
    <3>1. Good("dispatch", stalled, wire', "Running", h, k, b, t)
      BY <1>4, <1>6, <2>4, <2>5 DEF Good, Held, t
    <3>2. iew' = Stage("Running", h, k, b, t, c)
      BY <2>2, <2>3, <2>5 DEF r
    <3>3. t \in BOOLEAN
      BY DEF t
    <3> QED
      BY <1>16, <1>w, <2>4, <2>5, <3>1, <3>2, <3>3
  <2>6. CASE k # <<>>
    <3>1. Good("dispatch", stalled, wire', "Unblocking", h, k, b, u)
      BY <1>4, <1>6, <1>8, <1>16, <2>4, <2>6 DEF Good, Held
    <3>2. iew' = r
      BY <2>2, <2>3, <2>6
    <3> QED
      BY <1>16, <1>w, <2>4, <3>1, <3>2 DEF r
  <2> QED
    BY <2>5, <2>6
<1>17. ASSUME ~fromCommit.robSquashing, s1 = s, d = "Squashing", iew' = [s1 EXCEPT !.dispatchStatus = "Running"]
       PROVE  IInv' /\ Arrives
  <2>1. [s EXCEPT !.dispatchStatus = "Running"] = Stage("Running", h, k, b, u, c)
    BY ONLY SetStatus
  <2>2. iew' = Stage("Running", h, k, b, u, c)
    <3> HIDE DEF s
    <3> QED
      BY <1>17, <2>1
  <2>3. Good("dispatch", stalled, wire', "Running", h, k, b, u) /\ "Running" \in Statuses
    BY <1>4, <1>6, <1>17 DEF Good, Held, Statuses
  <2> QED
    BY <1>17, <1>w, <2>2, <2>3
<1>18. ASSUME ~fromCommit.robSquashing, s1 = s, d \in {"Running", "Unblocking"}, iew' = s1
       PROVE  IInv' /\ Arrives
  <2>1. Good("dispatch", stalled, wire', d, h, k, b, u)
    BY <1>4, <1>6, <1>8, <1>18 DEF Good, Held
  <2> QED
    BY <1>18, <1>w, <2>1 DEF s
<1>19. s.dispatchStatus = d
  BY ONLY Fields
<1> HIDE DEF s
<1>20. ASSUME NEW full \in BOOLEAN,
              iew' = IF full \/ fromCommit.robSquashing THEN block(s1)
                     ELSE IF s1.dispatchStatus = "Blocked"
                     THEN unblock([s1 EXCEPT !.dispatchStatus = "Unblocking"])
                     ELSE IF s1.dispatchStatus = "Squashing"
                     THEN [s1 EXCEPT !.dispatchStatus = "Running"] ELSE s1
       PROVE  IInv' /\ Arrives
  <2>1. CASE fromCommit.robSquashing
    BY <1>13, <1>20, <2>1
  <2>2. CASE ~fromCommit.robSquashing
    <3>1. s1 = s /\ s1.dispatchStatus = d
      BY <1>14, <1>19, <2>2
    <3>2. CASE full
      BY <1>15, <1>20, <2>2, <3>1, <3>2
    <3>3. CASE ~full /\ d = "Blocked"
      BY <1>16, <1>20, <2>2, <3>1, <3>3
    <3>4. CASE ~full /\ d = "Squashing"
      BY <1>17, <1>20, <2>2, <3>1, <3>4
    <3>5. CASE ~full /\ d \in {"Running", "Unblocking"}
      BY <1>18, <1>20, <2>2, <3>1, <3>5
    <3> QED
      BY <3>2, <3>3, <3>4, <3>5 DEF Statuses
  <2> QED
    BY <2>1, <2>2
<1> QED
  BY <1>3, <1>11, <1>20

(* What dispatchInsts takes leaves the rest of the sequence. *)
LEMMA Remains ==
  ASSUME NEW q \in Seq(Inst), NEW n \in 0 .. Min({Len(q), dispatchWidth}),
         NEW r, Rest(r, q, n)
  PROVE  r \in Seq(Inst) /\ Len(r) <= Len(q)
<1>1. n \in Nat /\ n <= Len(q)
  <2>0. Len(q) \in Int /\ dispatchWidth \in Int
    BY Widths
  <2>1. Len(q) \in Int /\ Min({Len(q), dispatchWidth}) <= Len(q)
        /\ Min({Len(q), dispatchWidth}) \in Int
    BY ONLY <2>0, MinOfTwo
  <2> QED
    BY <2>1
<1> QED
  BY <1>1 DEF Rest

(* ... and the two together are the sequence. *)
LEMMA Divides ==
  ASSUME NEW q \in Seq(Inst), NEW n \in 0 .. Min({Len(q), dispatchWidth}),
         NEW g, First(g, q, n), NEW r, Rest(r, q, n)
  PROVE  g \in Seq(Inst) /\ Joined(q, g, r)
<1>1. n \in Nat /\ n <= Len(q) /\ Len(q) \in Nat
  <2>0. Len(q) \in Int /\ dispatchWidth \in Int
    BY Widths
  <2>1. Len(q) \in Int /\ Min({Len(q), dispatchWidth}) <= Len(q)
        /\ Min({Len(q), dispatchWidth}) \in Int
    BY ONLY <2>0, MinOfTwo
  <2> QED
    BY <2>1
<1>2. g \in Seq(Inst) /\ Len(g) = n /\ \A k \in 1 .. n : g[k] = q[k]
  BY <1>1 DEF First
<1>3. r \in Seq(Inst) /\ Len(r) = Len(q) - n /\ \A k \in 1 .. Len(q) - n : r[k] = q[k + n]
  BY <1>1 DEF Rest
<1> DEFINE j == g \o r
<1>4. /\ j \in Seq(Inst) /\ Len(j) = Len(q)
      /\ \A k \in 1 .. Len(q) : j[k] = IF k <= n THEN g[k] ELSE r[k - n]
  BY <1>1, <1>2, <1>3, ConcatProperties
<1> HIDE DEF j
<1>5. ASSUME NEW k \in 1 .. Len(q)
      PROVE  j[k] = q[k]
  <2>1. CASE k <= n
    BY <1>2, <1>4, <2>1
  <2>2. CASE k > n
    <3>1. k - n \in 1 .. Len(q) - n /\ (k - n) + n = k /\ ~(k <= n)
      BY <1>1, <2>2
    <3> QED
      BY <1>3, <1>4, <3>1
  <2> QED
    BY <1>1, <2>1, <2>2
<1>6. j = q
  BY <1>4, <1>5, SeqEqual
<1> QED
  BY <1>2, <1>6 DEF j, Joined

(* dispatch. *)
LEMMA DispatchKeeps ==
  ASSUME IInv, dispatch
  PROVE  IInv' /\ Takes
<1>0. PICK d \in Statuses, i \in Seq(Inst), k \in Seq(Inst), b \in BOOLEAN, u \in BOOLEAN :
        \E e : iew = Stage(d, i, k, b, u, e) /\ Good(turn, stalled, wire, d, i, k, b, u)
  BY DEF IInv
<1>1. PICK c : iew = Stage(d, i, k, b, u, c) /\ Good(turn, stalled, wire, d, i, k, b, u)
  BY <1>0
<1>2. /\ turn = "dispatch" /\ turn' = "commit" /\ wire' = wire
      /\ stalled' = stalled /\ next' = next /\ stalled \in BOOLEAN /\ next \in Nat
  BY DEF dispatch, renameVars, IInv
<1>3. WireOK(turn', wire') /\ wire' \in Seq(Seq(Inst)) /\ Len(wire') = D
  BY <1>2, Widths DEF IInv, WireOK
<1>4. /\ iew.dispatchStatus = d /\ iew.insts = i /\ iew.skidBuffer = k
      /\ iew["insts"] = i /\ iew["skidBuffer"] = k
  BY <1>1, Fields
<1>5. ASSUME NEW d2 \in Statuses, NEW i2 \in Seq(Inst), NEW k2 \in Seq(Inst),
             NEW b2 \in BOOLEAN, NEW u2 \in BOOLEAN, NEW c2,
             iew' = Stage(d2, i2, k2, b2, u2, c2),
             Good("commit", stalled, wire', d2, i2, k2, b2, u2)
      PROVE  IInv'
  BY <1>2, <1>3, <1>5, StageKeeps
<1>t. ASSUME NEW d2, NEW i2 \in Seq(Inst), NEW k2 \in Seq(Inst), NEW b2, NEW u2, NEW e,
             iew' = Stage(d2, i2, k2, b2, u2, e), d \notin {"Blocked", "Squashing"},
             NEW g \in Seq(Inst), Counted(e, c, g), Entered(g),
             NEW p, Joined(p, k, i), NEW p2, Joined(p2, k2, i2), Joined(p, g, p2)
      PROVE  Takes
  <2>1. Here = p /\ Told = c /\ iew.dispatchStatus = d
    <3>1. Here = k \o i /\ Told = c /\ iew.dispatchStatus = d
      BY <1>1, Before
    <3> QED
      BY <1>t, <3>1 DEF Joined
  <2>2. Here' = p2 /\ Told' = e
    <3>1. Here' = k2 \o i2 /\ Told' = e
      BY <1>t, After
    <3> QED
      BY <1>t, <3>1 DEF Joined
  <2>3. p = g \o p2
    BY <1>t DEF Joined
  <2> QED
    BY <1>t, <2>1, <2>2, <2>3 DEF Takes, Taken
<1>e. <<>> \in Seq(Inst) /\ Len(<<>>) = 0
  OBVIOUS
<1> DEFINE no == FALSE
           yes == TRUE
<1>b. no \in BOOLEAN /\ yes \in BOOLEAN /\ ~no /\ yes /\ IsTrue(yes) /\ IsFalse(no)
  BY DEF IsTrue, IsFalse
<1>s. "Running" \in Statuses /\ "Blocked" \in Statuses /\ "Unblocking" \in Statuses
  BY DEF Statuses
<1>6. ASSUME d = "Running", NEW n \in Possible(iew, "insts"),
             iew' = dispatchInsts(iew, "insts", n), Entered(SubSeq(iew.insts, 1, n))
      PROVE  IInv' /\ Takes
  <2> DEFINE i1 == SubSeq(i, n + 1, Len(i))
             x == k \o i1
             b2 == b \/ d \notin Held
  <2>1. n \in 0 .. Min({Len(i), dispatchWidth})
    BY <1>4, <1>6 DEF Possible
  <2>2. i1 \in Seq(Inst) /\ Len(i1) <= Len(i) /\ Rest(i1, i, n)
    <3>1. Rest(i1, i, n)
      BY DEF Rest
    <3> HIDE DEF i1
    <3> QED
      BY <2>1, <3>1, Remains
  <2> DEFINE g == SubSeq(i, 1, n)
             e == Plus(c, CountIn(g))
  <2>g. First(g, i, n) /\ Counted(e, c, g) /\ Entered(g)
    BY <1>4, <1>6 DEF First, Counted
  <2>q. g \in Seq(Inst) /\ Joined(i, g, i1)
    <3>1. First(g, i, n) /\ Rest(i1, i, n)
      BY <2>g, <2>2
    <3> HIDE DEF g, i1
    <3> QED
      BY <2>1, <3>1, Divides
  <2> HIDE DEF g, e
  <2>3. k = <<>> /\ Len(i) <= W /\ ~((stalled \/ b) /\ ~u) /\ (u => stalled /\ ~b)
    BY <1>1, <1>6 DEF Good, Held
  <2>4. x \in Seq(Inst) /\ Len(x) \in Nat /\ Len(x) <= W
    <3>1. Len(x) = Len(k) + Len(i1) /\ x \in Seq(Inst)
      <4> HIDE DEF i1
      <4> QED
        BY <2>2
    <3>2. Len(k) = 0
      BY <1>e, <2>3
    <3> HIDE DEF x, i1
    <3> QED
      BY <2>2, <2>3, <3>1, <3>2, Widths
  <2>5. Joined(x, k, i1)
    BY DEF Joined
  <2> HIDE DEF x, i1
  <2>6. /\ i1 = <<>> => dispatchInsts(Stage(d, i, k, b, u, c), "insts", n)
                               = Stage(d, i1, k, b, u, e)
        /\ i1 # <<>> => dispatchInsts(Stage(d, i, k, b, u, c), "insts", n)
                               = Stage("Blocked", <<>>, x, b2, no, e)
    <3>1. IsFalse(no)
      BY <1>b
    <3>2. Rest(i1, i, n)
      BY <2>2
    <3>3. Stops(b2, b, d)
      BY DEF Stops
    <3> DEFINE r == dispatchInsts(Stage(d, i, k, b, u, c), "insts", n)
    <3>5. r = dispatchInsts(Stage(d, i, k, b, u, c), "insts", n)
      OBVIOUS
    <3> HIDE DEF no, b2, r
    <3>6. /\ i1 = <<>> => r = Stage(d, i1, k, b, u, e)
          /\ i1 # <<>> => r = Stage("Blocked", <<>>, x, b2, no, e)
      BY ONLY <2>5, <2>g, <3>1, <3>2, <3>3, <3>5, DispatchFields
    <3> QED
      BY <3>6 DEF r
  <2>7. CASE i1 = <<>>
    <3>1. iew' = Stage("Running", <<>>, k, b, u, e)
      BY <1>1, <1>6, <2>6, <2>7
    <3>2. Good("commit", stalled, wire', "Running", <<>>, k, b, u)
      BY <1>e, <2>3, Widths DEF Good, Held
    <3>3. Takes
      <4>1. Joined(i, k, i) /\ Joined(i1, k, <<>>) /\ Joined(i, g, i1)
        BY <2>2, <2>3, <2>7, <2>q DEF Joined
      <4> QED
        BY <1>6, <1>e, <1>t, <2>g, <2>q, <3>1, <4>1
    <3> QED
      BY <1>5, <1>e, <1>s, <3>1, <3>2, <3>3
  <2>8. CASE i1 # <<>>
    <3>1. iew' = Stage("Blocked", <<>>, x, b2, no, e)
      BY <1>1, <1>6, <2>6, <2>8
    <3>2. b2 \in BOOLEAN /\ b2
      BY <1>6 DEF Held
    <3>3. Room(wire', Len(x) + Len(<<>>))
      BY <1>3, <1>e, <2>4, RoomForOne
    <3> HIDE DEF b2, no
    <3>4. Good("commit", stalled, wire', "Blocked", <<>>, x, b2, no)
      BY <1>b, <1>e, <3>2, <3>3, Widths DEF Good, Held
    <3>5. Takes
      <4>1. Joined(i, k, i) /\ Joined(x, x, <<>>) /\ Joined(i, g, x)
        <5>1. x = i1
          BY <2>2, <2>3, <2>5 DEF Joined
        <5> QED
          BY <2>2, <2>3, <2>q, <5>1 DEF Joined
      <4> QED
        BY <1>6, <1>e, <1>t, <2>4, <2>g, <2>q, <3>1, <4>1
    <3> QED
      BY <1>5, <1>b, <1>e, <1>s, <2>4, <3>1, <3>2, <3>4, <3>5
  <2> QED
    BY <2>7, <2>8
<1>7. ASSUME d = "Unblocking", NEW n \in Possible(iew, "skidBuffer"),
             iew' = unblock(skidInsert(dispatchInsts(iew, "skidBuffer", n))),
             Entered(SubSeq(iew.skidBuffer, 1, n))
      PROVE  IInv' /\ Takes
  <2> DEFINE k1 == SubSeq(k, n + 1, Len(k))
             x == k1 \o i
             b2 == b \/ d \notin Held
  <2>1. n \in 0 .. Min({Len(k), dispatchWidth})
    BY <1>4, <1>7 DEF Possible
  <2>2. k1 \in Seq(Inst) /\ Len(k1) <= Len(k) /\ Rest(k1, k, n)
    <3>1. Rest(k1, k, n)
      BY DEF Rest
    <3> HIDE DEF k1
    <3> QED
      BY <2>1, <3>1, Remains
  <2> DEFINE g == SubSeq(k, 1, n)
             e == Plus(c, CountIn(g))
  <2>g. First(g, k, n) /\ Counted(e, c, g) /\ Entered(g)
    BY <1>4, <1>7 DEF First, Counted
  <2>q. g \in Seq(Inst) /\ Joined(k, g, k1)
    <3>1. First(g, k, n) /\ Rest(k1, k, n)
      BY <2>g, <2>2
    <3> HIDE DEF g, k1
    <3> QED
      BY <2>1, <3>1, Divides
  <2> HIDE DEF g, e
  <2>3. stalled /\ ~b /\ ~u /\ Room(wire', Len(k) + Len(i))
    BY <1>1, <1>2, <1>7 DEF Good, Held
  <2>4. /\ x \in Seq(Inst) /\ Len(x) \in Nat /\ Len(x) = Len(k1) + Len(i)
        /\ x \o <<>> = x
    <3> HIDE DEF k1
    <3> QED
      BY <2>2
  <2>5. Joined(x, k1, i) /\ Joined(x, x, <<>>)
    BY <2>4 DEF Joined
  <2> HIDE DEF x, k1
  <2>6. /\ k1 = <<>> => dispatchInsts(Stage(d, i, k, b, u, c), "skidBuffer", n)
                               = Stage(d, i, k1, b, u, e)
        /\ k1 # <<>> => dispatchInsts(Stage(d, i, k, b, u, c), "skidBuffer", n)
                               = Stage("Blocked", <<>>, x, b2, no, e)
    <3>1. IsFalse(no)
      BY <1>b
    <3>2. Rest(k1, k, n)
      BY <2>2
    <3>3. Joined(x, k1, i)
      BY <2>5
    <3>4. Stops(b2, b, d)
      BY DEF Stops
    <3> DEFINE r == dispatchInsts(Stage(d, i, k, b, u, c), "skidBuffer", n)
    <3>5. r = dispatchInsts(Stage(d, i, k, b, u, c), "skidBuffer", n)
      OBVIOUS
    <3> HIDE DEF no, b2, r
    <3>6. /\ k1 = <<>> => r = Stage(d, i, k1, b, u, e)
          /\ k1 # <<>> => r = Stage("Blocked", <<>>, x, b2, no, e)
      BY ONLY <2>g, <3>1, <3>2, <3>3, <3>4, <3>5, DispatchSkidFields
    <3> QED
      BY <3>6 DEF r
  <2>7. Room(wire', Len(x) + Len(<<>>))
    <3>1. Len(x) <= Len(k) + Len(i) /\ Len(k) + Len(i) \in Nat
      BY <2>2, <2>4
    <3> QED
      BY <1>e, <2>3, <2>4, <3>1, RoomForLess
  <2>p. Joined(k \o i, k, i) /\ Joined(k \o i, g, x)
    <3>1. k = g \o k1 /\ x = k1 \o i
      BY <2>5, <2>q DEF Joined
    <3>2. (g \o k1) \o i = g \o (k1 \o i)
      BY <2>2, <2>q, ConcatAssociative, SMTT(30)
    <3> QED
      BY <3>1, <3>2 DEF Joined
  <2> DEFINE p == k \o i
  <2> HIDE DEF p
  <2>t. ASSUME NEW d2, NEW b3, NEW u3, iew' = Stage(d2, <<>>, x, b3, u3, e)
        PROVE  Takes
    <3>1. Joined(p, k, i) /\ Joined(p, g, x)
      BY <2>p DEF p
    <3> QED
      BY <1>7, <1>e, <1>t, <2>4, <2>5, <2>g, <2>q, <2>t, <3>1
  <2>8. CASE k1 = <<>>
    <3>0. dispatchInsts(iew, "skidBuffer", n) = Stage("Unblocking", i, k1, b, u, e)
      BY <1>1, <1>7, <2>6, <2>8
    <3> DEFINE s1 == Stage("Unblocking", i, k1, b, u, e)
               s2 == Stage("Unblocking", <<>>, x, b, u, e)
    <3>1. skidInsert(s1) = s2
      BY <2>5, SkidInsertFields
    <3>2. /\ unblock(Stage("Unblocking", <<>>, <<>>, b, u, e))
               = Stage("Running", <<>>, <<>>, b, yes, e)
          /\ x # <<>> => unblock(s2) = s2
      <4>0. IsTrue(yes)
        BY <1>b
      <4> HIDE DEF yes
      <4>1. unblock(Stage("Unblocking", <<>>, <<>>, b, u, e))
              = Stage("Running", <<>>, <<>>, b, yes, e)
        <5> DEFINE none == <<>>
        <5>1. unblock(Stage("Unblocking", none, <<>>, b, u, e))
                = Stage("Running", none, <<>>, b, yes, e)
          <6> HIDE DEF none
          <6> QED
            BY ONLY <4>0, UnblockEmpty
        <5> QED
          BY <5>1
      <4>2. ASSUME x # <<>>
            PROVE  unblock(s2) = s2
        BY ONLY <4>2, UnblockOther
      <4> QED
        BY <4>1, <4>2
    <3> HIDE DEF s1, s2, yes
    <3>3. iew' = unblock(s2)
      BY <1>7, <3>0, <3>1 DEF s1
    <3>4. CASE x = <<>>
      <4>1. iew' = Stage("Running", <<>>, x, b, yes, e)
        BY <3>2, <3>3, <3>4 DEF s2
      <4>2. Good("commit", stalled, wire', "Running", <<>>, x, b, yes)
        BY <1>b, <1>e, <2>3, <3>4, Widths DEF Good, Held
      <4> QED
        BY <1>5, <1>b, <1>e, <1>s, <2>4, <2>t, <4>1, <4>2
    <3>5. CASE x # <<>>
      <4>1. iew' = Stage("Unblocking", <<>>, x, b, u, e)
        BY <3>2, <3>3, <3>5 DEF s2
      <4>2. Good("commit", stalled, wire', "Unblocking", <<>>, x, b, u)
        BY <1>e, <2>3, <2>7, <3>5, Widths DEF Good, Held
      <4> QED
        BY <1>5, <1>e, <1>s, <2>4, <2>t, <4>1, <4>2
    <3> QED
      BY <3>4, <3>5
  <2>9. CASE k1 # <<>>
    <3>0. dispatchInsts(iew, "skidBuffer", n) = Stage("Blocked", <<>>, x, b2, no, e)
      BY <1>1, <2>6, <2>9
    <3> DEFINE s1 == Stage("Blocked", <<>>, x, b2, no, e)
    <3>1. skidInsert(s1) = s1
      <4> HIDE DEF b2, no
      <4> QED
        BY <2>5, SkidInsertFields
    <3>2. x # <<>>
      <4>1. Len(k1) > 0
        BY <2>2, <2>9
      <4> QED
        BY <1>e, <2>4, <4>1
    <3>3. unblock(s1) = s1
      <4> HIDE DEF b2, no, yes
      <4> QED
        BY ONLY <3>2, UnblockOther
    <3>4. dispatchInsts(iew, "skidBuffer", n) = s1
      BY <3>0
    <3> HIDE DEF s1
    <3>5. iew' = s1
      BY <1>7, <3>1, <3>3, <3>4
    <3>6. b2 \in BOOLEAN
      OBVIOUS
    <3> HIDE DEF b2, no
    <3>7. Good("commit", stalled, wire', "Blocked", <<>>, x, b2, no)
      BY <1>b, <1>e, <2>3, <2>7, <3>6, Widths DEF Good, Held
    <3> QED
      BY <1>5, <1>b, <1>e, <1>s, <2>4, <2>t, <3>5, <3>6, <3>7 DEF s1
  <2> QED
    BY <2>8, <2>9
<1>8. ASSUME d \in {"Blocked", "Squashing"}, iew' = iew, lastDispatched' = lastDispatched
      PROVE  IInv' /\ Takes
  <2>1. Good("commit", stalled, wire', d, i, k, b, u)
    BY <1>1, <1>2, <1>8 DEF Good, Held
  <2>2. Takes
    BY <1>4, <1>8 DEF Takes
  <2> QED
    BY <1>1, <1>5, <1>8, <2>1, <2>2
<1>9. \/ /\ d = "Running"
         /\ \E n \in Possible(iew, "insts") :
              iew' = dispatchInsts(iew, "insts", n) /\ Entered(SubSeq(iew.insts, 1, n))
      \/ /\ d = "Unblocking"
         /\ \E n \in Possible(iew, "skidBuffer") :
              /\ iew' = unblock(skidInsert(dispatchInsts(iew, "skidBuffer", n)))
              /\ Entered(SubSeq(iew.skidBuffer, 1, n))
      \/ d \in {"Blocked", "Squashing"} /\ iew' = iew /\ lastDispatched' = lastDispatched
  BY <1>4 DEF dispatch
<1> QED
  BY <1>6, <1>7, <1>8, <1>9

-----------------------------------------------------------------------------

(* One step per phase. *)
LEMMA NextKeeps == IInv /\ [Next]_vars => IInv'
<1>1. ASSUME IInv, UNCHANGED vars
      PROVE  IInv'
  <2>1. /\ turn' = turn /\ iew' = iew /\ wire' = wire /\ stalled' = stalled /\ next' = next
    BY <1>1 DEF vars, renameVars
  <2> QED
    BY <1>1, <2>1 DEF IInv, WireOK
<1> QED
  BY <1>1, CommitKeeps, RenameKeeps, CheckKeeps, DispatchKeeps DEF Next

(* The invariant holds throughout. *)
LEMMA IInvHolds == Spec => []IInv
<1> QED
  BY InitIInv, NextKeeps, PTL DEF Spec

(* The skid buffer never overflows, whatever the delay and the widths: the *)
(* assertion of IEW::skidInsert.                                           *)
THEOREM SkidFitsCorrect == Spec => []SkidFits
<1>1. IInv => SkidFits
  <2> SUFFICES ASSUME IInv
               PROVE  SkidFits
    OBVIOUS
  <2>1. PICK d \in Statuses, i \in Seq(Inst), k \in Seq(Inst), b \in BOOLEAN, u \in BOOLEAN :
          \E e : iew = Stage(d, i, k, b, u, e) /\ Good(turn, stalled, wire, d, i, k, b, u)
    BY DEF IInv
  <2>2. PICK c : iew = Stage(d, i, k, b, u, c)
    BY <2>1
  <2>3. iew.skidBuffer = k
    BY <2>2, Fields
  <2>4. Len(k) <= (D + 1) * W
    <3>1. CASE d \in Held
      <4>1. PICK j \in 0 .. D + 1 : Len(k) + Len(i) <= j * W
        BY <2>1, <3>1 DEF Good, Room, Fits
      <4>2. j * W <= (D + 1) * W /\ j * W \in Nat /\ (D + 1) * W \in Nat
        BY AllGroups, OneMore, Widths
      <4> QED
        BY <4>1, <4>2
    <3>2. CASE d \notin Held
      <4>1. Len(k) = 0
        BY <2>1, <3>2 DEF Good
      <4> QED
        BY <4>1, OneMore, Widths
    <3> QED
      BY <3>1, <3>2
  <2> QED
    BY <2>3, <2>4 DEF SkidFits, skidBufferMax, D, W
<1> QED
  BY <1>1, IInvHolds, PTL

(* Rename is released only when it has been stopped and not stopped in the *)
(* same cycle, and a stage that unblocks has instructions to dispatch: the *)
(* assertions of rename and of IEW::dispatch.                              *)
THEOREM SignalsPairedCorrect == Spec => []SignalsPaired
<1>1. IInv => SignalsPaired
  <2> SUFFICES ASSUME IInv
               PROVE  SignalsPaired
    OBVIOUS
  <2>1. PICK d \in Statuses, i \in Seq(Inst), k \in Seq(Inst), b \in BOOLEAN, u \in BOOLEAN :
          \E e : iew = Stage(d, i, k, b, u, e) /\ Good(turn, stalled, wire, d, i, k, b, u)
    BY DEF IInv
  <2>2. PICK c : iew = Stage(d, i, k, b, u, c)
    BY <2>1
  <2>3. /\ iew.skidBuffer = k /\ iew.dispatchStatus = d
        /\ iew.toRename.iewBlock = b /\ iew.toRename.iewUnblock = u
    BY <2>2, Fields
  <2> QED
    BY <2>1, <2>3 DEF Good, SignalsPaired
<1> QED
  BY <1>1, IInvHolds, PTL

-----------------------------------------------------------------------------
(* Induction. *)

(* A nonempty set of naturals has a least element. *)
LEMMA LeastOfNaturals ==
  ASSUME NEW S \in SUBSET Nat, S # {}
  PROVE  \E x \in S : \A y \in S : x <= y
<1> DEFINE Less == {p \in Nat \X Nat : p[1] < p[2]}
<1>1. IsWellFoundedOn(Less, Nat)
  BY NatLessThanWellFounded DEF OpToRel
<1>2. \A y, z \in Nat : y < z => <<y, z>> \in Less
  OBVIOUS
<1> HIDE DEF Less
<1>3. PICK x \in S : \A y \in S : ~(<<y, x>> \in Less)
  BY <1>1, WFMin
<1>4. \A y \in S : y \in Nat /\ x \in Nat
  BY <1>3
<1>5. \A y \in S : ~(y < x)
  BY <1>2, <1>3, <1>4
<1> QED
  BY <1>4, <1>5

(* What holds of 0 and passes from each natural to the next holds of all. *)
LEMMA Induct ==
  ASSUME NEW T, 0 \in T, \A n \in Nat : n \in T => n + 1 \in T
  PROVE  Nat \subseteq T
<1> SUFFICES ASSUME Nat \ T # {}
             PROVE  FALSE
  OBVIOUS
<1>1. PICK m \in Nat \ T : \A n \in Nat \ T : m <= n
  BY LeastOfNaturals
<1>2. m # 0 /\ m - 1 \in Nat
  OBVIOUS
<1>3. m - 1 \in T
  BY <1>1, <1>2
<1>4. (m - 1) + 1 \in T
  BY <1>2, <1>3
<1> QED
  BY <1>4

-----------------------------------------------------------------------------
(* The wire as one sequence. *)

(* f[i] is the first i groups of w in a row. *)
Flat(f, w, n) ==
  f = [i \in 1 .. n |-> IF i = 1 THEN w[i] ELSE f[i - 1] \o w[i]]

(* There are such sequences, ... *)
LEMMA SomeFlat == \A w : \A n \in Nat : \E f : Flat(f, w, n)
<1> SUFFICES ASSUME NEW w
             PROVE  \A n \in Nat : \E f : Flat(f, w, n)
  OBVIOUS
<1> DEFINE T == {n \in Nat : \E f : Flat(f, w, n)}
<1>1. 0 \in T
  <2> DEFINE f == [i \in 1 .. 0 |-> w[i]]
  <2>1. f = [i \in 1 .. 0 |-> IF i = 1 THEN w[i] ELSE f[i - 1] \o w[i]]
    OBVIOUS
  <2> QED
    BY <2>1 DEF Flat
<1>2. ASSUME NEW n \in Nat, n \in T
      PROVE  n + 1 \in T
  <2>1. PICK f : Flat(f, w, n)
    BY <1>2
  <2> DEFINE g == [i \in 1 .. n + 1 |-> IF i = 1 THEN w[i] ELSE f[i - 1] \o w[i]]
  <2>2. ASSUME NEW i \in 1 .. n
        PROVE  g[i] = f[i]
    <3>1. i \in 1 .. n + 1
      OBVIOUS
    <3>2. g[i] = IF i = 1 THEN w[i] ELSE f[i - 1] \o w[i]
      BY <3>1
    <3>3. f[i] = IF i = 1 THEN w[i] ELSE f[i - 1] \o w[i]
      BY <2>1 DEF Flat
    <3> QED
      BY <3>2, <3>3
  <2>3. ASSUME NEW i \in 1 .. n + 1
        PROVE  g[i] = IF i = 1 THEN w[i] ELSE g[i - 1] \o w[i]
    <3>1. CASE i = 1
      BY <3>1
    <3>2. CASE i # 1
      <4>1. i - 1 \in 1 .. n
        BY <3>2
      <4> QED
        BY <2>2, <3>2, <4>1
    <3> QED
      BY <3>1, <3>2
  <2> DEFINE h == [i \in 1 .. n + 1 |-> IF i = 1 THEN w[i] ELSE g[i - 1] \o w[i]]
  <2>4. \A i \in 1 .. n + 1 : g[i] = h[i]
    BY <2>3
  <2>5. g = h
    BY <2>4
  <2>6. Flat(g, w, n + 1)
    BY <2>5 DEF Flat
  <2> HIDE DEF g
  <2> QED
    BY <2>6
<1> HIDE DEF T
<1>3. Nat \subseteq T
  BY <1>1, <1>2, Induct
<1> QED
  BY <1>3 DEF T

(* ... one step of which appends one group, ... *)
Appends(f, w, n) == /\ n > 0 => f[1] = w[1]
                    /\ \A i \in 1 .. n - 1 : f[i + 1] = f[i] \o w[i + 1]

LEMMA FlatStep ==
  ASSUME NEW f, NEW w, NEW n \in Nat, Flat(f, w, n)
  PROVE  Appends(f, w, n)
<1>1. \A i \in 1 .. n : f[i] = IF i = 1 THEN w[i] ELSE f[i - 1] \o w[i]
  BY DEF Flat
<1>2. ASSUME NEW i \in 1 .. n - 1
      PROVE  f[i + 1] = f[i] \o w[i + 1]
  <2>1. i + 1 \in 1 .. n /\ i + 1 # 1 /\ (i + 1) - 1 = i
    OBVIOUS
  <2> QED
    BY <1>1, <2>1
<1>3. n > 0 => 1 \in 1 .. n
  OBVIOUS
<1> QED
  BY <1>1, <1>2, <1>3 DEF Appends

(* ... and FlattenSeq is the last. *)
LEMMA FlattenIs ==
  ASSUME NEW S, NEW w \in Seq(Seq(S)), w # <<>>
  PROVE  \E f : Flat(f, w, Len(w)) /\ FlattenSeq(w) = f[Len(w)]
<1>1. Len(w) \in Nat /\ Len(w) # 0
  OBVIOUS
<1> DEFINE f == CHOOSE g : Flat(g, w, Len(w))
<1>2. Flat(f, w, Len(w))
  BY <1>1, SomeFlat
<1>3. f = CHOOSE g : g = [i \in 1 .. Len(w) |-> IF i = 1 THEN w[i] ELSE g[i - 1] \o w[i]]
  BY DEF Flat
<1>4. FlattenSeq(w) = f[Len(w)]
  BY <1>1, <1>3 DEF FlattenSeq
<1> QED
  BY <1>2, <1>4

(* Its values are sequences. *)
LEMMA FlatType ==
  ASSUME NEW S, NEW w \in Seq(Seq(S)), NEW f, Flat(f, w, Len(w))
  PROVE  \A i \in 1 .. Len(w) : f[i] \in Seq(S)
<1> DEFINE T == {i \in Nat : i < Len(w) => f[i + 1] \in Seq(S)}
<1>0. /\ \A i \in 1 .. Len(w) : w[i] \in Seq(S)
      /\ Len(w) \in Nat
  OBVIOUS
<1>s. /\ Len(w) > 0 => f[1] = w[1]
      /\ \A i \in 1 .. Len(w) - 1 : f[i + 1] = f[i] \o w[i + 1]
  <2>1. Appends(f, w, Len(w))
    BY <1>0, FlatStep
  <2> QED
    BY <2>1 DEF Appends
<1>1. 0 \in T
  BY <1>0, <1>s
<1>2. ASSUME NEW i \in Nat, i \in T
      PROVE  i + 1 \in T
  <2> SUFFICES ASSUME i + 1 < Len(w)
               PROVE  f[i + 2] \in Seq(S)
    OBVIOUS
  <2>1. f[i + 1] \in Seq(S)
    BY <1>0, <1>2
  <2>2. i + 1 \in 1 .. Len(w) - 1 /\ (i + 1) + 1 = i + 2 /\ i + 2 \in 1 .. Len(w)
    BY <1>0
  <2>3. f[i + 2] = f[i + 1] \o w[i + 2]
    BY <1>s, <2>2
  <2> QED
    BY <1>0, <2>1, <2>2, <2>3
<1> HIDE DEF T
<1>3. Nat \subseteq T
  BY <1>1, <1>2, Induct
<1> QED
  <2> SUFFICES ASSUME NEW i \in 1 .. Len(w)
               PROVE  f[i] \in Seq(S)
    OBVIOUS
  <2>1. i - 1 \in Nat /\ (i - 1) + 1 = i /\ i - 1 < Len(w)
    BY <1>0
  <2>2. i - 1 \in T
    BY <1>3, <2>1
  <2> QED
    BY <2>1, <2>2 DEF T

(* Two of them agree as far as their wires do. *)
LEMMA SameFlat ==
  ASSUME NEW w, NEW v, NEW n \in Nat, NEW m \in Nat, n <= m,
         NEW f, NEW g, Flat(f, w, n), Flat(g, v, m), \A i \in 1 .. n : w[i] = v[i]
  PROVE  \A i \in 1 .. n : f[i] = g[i]
<1> DEFINE T == {i \in Nat : i < n => f[i + 1] = g[i + 1]}
<1>f. /\ n > 0 => f[1] = w[1]
      /\ \A i \in 1 .. n - 1 : f[i + 1] = f[i] \o w[i + 1]
  <2>1. Appends(f, w, n)
    BY FlatStep
  <2> QED
    BY <2>1 DEF Appends
<1>g. /\ m > 0 => g[1] = v[1]
      /\ \A i \in 1 .. m - 1 : g[i + 1] = g[i] \o v[i + 1]
  <2>1. Appends(g, v, m)
    BY FlatStep
  <2> QED
    BY <2>1 DEF Appends
<1>1. 0 \in T
  BY <1>f, <1>g
<1>2. ASSUME NEW i \in Nat, i \in T
      PROVE  i + 1 \in T
  <2> SUFFICES ASSUME i + 1 < n
               PROVE  f[i + 2] = g[i + 2]
    OBVIOUS
  <2>1. f[i + 1] = g[i + 1]
    BY <1>2
  <2>2. i + 1 \in 1 .. n - 1 /\ i + 1 \in 1 .. m - 1 /\ (i + 1) + 1 = i + 2 /\ i + 2 \in 1 .. n
    OBVIOUS
  <2>3. f[i + 2] = f[i + 1] \o w[i + 2] /\ g[i + 2] = g[i + 1] \o v[i + 2]
    BY <1>f, <1>g, <2>2
  <2> QED
    BY <2>1, <2>2, <2>3
<1> HIDE DEF T
<1>3. Nat \subseteq T
  BY <1>1, <1>2, Induct
<1> QED
  <2> SUFFICES ASSUME NEW i \in 1 .. n
               PROVE  f[i] = g[i]
    OBVIOUS
  <2>1. i - 1 \in Nat /\ (i - 1) + 1 = i /\ i - 1 < n
    OBVIOUS
  <2>2. i - 1 \in T
    BY <1>3, <2>1
  <2> QED
    BY <2>1, <2>2 DEF T

(* All the groups in a row are instructions, ... *)
LEMMA FlattenType ==
  ASSUME NEW S, NEW w \in Seq(Seq(S)), w # <<>>
  PROVE  FlattenSeq(w) \in Seq(S)
<1>1. PICK f : Flat(f, w, Len(w)) /\ FlattenSeq(w) = f[Len(w)]
  BY FlattenIs
<1>2. Len(w) \in 1 .. Len(w)
  OBVIOUS
<1> QED
  BY <1>1, <1>2, FlatType

(* ... one group more goes to the end, ... *)
LEMMA FlattenAppend ==
  ASSUME NEW S, NEW w \in Seq(Seq(S)), w # <<>>, NEW s \in Seq(S)
  PROVE  FlattenSeq(Append(w, s)) = FlattenSeq(w) \o s
<1> DEFINE v == Append(w, s)
<1>1. /\ v \in Seq(Seq(S)) /\ v # <<>> /\ Len(v) = Len(w) + 1 /\ Len(w) \in Nat
      /\ v[Len(w) + 1] = s /\ Len(w) > 0
      /\ \A i \in 1 .. Len(w) : w[i] = v[i]
  OBVIOUS
<1> HIDE DEF v
<1>2. PICK f : Flat(f, w, Len(w)) /\ FlattenSeq(w) = f[Len(w)]
  BY FlattenIs
<1>3. PICK g : Flat(g, v, Len(v)) /\ FlattenSeq(v) = g[Len(v)]
  BY <1>1, FlattenIs
<1>4. f[Len(w)] = g[Len(w)]
  <2> DEFINE n == Len(w)
             m == Len(v)
  <2>1. /\ n \in Nat /\ m \in Nat /\ n <= m /\ \A i \in 1 .. n : w[i] = v[i]
        /\ n \in 1 .. n /\ Flat(f, w, n) /\ Flat(g, v, m)
    BY <1>1, <1>2, <1>3
  <2> HIDE DEF n, m
  <2>2. \A i \in 1 .. n : f[i] = g[i]
    BY ONLY <2>1, SameFlat, SMTT(30)
  <2> QED
    BY <2>1, <2>2 DEF n
<1>5. g[Len(w) + 1] = g[Len(w)] \o v[Len(w) + 1]
  <2>0. Len(v) \in Nat
    BY <1>1
  <2>1. \A i \in 1 .. Len(v) - 1 : g[i + 1] = g[i] \o v[i + 1]
    <3>1. Appends(g, v, Len(v))
      BY <1>3, <2>0, FlatStep
    <3> QED
      BY <3>1 DEF Appends
  <2>2. Len(w) \in 1 .. Len(v) - 1
    BY <1>1
  <2> QED
    BY <2>1, <2>2
<1> QED
  BY <1>1, <1>2, <1>3, <1>4, <1>5 DEF v

(* ... and the first one is what arrives. *)
LEMMA FlattenTail ==
  ASSUME NEW S, NEW w \in Seq(Seq(S)), Len(w) > 1
  PROVE  FlattenSeq(w) = Head(w) \o FlattenSeq(Tail(w))
<1> DEFINE v == Tail(w)
           L == Len(w)
           a == w[1]
<1>0. v \in Seq(Seq(S)) /\ v # <<>> /\ Len(v) = L - 1 /\ w # <<>> /\ Head(w) = a
  <2>1. w # <<>> /\ Head(w) = a
    OBVIOUS
  <2>2. v \in Seq(Seq(S)) /\ Len(v) = L - 1
    BY <2>1, HeadTailProperties
  <2>3. Len(v) > 0 /\ Len(<<>>) = 0
    BY <2>2
  <2> HIDE DEF v
  <2> QED
    BY <2>1, <2>2, <2>3
<1>1. /\ L \in Nat /\ L > 1
      /\ \A i \in 1 .. L - 1 : v[i] = w[i + 1]
      /\ \A i \in 1 .. L : w[i] \in Seq(S)
  <2>1. L \in Nat /\ L > 1
    OBVIOUS
  <2>2. \A i \in 1 .. L - 1 : v[i] = w[i + 1]
    OBVIOUS
  <2>3. \A i \in 1 .. L : w[i] \in Seq(S)
    OBVIOUS
  <2> QED
    BY <2>1, <2>2, <2>3
<1> HIDE DEF v
<1>2. PICK f : Flat(f, w, L) /\ FlattenSeq(w) = f[L]
  BY <1>0, FlattenIs
<1>3. PICK g : Flat(g, v, L - 1) /\ FlattenSeq(v) = g[L - 1]
  BY <1>0, FlattenIs
<1>4. \A i \in 1 .. L - 1 : g[i] \in Seq(S)
  BY <1>0, <1>3, FlatType
<1> HIDE DEF L
<1>s. /\ f[1] = a
      /\ \A i \in 1 .. L - 1 : f[i + 1] = f[i] \o w[i + 1]
      /\ g[1] = v[1]
      /\ \A i \in 1 .. L - 2 : g[i + 1] = g[i] \o v[i + 1]
  <2>1. L > 0 /\ L - 1 > 0 /\ (L - 1) - 1 = L - 2 /\ L - 1 \in Nat
    BY <1>1
  <2>2. /\ L > 0 => f[1] = w[1]
        /\ \A i \in 1 .. L - 1 : f[i + 1] = f[i] \o w[i + 1]
    <3>1. Appends(f, w, L)
      BY <1>1, <1>2, FlatStep
    <3> QED
      BY <3>1 DEF Appends
  <2>3. /\ L - 1 > 0 => g[1] = v[1]
        /\ \A i \in 1 .. (L - 1) - 1 : g[i + 1] = g[i] \o v[i + 1]
    <3>1. Appends(g, v, L - 1)
      BY <1>3, <2>1, FlatStep
    <3> QED
      BY <3>1 DEF Appends
  <2> QED
    BY <2>1, <2>2, <2>3
<1>a. a \in Seq(S)
  BY <1>1
<1> HIDE DEF a
<1> DEFINE T == {i \in Nat : i < L - 1 => f[i + 2] = a \o g[i + 1]}
<1>5. 0 \in T
  <2>1. 1 \in 1 .. L - 1 /\ 1 + 1 = 2 /\ 0 + 1 = 1 /\ 0 + 2 = 2
    BY <1>1
  <2>2. f[2] = f[1] \o w[2]
    BY <1>s, <2>1
  <2>3. g[1] = w[2]
    BY <1>1, <1>s, <2>1
  <2>4. f[0 + 2] = a \o g[0 + 1]
    BY <1>s, <2>1, <2>2, <2>3
  <2> QED
    BY <2>4
<1>6. ASSUME NEW i \in Nat, i \in T
      PROVE  i + 1 \in T
  <2>0. CASE ~(i + 1 < L - 1)
    BY <2>0
  <2>00. CASE i + 1 < L - 1
    <3>1. f[i + 2] = a \o g[i + 1]
      <4>1. i < L - 1
        BY <1>1, <2>00
      <4> QED
        BY <1>6, <4>1
    <3>2. /\ i + 2 \in 1 .. L - 1 /\ (i + 2) + 1 = i + 3 /\ i + 1 \in 1 .. L - 2
          /\ (i + 1) + 1 = i + 2 /\ i + 1 \in 1 .. L - 1 /\ i + 3 \in 1 .. L
          /\ (i + 1) + 2 = i + 3
      BY <1>1, <2>00
    <3>3. f[i + 3] = f[i + 2] \o w[i + 3] /\ g[i + 2] = g[i + 1] \o w[i + 3]
      <4>1. f[(i + 2) + 1] = f[i + 2] \o w[(i + 2) + 1]
        BY <1>s, <3>2
      <4>2. g[(i + 1) + 1] = g[i + 1] \o v[(i + 1) + 1]
        BY <1>s, <3>2
      <4>3. v[i + 2] = w[(i + 2) + 1]
        BY <1>1, <3>2
      <4> QED
        BY <3>2, <4>1, <4>2, <4>3
    <3>4. g[i + 1] \in Seq(S) /\ w[i + 3] \in Seq(S)
      BY <1>1, <1>4, <3>2
    <3> DEFINE b == g[i + 1]
               e == w[i + 3]
    <3>5. b \in Seq(S) /\ e \in Seq(S)
      BY <3>4
    <3> HIDE DEF b, e
    <3>6. (a \o b) \o e = a \o (b \o e)
      BY ONLY <1>a, <3>5, ConcatAssociative, SMTT(30)
    <3>7. f[(i + 1) + 2] = a \o g[(i + 1) + 1]
      BY <3>1, <3>2, <3>3, <3>6 DEF b, e
    <3> QED
      BY <3>7
  <2> QED
    BY <2>0, <2>00
<1> HIDE DEF T
<1>7. Nat \subseteq T
  BY <1>5, <1>6, Induct
<1>8. f[L] = a \o g[L - 1]
  <2>1. L - 2 \in Nat /\ L - 2 < L - 1 /\ (L - 2) + 2 = L /\ (L - 2) + 1 = L - 1
    BY <1>1
  <2>2. L - 2 \in T
    BY <1>7, <2>1
  <2>3. f[(L - 2) + 2] = a \o g[(L - 2) + 1]
    BY <2>1, <2>2 DEF T
  <2> QED
    BY <2>1, <2>3
<1> QED
  BY <1>0, <1>2, <1>3, <1>8 DEF v

(* An empty wire is empty. *)
LEMMA FlattenEmpty ==
  ASSUME NEW S, NEW w \in Seq(Seq(S)), w # <<>>, \A i \in DOMAIN w : w[i] = <<>>
  PROVE  FlattenSeq(w) = <<>>
<1>1. Len(w) \in Nat /\ Len(w) > 0 /\ \A i \in 1 .. Len(w) : w[i] = <<>>
  OBVIOUS
<1>2. PICK f : Flat(f, w, Len(w)) /\ FlattenSeq(w) = f[Len(w)]
  BY FlattenIs
<1>s. /\ f[1] = w[1]
      /\ \A i \in 1 .. Len(w) - 1 : f[i + 1] = f[i] \o w[i + 1]
  <2>1. Appends(f, w, Len(w))
    BY <1>1, <1>2, FlatStep
  <2> QED
    BY <1>1, <2>1 DEF Appends
<1> DEFINE T == {i \in Nat : i < Len(w) => f[i + 1] = <<>>}
<1>3. 0 \in T
  BY <1>1, <1>s
<1>4. ASSUME NEW i \in Nat, i \in T
      PROVE  i + 1 \in T
  <2> SUFFICES ASSUME i + 1 < Len(w)
               PROVE  f[i + 2] = <<>>
    OBVIOUS
  <2>1. f[i + 1] = <<>>
    BY <1>1, <1>4
  <2>2. i + 1 \in 1 .. Len(w) - 1 /\ (i + 1) + 1 = i + 2 /\ i + 2 \in 1 .. Len(w)
    BY <1>1
  <2>3. f[i + 2] = f[i + 1] \o w[i + 2]
    BY <1>s, <2>2
  <2>4. w[i + 2] = <<>>
    BY <1>1, <2>2
  <2>5. <<>> \o <<>> = <<>>
    OBVIOUS
  <2> QED
    BY <2>1, <2>3, <2>4, <2>5
<1> HIDE DEF T
<1>5. Nat \subseteq T
  BY <1>3, <1>4, Induct
<1>6. Len(w) - 1 \in T /\ (Len(w) - 1) + 1 = Len(w) /\ Len(w) - 1 \in Nat /\ Len(w) - 1 < Len(w)
  BY <1>1, <1>5
<1> QED
  BY <1>2, <1>6 DEF T

-----------------------------------------------------------------------------
(* Counting the instructions of a sequence. *)

Counts == [Credits -> Int]

OfKind(s, c) == Cardinality({k \in DOMAIN s : s[k].kind = c})

(* A count by its kinds. *)
LEMMA CountAt ==
  ASSUME NEW s
  PROVE  /\ CountIn(s)["all"] = Len(s)
         /\ CountIn(s)["load"] = OfKind(s, "load")
         /\ CountIn(s)["store"] = OfKind(s, "store")
         /\ CountIn(s) = [c \in Credits |-> CountIn(s)[c]]
BY DEF CountIn, Credits, OfKind

(* Those of one kind in two sequences in a row. *)
LEMMA KindsOfBoth ==
  ASSUME NEW S, NEW s \in Seq(S), NEW t \in Seq(S), NEW c
  PROVE  /\ OfKind(s, c) \in Nat /\ OfKind(t, c) \in Nat
         /\ OfKind(s \o t, c) = OfKind(s, c) + OfKind(t, c)
<1> DEFINE n == Len(s)
           m == Len(t)
           At(x) == {k \in DOMAIN x : x[k].kind = c}
           Moved == {k \in n + 1 .. n + m : t[k - n].kind = c}
           f == [k \in At(t) |-> k + n]
<1>0. n \in Nat /\ m \in Nat /\ DOMAIN s = 1 .. n /\ DOMAIN t = 1 .. m
  OBVIOUS
<1>1. /\ DOMAIN (s \o t) = 1 .. n + m
      /\ \A k \in 1 .. n : (s \o t)[k] = s[k]
      /\ \A k \in n + 1 .. n + m : (s \o t)[k] = t[k - n]
  BY ConcatProperties
<1>2. IsFiniteSet(At(s)) /\ IsFiniteSet(At(t)) /\ IsFiniteSet(Moved)
  <2>1. IsFiniteSet(1 .. n) /\ IsFiniteSet(1 .. m) /\ IsFiniteSet(n + 1 .. n + m)
    BY <1>0, FS_Interval
  <2>2. At(s) \subseteq 1 .. n /\ At(t) \subseteq 1 .. m /\ Moved \subseteq n + 1 .. n + m
    BY <1>0
  <2> HIDE DEF At, Moved, n, m
  <2> QED
    BY <2>1, <2>2, FS_Subset
<1>3. At(s \o t) = At(s) \cup Moved /\ At(s) \cap Moved = {}
  <2>1. ASSUME NEW k \in At(s \o t)
        PROVE  k \in At(s) \cup Moved
    <3>1. k \in 1 .. n + m /\ (s \o t)[k].kind = c
      BY <1>1
    <3>2. CASE k \in 1 .. n
      BY <1>0, <1>1, <3>1, <3>2
    <3>3. CASE k \in n + 1 .. n + m
      BY <1>0, <1>1, <3>1, <3>3
    <3> QED
      BY <1>0, <3>1, <3>2, <3>3
  <2>2. ASSUME NEW k \in At(s)
        PROVE  k \in At(s \o t)
    BY <1>0, <1>1
  <2>3. ASSUME NEW k \in Moved
        PROVE  k \in At(s \o t)
    BY <1>0, <1>1
  <2>4. ASSUME NEW k \in At(s) \cap Moved
        PROVE  FALSE
    BY <1>0
  <2> HIDE DEF At, Moved
  <2> QED
    BY <2>1, <2>2, <2>3, <2>4
<1>4. Cardinality(Moved) = Cardinality(At(t))
  <2>1. f \in Bijection(At(t), Moved)
    <3>1. \A k \in At(t) : f[k] \in Moved
      BY <1>0
    <3>2. \A j, k \in At(t) : f[j] = f[k] => j = k
      BY <1>0
    <3>3. ASSUME NEW k \in Moved
          PROVE  \E j \in At(t) : f[j] = k
      <4>1. k - n \in At(t) /\ (k - n) + n = k
        BY <1>0
      <4> QED
        BY <4>1
    <3>4. DOMAIN f = At(t) /\ f = [k \in At(t) |-> f[k]]
      OBVIOUS
    <3> HIDE DEF At, Moved, f
    <3>5. f \in [At(t) -> Moved]
      BY <3>1, <3>4
    <3> QED
      BY <3>2, <3>3, <3>5 DEF Bijection, Injection, Surjection, IsInjective
  <2> HIDE DEF At, Moved, f
  <2> QED
    BY <1>2, <2>1, FS_Bijection DEF ExistsBijection
<1>5. Cardinality(At(s) \cup Moved) = Cardinality(At(s)) + Cardinality(At(t))
  <2> HIDE DEF At, Moved
  <2>1. Cardinality({}) = 0
    BY FS_EmptySet
  <2>2. Cardinality(At(s) \cup Moved)
          = Cardinality(At(s)) + Cardinality(Moved) - Cardinality(At(s) \cap Moved)
    BY <1>2, FS_Union
  <2>3. Cardinality(At(s)) \in Nat /\ Cardinality(Moved) \in Nat
    BY <1>2, FS_CardinalityType
  <2>4. Cardinality(At(s) \cap Moved) = 0
    BY <1>3, <2>1
  <2> QED
    BY <1>4, <2>2, <2>3, <2>4
<1>6. Cardinality(At(s)) \in Nat /\ Cardinality(At(t)) \in Nat
  <2> HIDE DEF At
  <2> QED
    BY <1>2, FS_CardinalityType
<1>7. Cardinality(At(s \o t)) = Cardinality(At(s)) + Cardinality(At(t))
  <2> HIDE DEF At, Moved
  <2> QED
    BY <1>3, <1>5
<1>8. OfKind(s, c) = Cardinality(At(s)) /\ OfKind(t, c) = Cardinality(At(t))
      /\ OfKind(s \o t, c) = Cardinality(At(s \o t))
  BY DEF OfKind
<1> QED
  BY <1>6, <1>7, <1>8

(* Counts are counts ... *)
LEMMA CountType ==
  ASSUME NEW S, NEW s \in Seq(S)
  PROVE  CountIn(s) \in Counts
<1>1. OfKind(s, "load") \in Nat /\ OfKind(s, "store") \in Nat
  BY KindsOfBoth
<1>2. Len(s) \in Nat
  OBVIOUS
<1>3. \A c \in Credits : CountIn(s)[c] \in Int
  BY <1>1, <1>2, CountAt DEF Credits
<1> QED
  BY <1>3, CountAt DEF Counts

(* ... and those of two sequences in a row add up. *)
LEMMA CountBoth ==
  ASSUME NEW S, NEW s \in Seq(S), NEW t \in Seq(S)
  PROVE  CountIn(s \o t) = Plus(CountIn(s), CountIn(t))
<1> DEFINE b == s \o t
<1>1. /\ OfKind(b, "load") = OfKind(s, "load") + OfKind(t, "load")
      /\ OfKind(b, "store") = OfKind(s, "store") + OfKind(t, "store")
  BY KindsOfBoth
<1>2. Len(b) = Len(s) + Len(t)
  BY ConcatProperties
<1> HIDE DEF b
<1>3. \A c \in Credits : CountIn(b)[c] = CountIn(s)[c] + CountIn(t)[c]
  BY <1>1, <1>2, CountAt DEF Credits
<1>4. CountIn(b) = [c \in Credits |-> CountIn(b)[c]]
  BY CountAt
<1>5. CountIn(b) = Plus(CountIn(s), CountIn(t))
  BY <1>3, <1>4 DEF Plus
<1> QED
  BY <1>5 DEF b

(* Nothing counts for nothing. *)
LEMMA CountNone == CountIn(<<>>) = None
<1>1. Len(<<>>) = 0 /\ DOMAIN <<>> = {}
  OBVIOUS
<1>2. \A c : {k \in DOMAIN <<>> : <<>>[k].kind = c} = {}
  BY <1>1
<1>3. Cardinality({}) = 0
  BY FS_EmptySet
<1> QED
  BY <1>1, <1>2, <1>3 DEF CountIn, None

(* Adding up. *)
LEMMA PlusIs ==
  ASSUME NEW a \in Counts, NEW b \in Counts
  PROVE  /\ Plus(a, b) \in Counts /\ Minus(a, b) \in Counts
         /\ \A c \in Credits : Plus(a, b)[c] = a[c] + b[c] /\ Minus(a, b)[c] = a[c] - b[c]
BY DEF Counts, Plus, Minus

LEMMA SameCounts ==
  ASSUME NEW a \in Counts, NEW b \in Counts, \A c \in Credits : a[c] = b[c]
  PROVE  a = b
BY DEF Counts

LEMMA NoneIs == None \in Counts /\ \A c \in Credits : None[c] = 0
BY DEF None, Counts

(* One total after another. *)
LEMMA PlusTwice ==
  ASSUME NEW t \in Counts, NEW a \in Counts, NEW b \in Counts
  PROVE  Plus(Plus(t, a), b) = Plus(t, Plus(a, b))
<1> DEFINE u == Plus(t, a)
           v == Plus(a, b)
           x == Plus(u, b)
           y == Plus(t, v)
<1>1. u \in Counts /\ v \in Counts
  BY PlusIs
<1>2. x \in Counts /\ y \in Counts
  <2> HIDE DEF u, v
  <2> QED
    BY <1>1, PlusIs
<1>3. ASSUME NEW k \in Credits
      PROVE  x[k] = y[k]
  <2>1. u[k] = t[k] + a[k] /\ v[k] = a[k] + b[k]
    BY PlusIs
  <2>2. x[k] = u[k] + b[k] /\ y[k] = t[k] + v[k]
    <3> HIDE DEF u, v
    <3> QED
      BY <1>1, PlusIs
  <2>3. t[k] \in Int /\ a[k] \in Int /\ b[k] \in Int
    BY DEF Counts
  <2> HIDE DEF u, v, x, y
  <2> QED
    BY <2>1, <2>2, <2>3
<1>4. x = y
  <2> HIDE DEF x, y
  <2> QED
    BY <1>2, <1>3, SameCounts
<1> QED
  BY <1>4

-----------------------------------------------------------------------------
(* The order and the counts of what is on its way.                         *)

Ordered(q)   == \A j, k \in DOMAIN q : j < k => q[j].seq < q[k].seq
Below(q, n)  == \A k \in DOMAIN q : q[k].seq < n
Late(q)      == \A k \in DOMAIN q : q[k].seq > lastDispatched \/ q[k].seq <= lastSquashed
Cut(q, r, x, g, y) == q = x \o (g \o y) /\ r = x \o y
From(s, n)   == \A k \in DOMAIN s : s[k].seq = n + k - 1

(* While the ROB squashes, rename has sent nothing of the new path.        *)
Squashing ==
  /\ fromCommit.squash \in BOOLEAN /\ fromCommit.robSquashing \in BOOLEAN
  /\ fromCommit.squash => fromCommit.robSquashing
  /\ fromCommit.robSquashing =>
       /\ next = lastSquashed + 1
       /\ turn = "dispatch" => iew.dispatchStatus \in {"Blocked", "Squashing"}
       /\ turn \in {"dispatch", "commit"} => iew.dispatchStatus \in Held \/ refill > 0
       /\ turn = "rename" => fromCommit.squash \/ iew.dispatchStatus \in Held \/ refill > 0
       /\ turn = "check" => (fromCommit.squash => refill > 0)

LCore ==
  /\ lastSquashed \in Nat /\ lastDispatched \in Nat
  /\ lastSquashed < next /\ lastDispatched < next
  /\ inProgress \in Counts /\ Told \in Counts /\ CreditsExact
  /\ Ordered(Queued) /\ Below(Queued, next) /\ Late(Queued)

LInv == LCore /\ refill \in Nat /\ Squashing

(* What a step owes to each instruction (NoneLost). *)
Kept == \A q \in Waiting : q \in Waiting' \/ q <= lastDispatched' \/ q <= lastSquashed'

(* An instruction has a number. *)
LEMMA Numbered == \A q \in Seq(Inst) : \A k \in DOMAIN q : q[k] \in Inst /\ q[k].seq \in Nat
<1>1. \A e \in Inst : e.seq \in Nat
  BY DEF Inst
<1> QED
  BY <1>1

(* Where the instructions are when some of them are taken out. *)
LEMMA Places ==
  ASSUME NEW x \in Seq(Inst), NEW g \in Seq(Inst), NEW y \in Seq(Inst),
         NEW q, NEW r, Cut(q, r, x, g, y)
  PROVE  /\ q \in Seq(Inst) /\ r \in Seq(Inst)
         /\ DOMAIN q = 1 .. Len(x) + Len(g) + Len(y) /\ DOMAIN r = 1 .. Len(x) + Len(y)
         /\ \A k \in 1 .. Len(x) : q[k] = x[k] /\ r[k] = x[k]
         /\ \A k \in 1 .. Len(g) : q[k + Len(x)] = g[k]
         /\ \A k \in 1 .. Len(y) : /\ q[k + Len(x) + Len(g)] = y[k]
                                   /\ r[k + Len(x)] = y[k]
<1> DEFINE z == g \o y
           X == Len(x)
           G == Len(g)
           Y == Len(y)
<1>0. X \in Nat /\ G \in Nat /\ Y \in Nat
  OBVIOUS
<1>1. /\ z \in Seq(Inst) /\ Len(z) = G + Y
      /\ \A k \in 1 .. G + Y : z[k] = IF k <= G THEN g[k] ELSE y[k - G]
  BY ConcatProperties
<1>2. /\ r \in Seq(Inst) /\ Len(r) = X + Y
      /\ \A k \in 1 .. X + Y : r[k] = IF k <= X THEN x[k] ELSE y[k - X]
  BY ConcatProperties DEF Cut
<1>q. q = x \o z
  BY DEF Cut
<1> HIDE DEF z
<1>3. /\ q \in Seq(Inst) /\ Len(q) = X + Len(z)
      /\ \A k \in 1 .. X + Len(z) : q[k] = IF k <= X THEN x[k] ELSE z[k - X]
  <2>1. z \in Seq(Inst)
    BY <1>1
  <2> QED
    BY ONLY <2>1, <1>q, ConcatProperties
<1>4. DOMAIN q = 1 .. X + G + Y /\ DOMAIN r = 1 .. X + Y
  <2>1. Len(q) = X + G + Y
    BY <1>0, <1>1, <1>3
  <2>2. DOMAIN q = 1 .. Len(q) /\ DOMAIN r = 1 .. Len(r)
    BY <1>2, <1>3
  <2> QED
    BY <1>2, <2>1, <2>2
<1> HIDE DEF X, G, Y
<1>5. ASSUME NEW k \in 1 .. X
      PROVE  q[k] = x[k] /\ r[k] = x[k]
  BY <1>0, <1>1, <1>2, <1>3
<1>6. ASSUME NEW k \in 1 .. G
      PROVE  q[k + X] = g[k]
  <2>1. k + X \in 1 .. X + Len(z) /\ ~(k + X <= X) /\ (k + X) - X = k /\ k \in 1 .. G + Y
    BY <1>0, <1>1
  <2> QED
    BY <1>0, <1>1, <1>3, <2>1
<1>7. ASSUME NEW k \in 1 .. Y
      PROVE  q[k + X + G] = y[k] /\ r[k + X] = y[k]
  <2>1. /\ k + X + G \in 1 .. X + Len(z) /\ ~(k + X + G <= X) /\ (k + X + G) - X = k + G
        /\ k + G \in 1 .. G + Y /\ ~(k + G <= G) /\ (k + G) - G = k
    BY <1>0, <1>1
  <2>2. q[k + X + G] = y[k]
    BY <1>1, <1>3, <2>1
  <2>3. k + X \in 1 .. X + Y /\ ~(k + X <= X) /\ (k + X) - X = k
    BY <1>0
  <2>4. r[k + X] = y[k]
    BY <1>2, <2>3
  <2> QED
    BY <2>2, <2>4
<1> QED
  BY <1>2, <1>3, <1>4, <1>5, <1>6, <1>7 DEF X, G, Y

(* What is left was there before, in the same order; what was there is     *)
(* left or taken out.                                                      *)
LEMMA CutKeeps ==
  ASSUME NEW x \in Seq(Inst), NEW g \in Seq(Inst), NEW y \in Seq(Inst),
         NEW q, NEW r, Cut(q, r, x, g, y), Ordered(q)
  PROVE  /\ q \in Seq(Inst) /\ r \in Seq(Inst) /\ Ordered(r)
         /\ \A k \in DOMAIN r : \E j \in DOMAIN q : r[k] = q[j]
         /\ \A j \in DOMAIN q : \/ \E k \in DOMAIN r : q[j] = r[k]
                                \/ \E k \in DOMAIN g : q[j] = g[k]
         /\ \A k \in DOMAIN g : \E j \in DOMAIN q : g[k] = q[j]
         /\ x = <<>> => \A j \in DOMAIN g, k \in DOMAIN r : g[j].seq < r[k].seq
<1> DEFINE X == Len(x)
           G == Len(g)
           Y == Len(y)
           Up(k) == IF k <= X THEN k ELSE k + G
<1>0. /\ X \in Nat /\ G \in Nat /\ Y \in Nat /\ DOMAIN g = 1 .. G
      /\ x = <<>> => X = 0
  OBVIOUS
<1>1. /\ q \in Seq(Inst) /\ r \in Seq(Inst)
      /\ DOMAIN q = 1 .. X + G + Y /\ DOMAIN r = 1 .. X + Y
      /\ \A k \in 1 .. X : q[k] = x[k] /\ r[k] = x[k]
      /\ \A k \in 1 .. G : q[k + X] = g[k]
      /\ \A k \in 1 .. Y : q[k + X + G] = y[k] /\ r[k + X] = y[k]
  BY Places
<1> HIDE DEF X, G, Y
<1>d. DOMAIN q = 1 .. X + G + Y /\ DOMAIN r = 1 .. X + Y
  BY <1>1
<1>2. ASSUME NEW k \in DOMAIN r
      PROVE  Up(k) \in DOMAIN q /\ r[k] = q[Up(k)]
  <2>1. CASE k <= X
    BY <1>0, <1>1, <2>1
  <2>2. CASE k > X
    <3>0. k \in Int /\ k > X /\ k <= X + Y
      BY <1>0, <1>d, <2>2
    <3>1. k - X \in 1 .. Y /\ (k - X) + X = k /\ (k - X) + X + G = k + G
      BY ONLY <1>0, <3>0
    <3>3. k + G \in 1 .. X + G + Y /\ ~(k <= X)
      BY ONLY <1>0, <3>0
    <3>2. Up(k) = k + G
      BY <3>3
    <3> HIDE DEF Up
    <3> QED
      BY <1>d, <1>1, <3>1, <3>2, <3>3
  <2> QED
    BY <1>0, <1>1, <2>1, <2>2
<1>3. \A j, k \in DOMAIN r : j < k => Up(j) < Up(k)
  BY <1>0, <1>1
<1>4. ASSUME NEW j \in DOMAIN q
      PROVE  \/ \E k \in DOMAIN r : q[j] = r[k]
             \/ \E k \in DOMAIN g : q[j] = g[k]
  <2>1. CASE j <= X
    <3>1. j \in 1 .. X /\ j \in DOMAIN r
      BY <1>0, <1>1, <2>1
    <3> QED
      BY <1>1, <3>1
  <2>2. CASE j > X /\ j <= X + G
    <3>1. j - X \in 1 .. G /\ (j - X) + X = j
      BY <1>0, <1>1, <2>2
    <3>2. q[j] = g[j - X]
      BY <1>1, <3>1
    <3> QED
      BY <1>0, <3>1, <3>2
  <2>3. CASE j > X + G
    <3>0. j \in Int /\ j > X + G /\ j <= X + G + Y
      BY <1>0, <1>d, <2>3
    <3>1. j - X - G \in 1 .. Y /\ (j - X - G) + X + G = j /\ (j - X - G) + X \in 1 .. X + Y
      BY ONLY <1>0, <3>0
    <3>2. q[j] = r[(j - X - G) + X]
      BY <1>1, <3>1
    <3> QED
      BY <1>d, <3>1, <3>2
  <2> QED
    BY <1>0, <1>1, <2>1, <2>2, <2>3
<1>5. ASSUME NEW k \in DOMAIN g
      PROVE  k + X \in DOMAIN q /\ g[k] = q[k + X]
  <2>1. k \in 1 .. G /\ k + X \in DOMAIN q
    BY <1>0, <1>d
  <2> QED
    BY <1>1, <2>1
<1>6. ASSUME x = <<>>, NEW j \in DOMAIN g, NEW k \in DOMAIN r
      PROVE  g[j].seq < r[k].seq
  <2>1. j + X \in DOMAIN q /\ g[j] = q[j + X] /\ Up(k) \in DOMAIN q /\ r[k] = q[Up(k)]
    BY <1>2, <1>5
  <2>2. j + X < Up(k)
    BY <1>0, <1>1, <1>6
  <2> HIDE DEF Up
  <2> QED
    BY <2>1, <2>2 DEF Ordered
<1>7. Ordered(r)
  <2> HIDE DEF Up
  <2> SUFFICES ASSUME NEW j \in DOMAIN r, NEW k \in DOMAIN r, j < k
               PROVE  r[j].seq < r[k].seq
    BY DEF Ordered
  <2>1. Up(j) \in DOMAIN q /\ Up(k) \in DOMAIN q /\ r[j] = q[Up(j)] /\ r[k] = q[Up(k)]
    BY <1>2
  <2>2. Up(j) < Up(k)
    BY <1>3
  <2> QED
    BY <2>1, <2>2 DEF Ordered
<1> HIDE DEF Up
<1> QED
  BY <1>1, <1>2, <1>4, <1>5, <1>6, <1>7

(* What was taken out no longer counts. *)
LEMMA CutCounts ==
  ASSUME NEW x \in Seq(Inst), NEW g \in Seq(Inst), NEW y \in Seq(Inst),
         NEW q, NEW r, Cut(q, r, x, g, y)
  PROVE  CountIn(q) = Plus(CountIn(r), CountIn(g))
<1> DEFINE z == g \o y
           a == CountIn(x)
           b == CountIn(g)
           c == CountIn(y)
           d == CountIn(z)
           p == CountIn(q)
           t == CountIn(r)
<1>1. a \in Counts /\ b \in Counts /\ c \in Counts
  BY CountType
<1>2. z \in Seq(Inst) /\ d = Plus(b, c)
  BY CountBoth
<1>3. t = Plus(a, c)
  BY CountBoth DEF Cut
<1>4. q = x \o z
  BY DEF Cut
<1>5. p = Plus(a, d)
  <2> HIDE DEF z
  <2> QED
    BY <1>2, <1>4, CountBoth
<1> HIDE DEF z, a, b, c, d, p, t
<1>6. d \in Counts /\ t \in Counts /\ p \in Counts
  BY <1>1, <1>2, <1>3, <1>5, PlusIs
<1>7. Plus(t, b) \in Counts
  BY <1>1, <1>6, PlusIs
<1>8. ASSUME NEW k \in Credits
      PROVE  p[k] = Plus(t, b)[k]
  <2>1. p[k] = a[k] + d[k] /\ d[k] = b[k] + c[k]
    BY <1>1, <1>2, <1>5, <1>6, PlusIs
  <2>2. t[k] = a[k] + c[k] /\ Plus(t, b)[k] = t[k] + b[k]
    BY <1>1, <1>3, <1>6, PlusIs
  <2>3. a[k] \in Int /\ b[k] \in Int /\ c[k] \in Int
    BY <1>1 DEF Counts
  <2> QED
    BY <2>1, <2>2, <2>3
<1>9. p = Plus(t, b)
  BY <1>6, <1>7, <1>8, SameCounts
<1> QED
  BY <1>9 DEF p, t, b

(* What rename sends is younger than all there is. *)
LEMMA SentKeeps ==
  ASSUME NEW q \in Seq(Inst), NEW s \in Seq(Inst), NEW n \in Nat, From(s, n),
         Ordered(q), Below(q, n), NEW r, Joined(r, q, s)
  PROVE  /\ Ordered(r) /\ Below(r, n + Len(s))
         /\ \A k \in DOMAIN r : (\E j \in DOMAIN q : r[k] = q[j]) \/ r[k].seq >= n
         /\ \A j \in DOMAIN q : \E k \in DOMAIN r : q[j] = r[k]
<1> DEFINE Q == Len(q)
           S == Len(s)
<1>1. /\ Q \in Nat /\ S \in Nat /\ DOMAIN q = 1 .. Q /\ DOMAIN s = 1 .. S
      /\ DOMAIN r = 1 .. Q + S
      /\ \A k \in 1 .. Q + S : r[k] = IF k <= Q THEN q[k] ELSE s[k - Q]
  BY ConcatProperties DEF Joined
<1> HIDE DEF Q, S
<1>2. \A k \in 1 .. Q : q[k].seq \in Nat /\ q[k].seq < n
  BY <1>1, Numbered DEF Below
<1>3. ASSUME NEW k \in 1 .. Q + S, k > Q
      PROVE  r[k].seq = n + (k - Q) - 1
  <2>1. k - Q \in 1 .. S /\ ~(k <= Q)
    BY <1>1, <1>3
  <2> QED
    BY <1>1, <2>1 DEF From
<1>4. ASSUME NEW k \in 1 .. Q
      PROVE  k \in DOMAIN r /\ r[k] = q[k]
  BY <1>1
<1>5. Ordered(r)
  <2> SUFFICES ASSUME NEW j \in 1 .. Q + S, NEW k \in 1 .. Q + S, j < k
               PROVE  r[j].seq < r[k].seq
    BY <1>1 DEF Ordered
  <2>1. CASE k <= Q
    <3>1. j \in 1 .. Q /\ k \in 1 .. Q
      BY <1>1, <2>1
    <3> QED
      BY <1>1, <1>4, <3>1 DEF Ordered
  <2>2. CASE j <= Q /\ k > Q
    <3>1. j \in 1 .. Q
      BY <1>1, <2>2
    <3>2. r[j].seq < n /\ r[j].seq \in Nat
      BY <1>2, <1>4, <3>1
    <3>3. r[k].seq = n + (k - Q) - 1
      BY <1>3, <2>2
    <3> QED
      BY <1>1, <2>2, <3>2, <3>3
  <2>3. CASE j > Q
    <3>1. r[k].seq = n + (k - Q) - 1 /\ r[j].seq = n + (j - Q) - 1
      BY <1>1, <1>3, <2>3
    <3> QED
      BY <1>1, <3>1
  <2> QED
    BY <1>1, <2>1, <2>2, <2>3
<1>6. ASSUME NEW k \in 1 .. Q + S
      PROVE  r[k].seq < n + S /\ ((\E j \in DOMAIN q : r[k] = q[j]) \/ r[k].seq >= n)
  <2>1. CASE k <= Q
    BY <1>1, <1>2, <1>4, <2>1
  <2>2. CASE k > Q
    <3>1. r[k].seq = n + (k - Q) - 1
      BY <1>3, <2>2
    <3> QED
      BY <1>1, <2>2, <3>1
  <2> QED
    BY <1>1, <2>1, <2>2
<1>7. Below(r, n + Len(s))
  BY <1>1, <1>6 DEF Below, S
<1> QED
  BY <1>1, <1>4, <1>5, <1>6, <1>7

-----------------------------------------------------------------------------
(* The second invariant, step by step. *)

(* The wire and the stage in a row. *)
LEMMA Shape ==
  ASSUME IInv
  PROVE  /\ Here \in Seq(Inst) /\ FlattenSeq(wire) \in Seq(Inst) /\ Queued \in Seq(Inst)
         /\ Queued = Here \o FlattenSeq(wire) /\ wire \in Seq(Seq(Inst)) /\ wire # <<>>
         /\ Len(wire) = D + (IF turn = "check" THEN 1 ELSE 0)
<1>1. PICK d \in Statuses, i \in Seq(Inst), k \in Seq(Inst), b \in BOOLEAN, u \in BOOLEAN :
        \E e : iew = Stage(d, i, k, b, u, e)
  BY DEF IInv
<1>2. PICK c : iew = Stage(d, i, k, b, u, c)
  BY <1>1
<1>3. Here = k \o i
  BY <1>2, Before
<1>4. Here \in Seq(Inst)
  BY <1>3
<1>5. wire \in Seq(Seq(Inst)) /\ Len(wire) = D + (IF turn = "check" THEN 1 ELSE 0)
  BY DEF IInv, WireOK
<1>6. wire # <<>>
  <2>1. Len(<<>>) = 0
    OBVIOUS
  <2>2. Len(wire) > 0
    BY <1>5, Widths
  <2> QED
    BY <2>1, <2>2
<1>7. FlattenSeq(wire) \in Seq(Inst)
  BY <1>5, <1>6, FlattenType
<1>8. Queued = Here \o FlattenSeq(wire)
  BY DEF Queued, Here
<1> DEFINE f == FlattenSeq(wire)
<1>9. Here \o f \in Seq(Inst)
  <2> HIDE DEF f
  <2> QED
    BY <1>4, <1>7 DEF f
<1> QED
  BY <1>4, <1>5, <1>6, <1>7, <1>8, <1>9

(* Credits: what is taken out has been told, ... *)
LEMMA CutCredits ==
  ASSUME NEW p \in Counts, NEW t \in Counts, NEW g \in Counts, NEW q, NEW r \in Counts,
         Minus(p, t) = q, q = Plus(r, g)
  PROVE  Minus(p, Plus(t, g)) = r /\ Plus(t, g) \in Counts
<1> DEFINE e == Plus(t, g)
           m == Minus(p, e)
<1>1. e \in Counts /\ m \in Counts
  BY PlusIs
<1>2. ASSUME NEW k \in Credits
      PROVE  m[k] = r[k]
  <2>1. e[k] = t[k] + g[k] /\ m[k] = p[k] - e[k]
    BY <1>1, PlusIs
  <2>2. q[k] = p[k] - t[k] /\ q[k] = r[k] + g[k]
    BY PlusIs
  <2>3. p[k] \in Int /\ t[k] \in Int /\ g[k] \in Int /\ r[k] \in Int
    BY DEF Counts
  <2> HIDE DEF e, m
  <2> QED
    BY <2>1, <2>2, <2>3
<1> HIDE DEF m
<1>3. m = r
  BY <1>1, <1>2, SameCounts
<1> QED
  BY <1>1, <1>3 DEF m

(* ... and what rename sends it adds to what it has not heard of. *)
LEMMA SentCredits ==
  ASSUME NEW p \in Counts, NEW t \in Counts, NEW s \in Counts, NEW q, Minus(p, t) = q
  PROVE  LET p2 == Minus(Plus(p, s), t) IN
         p2 \in Counts /\ Minus(p2, None) = Plus(q, s)
<1> DEFINE a == Plus(p, s)
           b == Minus(a, t)
           m == Minus(b, None)
           f == Plus(q, s)
<1>1. q \in Counts /\ a \in Counts /\ f \in Counts
  BY PlusIs
<1>2. b \in Counts
  <2> HIDE DEF a
  <2> QED
    BY <1>1, PlusIs
<1>3. m \in Counts
  <2> HIDE DEF b
  <2> QED
    BY <1>2, NoneIs, PlusIs
<1>4. ASSUME NEW k \in Credits
      PROVE  m[k] = f[k]
  <2>1. q[k] = p[k] - t[k] /\ a[k] = p[k] + s[k]
    BY PlusIs
  <2>2. f[k] = q[k] + s[k]
    BY <1>1, PlusIs
  <2>3. b[k] = a[k] - t[k]
    <3> HIDE DEF a
    <3> QED
      BY <1>1, PlusIs
  <2>4. m[k] = b[k] - None[k] /\ None[k] = 0
    <3> HIDE DEF b
    <3> QED
      BY <1>2, NoneIs, PlusIs
  <2>5. p[k] \in Int /\ t[k] \in Int /\ s[k] \in Int
    BY DEF Counts
  <2> HIDE DEF a, b, m, f
  <2> QED
    BY <2>1, <2>2, <2>3, <2>4, <2>5
<1>5. m = f
  <2> HIDE DEF m, f
  <2> QED
    BY <1>1, <1>3, <1>4, SameCounts
<1> QED
  BY <1>2, <1>5

(* A cut keeps the order, the bound and the credits; what leaves is told,  *)
(* and squashed or dispatched.                                             *)
LEMMA CutAll ==
  ASSUME NEW x \in Seq(Inst), NEW g \in Seq(Inst), NEW y \in Seq(Inst),
         NEW r, Cut(Queued, r, x, g, y),
         inProgress \in Counts, Told \in Counts, CreditsExact,
         Ordered(Queued), Below(Queued, next), Late(Queued)
  PROVE  /\ r \in Seq(Inst) /\ Ordered(r) /\ Below(r, next) /\ Late(r)
         /\ Minus(inProgress, Plus(Told, CountIn(g))) = CountIn(r)
         /\ Plus(Told, CountIn(g)) \in Counts
<1> DEFINE q == Queued
<1>1. /\ q \in Seq(Inst) /\ r \in Seq(Inst) /\ Ordered(r)
      /\ \A k \in DOMAIN r : \E j \in DOMAIN q : r[k] = q[j]
  <2>1. Cut(q, r, x, g, y) /\ Ordered(q)
    OBVIOUS
  <2> HIDE DEF q
  <2> QED
    BY ONLY <2>1, x \in Seq(Inst), g \in Seq(Inst), y \in Seq(Inst), CutKeeps
<1>2. CountIn(q) = Plus(CountIn(r), CountIn(g))
  <2>1. Cut(q, r, x, g, y)
    OBVIOUS
  <2> HIDE DEF q
  <2> QED
    BY ONLY <2>1, x \in Seq(Inst), g \in Seq(Inst), y \in Seq(Inst), CutCounts
<1>3. CountIn(r) \in Counts /\ CountIn(g) \in Counts
  BY <1>1, CountType
<1>4. Minus(inProgress, Told) = CountIn(q)
  BY DEF CreditsExact, Told
<1>b. Below(q, next) /\ Late(q)
  OBVIOUS
<1> HIDE DEF q
<1>5. Below(r, next)
  BY <1>1, <1>b DEF Below
<1>6. Late(r)
  BY <1>1, <1>b DEF Late
<1> DEFINE a == CountIn(r)
           b == CountIn(g)
           e == CountIn(q)
<1>7. a \in Counts /\ b \in Counts /\ Minus(inProgress, Told) = e /\ e = Plus(a, b)
  BY <1>2, <1>3, <1>4
<1> HIDE DEF a, b, e
<1>8. Minus(inProgress, Plus(Told, b)) = a /\ Plus(Told, b) \in Counts
  BY <1>7, CutCredits
<1> QED
  BY <1>1, <1>5, <1>6, <1>8 DEF a, b

(* Nothing is taken out. *)
LEMMA SameCore ==
  ASSUME LCore, Queued \in Seq(Inst), Queued' = Queued, Told' = Told,
         inProgress' = inProgress, next' = next, next \in Nat, lastDispatched' = lastDispatched,
         lastSquashed' \in Nat, lastSquashed <= lastSquashed', lastSquashed' < next
  PROVE  LCore' /\ Kept
<1>1. Waiting' = Waiting
  BY DEF Waiting
<1>2. CreditsExact'
  BY DEF LCore, CreditsExact, Told
<1>3. Ordered(Queued') /\ Below(Queued', next')
  BY DEF LCore
<1>4. ASSUME NEW k \in DOMAIN Queued'
      PROVE  Queued'[k].seq > lastDispatched' \/ Queued'[k].seq <= lastSquashed'
  <2>1. Queued[k].seq > lastDispatched \/ Queued[k].seq <= lastSquashed
    BY <1>4 DEF LCore, Late
  <2>2. Queued[k].seq \in Nat
    BY <1>4, Numbered
  <2>3. lastSquashed \in Nat
    BY DEF LCore
  <2> QED
    BY <1>4, <2>1, <2>2, <2>3
<1>5. /\ lastDispatched' \in Nat /\ lastDispatched' < next'
      /\ inProgress' \in Counts /\ Told' \in Counts
  BY DEF LCore
<1>6. LCore'
  BY <1>2, <1>3, <1>4, <1>5 DEF LCore, Late
<1> QED
  BY <1>1, <1>6 DEF Kept

(* The last one dispatched is the youngest of those taken. *)
LEMMA EnteredReaches ==
  ASSUME NEW g \in Seq(Inst), Below(g, next), next \in Nat,
         lastDispatched \in Nat, lastDispatched < next, lastSquashed \in Nat, Entered(g)
  PROVE  /\ lastDispatched' \in Nat /\ lastDispatched <= lastDispatched' /\ lastDispatched' < next
         /\ \A k \in DOMAIN g : g[k].seq <= lastSquashed \/ g[k].seq <= lastDispatched'
         /\ lastDispatched' = lastDispatched \/ \E k \in DOMAIN g : lastDispatched' = g[k].seq
<1> DEFINE S == {lastDispatched} \cup
                {g[k].seq : k \in {m \in DOMAIN g : g[m].seq > lastSquashed}}
           T == {m \in Nat : \A s \in S : s <= m}
<1>1. \A s \in S : s \in Nat /\ s < next
  BY Numbered DEF Below
<1>2. lastDispatched' = Max(S)
  BY DEF Entered
<1>3. lastDispatched \in S
  OBVIOUS
<1>4. \A k \in DOMAIN g : g[k].seq > lastSquashed => g[k].seq \in S
  OBVIOUS
<1>5. \A s \in S : s = lastDispatched \/ \E k \in DOMAIN g : s = g[k].seq
  OBVIOUS
<1> HIDE DEF S
<1>6. PICK t \in T : \A m \in T : t <= m
  <2>1. next \in T
    BY <1>1
  <2>2. T \in SUBSET Nat /\ T # {}
    BY <2>1
  <2> HIDE DEF T
  <2> QED
    BY <2>2, LeastOfNaturals
<1>7. t \in S
  <2> SUFFICES ASSUME t \notin S
               PROVE  FALSE
    OBVIOUS
  <2>1. \A s \in S : s < t
    BY <1>1, <1>6
  <2>2. t > 0 /\ t - 1 \in Nat
    BY <1>1, <1>3, <1>6, <2>1
  <2>3. t - 1 \in T
    BY <1>1, <2>1, <2>2
  <2>4. t \in Nat
    BY <1>6
  <2>5. t <= t - 1
    <3> HIDE DEF T
    <3> QED
      BY <1>6, <2>3
  <2> QED
    BY <2>4, <2>5
<1>8. Max(S) \in S /\ \A s \in S : Max(S) >= s
  <2>1. \E x \in S : \A y \in S : x >= y
    BY <1>1, <1>6, <1>7
  <2> QED
    BY <2>1 DEF Max
<1>9. \A k \in DOMAIN g : g[k].seq \in Nat
  BY Numbered
<1>10. ASSUME NEW k \in DOMAIN g
       PROVE  g[k].seq <= lastSquashed \/ g[k].seq <= lastDispatched'
  <2>1. CASE g[k].seq > lastSquashed
    <3>1. g[k].seq \in S
      BY <1>4, <2>1
    <3> QED
      BY <1>1, <1>2, <1>8, <3>1
  <2>2. CASE ~(g[k].seq > lastSquashed)
    BY <1>9, <1>10, <2>2
  <2> QED
    BY <2>1, <2>2
<1> QED
  BY <1>1, <1>2, <1>3, <1>5, <1>8, <1>10

(* Some are taken out. *)
LEMMA CutCore ==
  ASSUME LCore, next \in Nat, Queued \in Seq(Inst),
         NEW x \in Seq(Inst), NEW g \in Seq(Inst), NEW y \in Seq(Inst),
         Cut(Queued, Queued', x, g, y), Told' = Plus(Told, CountIn(g)),
         inProgress' = inProgress, next' = next, lastSquashed' = lastSquashed,
         lastDispatched' \in Nat, lastDispatched' < next,
         \/ lastDispatched' = lastDispatched
         \/ x = <<>> /\ \E k \in DOMAIN g : lastDispatched' = g[k].seq,
         \A k \in DOMAIN g : g[k].seq <= lastSquashed \/ g[k].seq <= lastDispatched'
  PROVE  LCore' /\ Kept
<1> DEFINE q == Queued
           r == Queued'
<1>0. /\ inProgress \in Counts /\ Told \in Counts /\ CreditsExact /\ Ordered(q)
      /\ Below(q, next) /\ Late(q) /\ lastSquashed \in Nat /\ lastDispatched \in Nat
      /\ lastSquashed < next
  BY DEF LCore
<1>1. /\ r \in Seq(Inst) /\ Ordered(r) /\ Below(r, next) /\ Late(r)
      /\ Minus(inProgress, Plus(Told, CountIn(g))) = CountIn(r)
      /\ Plus(Told, CountIn(g)) \in Counts
  <2>1. Cut(Queued, r, x, g, y)
    OBVIOUS
  <2> HIDE DEF r
  <2> QED
    BY <1>0, <2>1, CutAll
<1>2. /\ \A j \in DOMAIN q : \/ \E k \in DOMAIN r : q[j] = r[k]
                             \/ \E k \in DOMAIN g : q[j] = g[k]
      /\ x = <<>> => \A j \in DOMAIN g, k \in DOMAIN r : g[j].seq < r[k].seq
  <2>1. Cut(q, r, x, g, y) /\ Ordered(q)
    BY <1>0
  <2> HIDE DEF q, r
  <2> QED
    BY ONLY <2>1, x \in Seq(Inst), g \in Seq(Inst), y \in Seq(Inst), CutKeeps, SMTT(30)
<1>3. CreditsExact'
  BY <1>1 DEF CreditsExact, Told
<1>4. ASSUME NEW k \in DOMAIN r
      PROVE  r[k].seq > lastDispatched' \/ r[k].seq <= lastSquashed
  <2>1. CASE lastDispatched' = lastDispatched
    BY <1>1, <2>1 DEF Late
  <2>2. CASE x = <<>> /\ \E m \in DOMAIN g : lastDispatched' = g[m].seq
    <3>1. PICK m \in DOMAIN g : lastDispatched' = g[m].seq
      BY <2>2
    <3>2. g[m].seq < r[k].seq
      BY <1>2, <2>2
    <3>3. r[k].seq \in Nat /\ g[m].seq \in Nat
      <4> HIDE DEF r
      <4> QED
        BY <1>1, Numbered
    <3> HIDE DEF r
    <3> QED
      BY <3>1, <3>2, <3>3
  <2> QED
    BY <2>1, <2>2
<1>5. LCore'
  <2>1. Late(Queued)'
    BY <1>4 DEF Late
  <2>2. Ordered(Queued') /\ Below(Queued', next')
    BY <1>1
  <2>3. Told' \in Counts /\ inProgress' \in Counts
    BY <1>0, <1>1
  <2> QED
    BY <1>0, <1>3, <2>1, <2>2, <2>3 DEF LCore
<1>6. ASSUME NEW j \in DOMAIN q
      PROVE  \/ \E k \in DOMAIN r : q[j].seq = r[k].seq
             \/ q[j].seq <= lastDispatched' \/ q[j].seq <= lastSquashed
  <2>1. CASE \E k \in DOMAIN r : q[j] = r[k]
    BY <2>1
  <2>2. CASE \E k \in DOMAIN g : q[j] = g[k]
    BY <2>2
  <2> HIDE DEF q, r
  <2> QED
    BY <1>2, <2>1, <2>2
<1>7. Kept
  BY <1>6 DEF Kept, Waiting
<1> QED
  BY <1>5, <1>7

(* Nothing is on its way at first. *)
LEMMA InitLInv == Init => LInv
<1> SUFFICES ASSUME Init
             PROVE  LInv
  OBVIOUS
<1>1. IInv
  BY InitIInv
<1>2. Here = <<>> /\ Told = None
  BY DEF Init, Here, Told, Quiet
<1>3. FlattenSeq(wire) = <<>>
  <2>1. \A k \in DOMAIN wire : wire[k] = <<>>
    BY DEF Init
  <2> QED
    BY <1>1, <2>1, Shape, FlattenEmpty
<1>4. Queued = <<>>
  BY <1>1, <1>2, <1>3, Shape
<1>5. /\ inProgress = None /\ lastSquashed = 0 /\ lastDispatched = 0 /\ next = 1 /\ refill = 0
      /\ fromCommit = [squash |-> FALSE, robSquashing |-> FALSE]
  BY DEF Init
<1>6. Minus(None, None) = None
  BY DEF Minus, None
<1>7. CreditsExact
  BY <1>2, <1>4, <1>5, <1>6, CountNone DEF CreditsExact, Told
<1>8. Ordered(Queued) /\ Below(Queued, next) /\ Late(Queued)
  <2>1. DOMAIN Queued = {}
    BY <1>4
  <2> QED
    BY <2>1 DEF Ordered, Below, Late
<1>9. LCore
  BY <1>2, <1>5, <1>7, <1>8, NoneIs DEF LCore
<1> QED
  BY <1>5, <1>9 DEF LInv, Squashing

(* Commit: what has been sent is squashed. *)
LEMMA CommitLater ==
  ASSUME IInv, LInv, Commit
  PROVE  LInv' /\ Kept
<1>1. /\ turn = "commit" /\ turn' = "rename" /\ iew' = iew /\ wire' = wire
      /\ inProgress' = inProgress /\ refill' = refill /\ next' = next
      /\ lastDispatched' = lastDispatched
  BY DEF Commit, renameVars
<1>2. Queued' = Queued /\ Told' = Told
  BY <1>1 DEF Queued, Told
<1>3. /\ lastSquashed \in Nat /\ lastSquashed < next /\ next \in Nat /\ Squashing
      /\ LCore /\ refill \in Nat
  BY DEF LInv, LCore, IInv
<1>4. \/ /\ fromCommit' = [squash |-> TRUE, robSquashing |-> TRUE]
         /\ lastSquashed' = next - 1
      \/ /\ \E b \in {FALSE, fromCommit.robSquashing} :
              fromCommit' = [squash |-> FALSE, robSquashing |-> b]
         /\ lastSquashed' = lastSquashed
  BY DEF Commit
<1>5. lastSquashed' \in Nat /\ lastSquashed <= lastSquashed' /\ lastSquashed' < next
  BY <1>3, <1>4
<1>6. LCore' /\ Kept
  BY <1>1, <1>2, <1>3, <1>5, Shape, SameCore
<1>7. Squashing'
  <2>1. CASE /\ fromCommit' = [squash |-> TRUE, robSquashing |-> TRUE]
             /\ lastSquashed' = next - 1
    BY <1>1, <1>3, <2>1 DEF Squashing
  <2>2. ASSUME NEW b \in {FALSE, fromCommit.robSquashing},
               fromCommit' = [squash |-> FALSE, robSquashing |-> b],
               lastSquashed' = lastSquashed
        PROVE  Squashing'
    <3>1. b \in BOOLEAN /\ (b => fromCommit.robSquashing)
      BY <1>3 DEF Squashing
    <3>2. /\ fromCommit'.squash = FALSE /\ fromCommit'.robSquashing = b
      BY <2>2
    <3> QED
      BY <1>1, <1>3, <2>2, <3>1, <3>2 DEF Squashing
  <2> QED
    BY <1>4, <2>1, <2>2
<1> QED
  BY <1>1, <1>3, <1>6, <1>7 DEF LInv

(* The greater of two numbers is one of them. *)
LEMMA MaxOfTwo ==
  ASSUME NEW x \in Int, NEW y \in Int
  PROVE  Max({x, y}) \in {x, y} /\ Max({x, y}) >= x
<1>1. \E z \in {x, y} : \A v \in {x, y} : z >= v
  <2>1. CASE x <= y
    BY <2>1
  <2>2. CASE y <= x
    BY <2>2
  <2> QED
    BY <2>1, <2>2
<1>2. Max({x, y}) \in {x, y} /\ \A v \in {x, y} : Max({x, y}) >= v
  BY <1>1 DEF Max
<1> QED
  BY <1>2

(* Rename: what is sent is new. *)
LEMMA RenameLater ==
  ASSUME IInv, LInv, Rename
  PROVE  LInv' /\ Kept
<1>0. IInv' /\ Sends
  BY RenameKeeps
<1>1. PICK s \in Seq(Inst) :
        /\ \A x \in 1 .. Len(s) : s[x].seq = next + x - 1
        /\ wire' = Append(wire, s) /\ next' = next + Len(s)
        /\ inProgress' = Minus(Plus(inProgress, CountIn(s)), Told)
        /\ fromCommit.squash \/ refill > 0 \/ iew.dispatchStatus \in Held => Len(s) = 0
  BY <1>0 DEF Sends
<1>2. Here' = Here /\ Told' = None /\ iew'.dispatchStatus = iew.dispatchStatus
  BY <1>0 DEF Sends
<1>3. /\ turn = "rename" /\ turn' = "check" /\ fromCommit' = fromCommit
      /\ lastSquashed' = lastSquashed /\ lastDispatched' = lastDispatched
      /\ refill' = IF fromCommit.squash THEN Refill ELSE Max({0, refill - 1})
  BY DEF Rename, commitVars
<1>4. /\ LCore /\ refill \in Nat /\ Squashing /\ next \in Nat
      /\ lastSquashed \in Nat /\ lastSquashed < next
      /\ lastDispatched \in Nat /\ lastDispatched < next
      /\ inProgress \in Counts /\ Told \in Counts /\ CreditsExact
      /\ Ordered(Queued) /\ Below(Queued, next) /\ Late(Queued)
  BY DEF LInv, LCore, IInv
<1> DEFINE q == Queued
           r == Queued'
<1>5. r = q \o s
  <2> DEFINE f == FlattenSeq(wire)
             h == Here
  <2>1. FlattenSeq(wire') = f \o s
    BY <1>1, Shape, FlattenAppend
  <2>2. q = h \o f /\ f \in Seq(Inst) /\ h \in Seq(Inst)
    BY Shape
  <2>3. r = h \o FlattenSeq(wire')
    BY <1>2 DEF Queued, Here
  <2> HIDE DEF f, h, q, r
  <2>4. (h \o f) \o s = h \o (f \o s)
    BY <2>2, ConcatAssociative, SMTT(30)
  <2> QED
    BY <2>1, <2>2, <2>3, <2>4
<1>6. q \in Seq(Inst) /\ r \in Seq(Inst) /\ Len(s) \in Nat
  <2>1. q \in Seq(Inst) /\ Len(s) \in Nat
    BY Shape
  <2> HIDE DEF q, r
  <2> QED
    BY <1>5, <2>1
<1>7. /\ Ordered(r) /\ Below(r, next + Len(s))
      /\ \A k \in DOMAIN r : (\E j \in DOMAIN q : r[k] = q[j]) \/ r[k].seq >= next
      /\ \A j \in DOMAIN q : \E k \in DOMAIN r : q[j] = r[k]
  <2>1. From(s, next)
    BY <1>1 DEF From
  <2>3. Joined(r, q, s)
    BY <1>5 DEF Joined
  <2>2. Ordered(q) /\ Below(q, next) /\ next \in Nat /\ s \in Seq(Inst) /\ q \in Seq(Inst)
    BY <1>4, <1>6
  <2> HIDE DEF q, r
  <2> QED
    BY ONLY <2>1, <2>2, <2>3, SentKeeps
<1>8. CountIn(r) = Plus(CountIn(q), CountIn(s)) /\ CountIn(s) \in Counts
  <2> HIDE DEF q, r
  <2> QED
    BY <1>5, <1>6, CountBoth, CountType
<1>9. inProgress' \in Counts /\ Minus(inProgress', None) = CountIn(r)
  <2> DEFINE c == CountIn(s)
             e == CountIn(q)
  <2>1. Minus(inProgress, Told) = e
    BY <1>4 DEF CreditsExact, Told
  <2>2. c \in Counts /\ inProgress' = Minus(Plus(inProgress, c), Told) /\ CountIn(r) = Plus(e, c)
    BY <1>1, <1>8
  <2> HIDE DEF c, e
  <2> QED
    BY <1>4, <2>1, <2>2, SentCredits
<1>10. CreditsExact'
  BY <1>2, <1>9 DEF CreditsExact, Told
<1>11. ASSUME NEW k \in DOMAIN r
       PROVE  r[k].seq > lastDispatched \/ r[k].seq <= lastSquashed
  <2>1. CASE \E j \in DOMAIN q : r[k] = q[j]
    BY <1>4, <2>1 DEF Late
  <2>2. CASE r[k].seq >= next
    <3>1. r[k].seq \in Nat
      <4> HIDE DEF r
      <4> QED
        BY <1>6, Numbered
    <3> HIDE DEF r
    <3> QED
      BY <1>4, <2>2, <3>1
  <2> QED
    BY <1>7, <2>1, <2>2
<1>12. LCore'
  <2>1. Late(Queued)'
    BY <1>3, <1>11 DEF Late
  <2>2. Ordered(Queued') /\ Below(Queued', next')
    BY <1>1, <1>7
  <2>3. Told' \in Counts /\ inProgress' \in Counts
    BY <1>2, <1>9, NoneIs
  <2>4. lastSquashed < next' /\ lastDispatched < next'
    BY <1>1, <1>4, <1>6
  <2> QED
    BY <1>3, <1>4, <1>10, <2>1, <2>2, <2>3, <2>4 DEF LCore
<1>13. Kept
  BY <1>7 DEF Kept, Waiting
<1>14. refill' \in Nat /\ (fromCommit.squash => refill' > 0)
  <2>1. Refill \in Nat /\ Refill > 0
    BY DispatchAssumption DEF DispatchAssumption
  <2>2. Max({0, refill - 1}) \in {0, refill - 1} /\ Max({0, refill - 1}) >= 0
    BY <1>4, MaxOfTwo
  <2> QED
    BY <1>3, <1>4, <2>1, <2>2
<1>15. Squashing'
  <2>1. fromCommit.robSquashing => next' = next
    <3>1. fromCommit.robSquashing => Len(s) = 0
      BY <1>1, <1>3, <1>4 DEF Squashing
    <3> QED
      BY <1>1, <1>4, <3>1
  <2> QED
    BY <1>3, <1>4, <1>14, <2>1 DEF Squashing
<1> QED
  BY <1>12, <1>13, <1>14, <1>15 DEF LInv

(* The check of the signals: what the squash throws away is of the old path. *)
LEMMA CheckLater ==
  ASSUME IInv, LInv, checkSignalsAndUpdate
  PROVE  LInv' /\ Kept
<1>0. IInv' /\ Arrives
  BY CheckKeeps
<1>1. /\ turn = "check" /\ turn' = "dispatch" /\ wire' = Tail(wire)
      /\ inProgress' = inProgress /\ refill' = refill /\ next' = next
      /\ fromCommit' = fromCommit /\ lastSquashed' = lastSquashed
      /\ lastDispatched' = lastDispatched
  BY DEF checkSignalsAndUpdate, renameVars, commitVars
<1>2. /\ LCore /\ refill \in Nat /\ Squashing /\ next \in Nat
      /\ lastSquashed \in Nat /\ lastSquashed < next
      /\ lastDispatched \in Nat /\ lastDispatched < next
      /\ Told \in Counts /\ Below(Queued, next) /\ Ordered(Queued)
  BY DEF LInv, LCore, IInv
<1> DEFINE p == Here
           h == Head(wire)
           f == FlattenSeq(wire')
           q == Queued
           r == Queued'
<1>3. p \in Seq(Inst) /\ h \in Seq(Inst) /\ f \in Seq(Inst) /\ q \in Seq(Inst)
  <2>1. /\ wire \in Seq(Seq(Inst)) /\ Len(wire) = D + 1 /\ wire # <<>>
        /\ p \in Seq(Inst) /\ q \in Seq(Inst)
    BY <1>1, Shape
  <2>2. h \in Seq(Inst)
    BY <2>1
  <2>3. wire' \in Seq(Seq(Inst)) /\ Len(wire') = D
    BY <1>1, <2>1, Widths, HeadTailProperties
  <2>4. Len(<<>>) = 0
    OBVIOUS
  <2>5. wire' # <<>>
    BY <2>3, <2>4, Widths
  <2>6. f \in Seq(Inst)
    BY <2>3, <2>5, FlattenType
  <2> QED
    BY <2>1, <2>2, <2>6
<1>4. q = p \o (h \o f)
  <2>1. FlattenSeq(wire) = Head(wire) \o FlattenSeq(Tail(wire))
    <3>1. wire \in Seq(Seq(Inst)) /\ Len(wire) > 1
      BY <1>1, Shape, Widths
    <3> QED
      BY <3>1, FlattenTail
  <2>2. Queued = Here \o FlattenSeq(wire)
    BY Shape
  <2> QED
    BY <1>1, <2>1, <2>2
<1>5. r = Here' \o f
  BY DEF Queued, Here
<1>6. CountIn(p) \in Counts /\ CountIn(h) \in Counts
  BY <1>3, CountType
<1> HIDE DEF p, h, f, q, r
<1>7. fromCommit.robSquashing => \A k \in DOMAIN q : q[k].seq <= lastSquashed
  <2>1. \A k \in DOMAIN q : q[k].seq \in Nat /\ q[k].seq < next
    BY <1>2, <1>3, Numbered DEF Below, q
  <2> QED
    BY <1>2, <2>1 DEF Squashing
<1>8. ASSUME NEW x \in Seq(Inst), NEW g \in Seq(Inst), NEW y \in Seq(Inst),
             Cut(q, r, x, g, y), Told' = Plus(Told, CountIn(g)), fromCommit.robSquashing
      PROVE  LCore' /\ Kept
  <2>1. \A k \in DOMAIN g : \E j \in DOMAIN q : g[k] = q[j]
    BY <1>2, <1>8, CutKeeps DEF q
  <2>2. \A k \in DOMAIN g : g[k].seq <= lastSquashed
    BY <1>7, <1>8, <2>1
  <2>3. Cut(Queued, Queued', x, g, y) /\ Queued \in Seq(Inst)
    BY <1>3, <1>8 DEF q, r
  <2>4. lastDispatched' = lastDispatched /\ lastDispatched' \in Nat /\ lastDispatched' < next
    BY <1>1, <1>2
  <2> QED
    BY <1>1, <1>2, <1>8, <2>2, <2>3, <2>4, CutCore
<1>9. CASE ~fromCommit.robSquashing /\ Here' = p \o h /\ Told' = Told
  <2>1. r = q
    BY <1>3, <1>4, <1>5, <1>9, ConcatAssociative
  <2>2. Queued' = Queued /\ Queued \in Seq(Inst)
    BY <1>3, <2>1 DEF q, r
  <2>3. LCore' /\ Kept
    <3>1. lastSquashed' \in Nat /\ lastSquashed <= lastSquashed' /\ lastSquashed' < next
      BY <1>1, <1>2
    <3> QED
      BY <1>1, <1>2, <1>9, <2>2, <3>1, SameCore
  <2>4. Squashing'
    BY <1>1, <1>2, <1>9 DEF Squashing
  <2> QED
    BY <1>1, <1>2, <2>3, <2>4 DEF LInv
<1>10. CASE /\ fromCommit.robSquashing /\ iew'.dispatchStatus = "Blocked"
            /\ Here' = p /\ Told' = Plus(Told, CountIn(h))
  <2>1. Cut(q, r, p, h, f)
    BY <1>4, <1>5, <1>10 DEF Cut
  <2>2. LCore' /\ Kept
    BY <1>3, <1>8, <1>10, <2>1
  <2>3. Squashing'
    BY <1>1, <1>2, <1>10 DEF Squashing, Held
  <2> QED
    BY <1>1, <1>2, <2>2, <2>3 DEF LInv
<1>11. CASE /\ fromCommit.squash /\ iew'.dispatchStatus = "Squashing" /\ Here' = <<>>
            /\ Told' = Plus(Plus(Told, CountIn(p)), CountIn(h))
  <2> DEFINE g == p \o h
             e == <<>>
  <2>1. e \in Seq(Inst) /\ g \in Seq(Inst) /\ g \o f = q
    <3>1. g \in Seq(Inst) /\ e \in Seq(Inst)
      BY <1>3
    <3>2. (p \o h) \o f = p \o (h \o f)
      BY <1>3, ConcatAssociative, SMTT(30)
    <3> QED
      BY <1>4, <3>1, <3>2
  <2>2. e \o q = q /\ e \o f = f
    BY <1>3, ConcatSimplifications
  <2>3. Cut(q, r, e, g, f)
    <3> HIDE DEF g
    <3> QED
      BY <1>5, <1>11, <2>1, <2>2 DEF Cut
  <2>4. CountIn(g) = Plus(CountIn(p), CountIn(h))
    BY <1>3, CountBoth
  <2>5. Told' = Plus(Told, CountIn(g))
    <3> DEFINE a == CountIn(p)
               b == CountIn(h)
    <3>1. a \in Counts /\ b \in Counts
      BY <1>6
    <3> HIDE DEF a, b, g
    <3>2. Plus(Plus(Told, a), b) = Plus(Told, Plus(a, b))
      BY <1>2, <3>1, PlusTwice
    <3> QED
      BY <1>11, <2>4, <3>2 DEF a, b
  <2>6. fromCommit.robSquashing
    BY <1>2, <1>11 DEF Squashing
  <2>7. LCore' /\ Kept
    <3> HIDE DEF g, e
    <3> QED
      BY <1>3, <1>8, <2>1, <2>3, <2>5, <2>6
  <2>8. Squashing'
    BY <1>1, <1>2, <1>11 DEF Squashing
  <2> QED
    BY <1>1, <1>2, <2>7, <2>8 DEF LInv
<1>12. \/ ~fromCommit.robSquashing /\ Here' = p \o h /\ Told' = Told
       \/ /\ fromCommit.robSquashing /\ iew'.dispatchStatus = "Blocked"
          /\ Here' = p /\ Told' = Plus(Told, CountIn(h))
       \/ /\ fromCommit.squash /\ iew'.dispatchStatus = "Squashing" /\ Here' = <<>>
          /\ Told' = Plus(Plus(Told, CountIn(p)), CountIn(h))
  BY <1>0 DEF Arrives, Outcome, Counted, p, h
<1> QED
  BY <1>9, <1>10, <1>11, <1>12

(* The dispatch: the oldest leave. *)
LEMMA DispatchLater ==
  ASSUME IInv, LInv, dispatch
  PROVE  LInv' /\ Kept
<1>0. IInv' /\ Takes
  BY DispatchKeeps
<1>1. /\ turn = "dispatch" /\ turn' = "commit" /\ wire' = wire
      /\ inProgress' = inProgress /\ refill' = refill /\ next' = next
      /\ fromCommit' = fromCommit /\ lastSquashed' = lastSquashed
  BY DEF dispatch, renameVars, commitVars
<1>2. /\ LCore /\ refill \in Nat /\ Squashing /\ next \in Nat
      /\ lastSquashed \in Nat /\ lastSquashed < next
      /\ lastDispatched \in Nat /\ lastDispatched < next
      /\ Below(Queued, next) /\ Ordered(Queued)
  BY DEF LInv, LCore, IInv
<1>3. Queued \in Seq(Inst) /\ Here \in Seq(Inst)
  BY Shape
<1>4. CASE /\ iew.dispatchStatus \in {"Blocked", "Squashing"}
           /\ iew' = iew /\ lastDispatched' = lastDispatched
  <2>1. Queued' = Queued /\ Told' = Told
    BY <1>1, <1>4 DEF Queued, Told
  <2>2. LCore' /\ Kept
    <3>1. lastSquashed' \in Nat /\ lastSquashed <= lastSquashed' /\ lastSquashed' < next
      BY <1>1, <1>2
    <3> QED
      BY <1>1, <1>2, <1>3, <1>4, <2>1, <3>1, SameCore
  <2>3. Squashing'
    BY <1>1, <1>2, <1>4 DEF Squashing
  <2> QED
    BY <1>1, <1>2, <2>2, <2>3 DEF LInv
<1>5. CASE /\ iew.dispatchStatus \notin {"Blocked", "Squashing"}
           /\ Taken(Here, Here', Told, Told')
  <2>1. PICK g \in Seq(Inst) :
          Here = g \o Here' /\ Told' = Plus(Told, CountIn(g)) /\ Entered(g)
    BY <1>5 DEF Taken, Counted
  <2> DEFINE e == <<>>
             y == Queued'
             f == FlattenSeq(wire)
             p == Here'
  <2>2. p \in Seq(Inst)
    <3>1. PICK d \in Statuses, i \in Seq(Inst), k \in Seq(Inst), b \in BOOLEAN, u \in BOOLEAN :
            \E c : iew' = Stage(d, i, k, b, u, c)
      BY <1>0 DEF IInv
    <3>2. PICK c : iew' = Stage(d, i, k, b, u, c)
      BY <3>1
    <3>3. Here' = k \o i
      BY <3>2, After
    <3> QED
      BY <3>3
  <2>3. y = p \o f /\ f \in Seq(Inst)
    BY <1>1, Shape DEF Queued, Here
  <2>4. Queued = Here \o f /\ Here = g \o p
    BY <2>1, Shape
  <2>5. e \in Seq(Inst)
    OBVIOUS
  <2> HIDE DEF y, f, p
  <2>6. y \in Seq(Inst) /\ Queued = g \o y
    <3>1. (g \o p) \o f = g \o (p \o f)
      BY <2>2, <2>3, ConcatAssociative
    <3>2. p \o f \in Seq(Inst)
      BY <2>2, <2>3
    <3> QED
      BY <2>3, <2>4, <3>1, <3>2
  <2>7. e \o y = y /\ e \o (g \o y) = g \o y
    <3>1. g \o y \in Seq(Inst)
      BY <2>6
    <3> QED
      BY <2>6, <3>1, ConcatSimplifications
  <2>8. Cut(Queued, y, e, g, y)
    <3> HIDE DEF e
    <3> QED
      BY <2>6, <2>7 DEF Cut
  <2>9. Below(g, next)
    <3>1. \A k \in DOMAIN g : \E j \in DOMAIN Queued : g[k] = Queued[j]
      <4> DEFINE q == Queued
      <4>1. /\ Cut(q, y, e, g, y) /\ Ordered(q)
            /\ e \in Seq(Inst) /\ g \in Seq(Inst) /\ y \in Seq(Inst)
        BY <1>2, <2>5, <2>6, <2>8
      <4> HIDE DEF e, q
      <4>2. \A k \in DOMAIN g : \E j \in DOMAIN q : g[k] = q[j]
        BY ONLY <4>1, CutKeeps
      <4> QED
        BY <4>2 DEF q
    <3> QED
      BY <1>2, <3>1 DEF Below
  <2>10. /\ lastDispatched' \in Nat /\ lastDispatched <= lastDispatched' /\ lastDispatched' < next
         /\ \A k \in DOMAIN g : g[k].seq <= lastSquashed \/ g[k].seq <= lastDispatched'
         /\ lastDispatched' = lastDispatched \/ \E k \in DOMAIN g : lastDispatched' = g[k].seq
    BY <1>2, <2>1, <2>9, EnteredReaches
  <2>11. Cut(Queued, Queued', e, g, y) /\ e = <<>>
    BY <2>8 DEF y
  <2>12. LCore' /\ Kept
    <3> HIDE DEF e
    <3> QED
      BY <1>1, <1>2, <1>3, <2>1, <2>5, <2>6, <2>10, <2>11, CutCore
  <2>13. Squashing'
    BY <1>1, <1>2, <1>5 DEF Squashing
  <2> QED
    BY <1>1, <1>2, <2>12, <2>13 DEF LInv
<1> QED
  BY <1>0, <1>4, <1>5 DEF Takes

(* One step per phase. *)
LEMMA NextLater == IInv /\ LInv /\ [Next]_vars => LInv' /\ Kept
<1>1. ASSUME IInv, LInv, UNCHANGED vars
      PROVE  LInv' /\ Kept
  <2>1. /\ turn' = turn /\ iew' = iew /\ wire' = wire /\ next' = next
        /\ inProgress' = inProgress /\ refill' = refill /\ fromCommit' = fromCommit
        /\ lastSquashed' = lastSquashed /\ lastDispatched' = lastDispatched
    BY <1>1 DEF vars, renameVars, commitVars
  <2>2. Queued' = Queued /\ Told' = Told
    BY <2>1 DEF Queued, Told
  <2>3. /\ LCore /\ lastSquashed \in Nat /\ lastSquashed < next /\ next \in Nat
        /\ Squashing /\ refill \in Nat
    BY <1>1 DEF LInv, LCore, IInv
  <2>4. Queued \in Seq(Inst)
    BY <1>1, Shape
  <2>5. LCore' /\ Kept
    BY <2>1, <2>2, <2>3, <2>4, SameCore
  <2>6. Squashing'
    BY <2>1, <2>3 DEF Squashing
  <2> QED
    BY <2>1, <2>3, <2>5, <2>6 DEF LInv
<1> QED
  BY <1>1, CommitLater, RenameLater, CheckLater, DispatchLater DEF Next

(* The two invariants hold throughout. *)
LEMMA LInvHolds == Spec => [](IInv /\ LInv)
<1> QED
  BY InitIInv, InitLInv, NextKeeps, NextLater, PTL DEF Spec

(* Instructions enter the queues in program order: none is dispatched      *)
(* while an older one waits (IEW::dispatchInsts, skidInsert).              *)
THEOREM InOrderCorrect == Spec => []InOrder
<1>1. IInv /\ LInv => InOrder
  <2> SUFFICES ASSUME IInv, LInv
               PROVE  InOrder
    OBVIOUS
  <2>1. Ordered(Queued) /\ Late(Queued)
    BY DEF LInv, LCore
  <2> QED
    BY <2>1 DEF Ordered, Late, InOrder, Waiting
<1> QED
  BY <1>1, LInvHolds, PTL

(* Rename's counts of what it sent and has not heard of are exact, through *)
(* stalls and squashes (toRename->iewInfo).                                *)
THEOREM CreditsCorrect == Spec => []CreditsExact
<1>1. IInv /\ LInv => CreditsExact
  BY DEF LInv, LCore
<1> QED
  BY <1>1, LInvHolds, PTL

(* An instruction leaves the stage undispatched only when it is squashed   *)
(* (IEW::emptyRenameInsts, squash).                                        *)
THEOREM NoneLostCorrect == Spec => NoneLost
<1>1. IInv /\ LInv /\ [Next]_vars =>
        [\A q \in Waiting : \/ q \in Waiting' \/ q <= lastDispatched' \/ q <= lastSquashed']_vars
  <2> SUFFICES ASSUME IInv, LInv, [Next]_vars
               PROVE  \A q \in Waiting : \/ q \in Waiting' \/ q <= lastDispatched'
                                         \/ q <= lastSquashed'
    OBVIOUS
  <2> QED
    BY NextLater DEF Kept
<1> QED
  BY <1>1, LInvHolds, PTL DEF Spec, NoneLost
=============================================================================
