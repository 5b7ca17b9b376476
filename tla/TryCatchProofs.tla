--------------------------- MODULE TryCatchProofs ---------------------------
(***************************************************************************)
(* Proofs about TryCatch.  The strengthening of NeverSkipsHandler numbers  *)
(* the buffers, and says of every saved handler what the property says of  *)
(* the current one (Chained): it is the next try out, or a try that has    *)
(* been left, and it is NULL for the outermost try only.  It is stated of  *)
(* any stack of tries, so that the three ways a step changes the stack     *)
(* (push, cut, change of the last record) are three lemmas.                *)
(***************************************************************************)
EXTENDS TryCatch, TLAPS

(* Buffers are numbered in the order of entry, activations are nested, and *)
(* a saved handler is older than the try that saved it.                    *)
Ordered(ts, n) ==
    /\ \A i \in 1..Len(ts) : /\ ts[i].buf < n
                             /\ ts[i].old # NULL => ts[i].old < ts[i].buf
    /\ \A i, j \in 1..Len(ts) : i < j => /\ ts[i].buf < ts[j].buf
                                         /\ ts[i].frame <= ts[j].frame

Chained(ts) ==
    \A i \in 1..Len(ts) :
       /\ ts[i].old = NULL => i = 1
       /\ \A j \in 1..Len(ts) : ts[i].old = ts[j].buf => j = i - 1

Within(ts, d) == \A i \in 1..Len(ts) : ts[i].frame <= d

IInv == /\ TypeOK
        /\ cur # NULL => cur < next
        /\ Ordered(tries, next)
        /\ Chained(tries)
        /\ NeverSkipsHandler

(* The stack without its innermost tries.                                  *)
LEMMA Cut ==
    ASSUME NEW ts \in Seq(TryRec), NEW k \in 0..Len(ts), NEW n \in Nat,
           Ordered(ts, n), Chained(ts)
    PROVE  /\ SubSeq(ts, 1, k) \in Seq(TryRec)
           /\ Len(SubSeq(ts, 1, k)) = k
           /\ \A i \in 1..k : SubSeq(ts, 1, k)[i] = ts[i]
           /\ Ordered(SubSeq(ts, 1, k), n)
           /\ Chained(SubSeq(ts, 1, k))
<1>1. /\ SubSeq(ts, 1, k) \in Seq(TryRec)
      /\ Len(SubSeq(ts, 1, k)) = k
      /\ \A i \in 1..k : SubSeq(ts, 1, k)[i] = ts[i]
  OBVIOUS
<1>2. 1..k \subseteq 1..Len(ts)
  OBVIOUS
<1> QED
  BY <1>1, <1>2 DEF Ordered, Chained

(* The stack with its last record changed in what the arms change.         *)
LEMMA Change ==
    ASSUME NEW ts \in Seq(TryRec), NEW n \in Nat, Ordered(ts, n), Chained(ts),
           ts # <<>>, NEW r \in TryRec,
           r.buf = ts[Len(ts)].buf, r.old = ts[Len(ts)].old, r.frame = ts[Len(ts)].frame
    PROVE  LET us == [ts EXCEPT ![Len(ts)] = r]
           IN  /\ us \in Seq(TryRec) /\ Len(us) = Len(ts)
               /\ \A i \in 1..Len(ts) : /\ us[i].buf = ts[i].buf
                                        /\ us[i].old = ts[i].old
                                        /\ us[i].frame = ts[i].frame
               /\ Ordered(us, n) /\ Chained(us)
<1> DEFINE us == [ts EXCEPT ![Len(ts)] = r]
<1>1. us \in Seq(TryRec) /\ Len(us) = Len(ts)
  OBVIOUS
<1>2. \A i \in 1..Len(ts) : us[i] = IF i = Len(ts) THEN r ELSE ts[i]
  OBVIOUS
<1>3. \A i \in 1..Len(ts) : /\ us[i].buf = ts[i].buf
                            /\ us[i].old = ts[i].old
                            /\ us[i].frame = ts[i].frame
  BY <1>2
<1> HIDE DEF us
<1>4. Ordered(us, n) /\ Chained(us)
  BY <1>1, <1>3 DEF Ordered, Chained
<1> QED
  BY <1>1, <1>3, <1>4 DEF us

(* The stack with a try that saves the current handler c.                  *)
LEMMA Push ==
    ASSUME NEW ts \in Seq(TryRec), NEW n \in Nat, Ordered(ts, n), Chained(ts),
           NEW r \in TryRec, r.buf = n, Within(ts, r.frame),
           r.old # NULL => r.old < n,
           r.old = NULL => ts = <<>>,
           \A i \in 1..Len(ts) : ts[i].buf = r.old => i = Len(ts)
    PROVE  /\ Append(ts, r) \in Seq(TryRec)
           /\ Len(Append(ts, r)) = Len(ts) + 1
           /\ Append(ts, r)[Len(ts) + 1] = r
           /\ \A i \in 1..Len(ts) : Append(ts, r)[i] = ts[i]
           /\ Ordered(Append(ts, r), n + 1)
           /\ Chained(Append(ts, r))
<1> DEFINE us == Append(ts, r)
<1>1. /\ us \in Seq(TryRec) /\ Len(us) = Len(ts) + 1
      /\ us[Len(ts) + 1] = r /\ \A i \in 1..Len(ts) : us[i] = ts[i]
  OBVIOUS
<1>2. \A i \in 1..Len(us) : i \in 1..Len(ts) \/ i = Len(ts) + 1
  BY <1>1
<1> HIDE DEF us
<1>3. \A i \in 1..Len(us) : us[i].buf \in Nat /\ us[i].old \in Nat \cup {NULL}
  <2>1. \A i \in 1..Len(us) : us[i] \in TryRec
    BY <1>1
  <2> QED BY <2>1 DEF TryRec
<1>4. Ordered(us, n + 1)
  <2>1. \A i \in 1..Len(us) : us[i].buf < n + 1 /\ (us[i].old # NULL => us[i].old < us[i].buf)
    <3> SUFFICES ASSUME NEW i \in 1..Len(us)
                 PROVE  us[i].buf < n + 1 /\ (us[i].old # NULL => us[i].old < us[i].buf)
      OBVIOUS
    <3>1. CASE i \in 1..Len(ts)
      <4>1. us[i] = ts[i] /\ us[i].buf < n /\ (us[i].old # NULL => us[i].old < us[i].buf)
        BY <1>1, <3>1 DEF Ordered
      <4>2. us[i].buf < n + 1
        BY <4>1, <1>3
      <4> QED BY <4>1, <4>2
    <3>2. CASE i = Len(ts) + 1
      <4>1. us[i] = r
        BY <1>1, <3>2
      <4>2. us[i].buf < n + 1
        BY <4>1
      <4> QED BY <4>1, <4>2
    <3> QED BY <1>2, <3>1, <3>2
  <2>2. \A i, j \in 1..Len(us) : i < j => us[i].buf < us[j].buf /\ us[i].frame <= us[j].frame
    <3> SUFFICES ASSUME NEW i \in 1..Len(us), NEW j \in 1..Len(us), i < j
                 PROVE  us[i].buf < us[j].buf /\ us[i].frame <= us[j].frame
      OBVIOUS
    <3>1. i \in 1..Len(ts)
      BY <1>1
    <3>2. CASE j \in 1..Len(ts)
      BY <1>1, <3>1, <3>2 DEF Ordered
    <3>3. CASE j = Len(ts) + 1
      BY <1>1, <3>1, <3>3 DEF Ordered, Within
    <3> QED BY <1>2, <3>2, <3>3
  <2> QED BY <2>1, <2>2 DEF Ordered
<1>5. Chained(us)
  <2> SUFFICES ASSUME NEW i \in 1..Len(us)
               PROVE  /\ us[i].old = NULL => i = 1
                      /\ \A j \in 1..Len(us) : us[i].old = us[j].buf => j = i - 1
    BY DEF Chained
  <2>1. CASE i \in 1..Len(ts)
    <3>1. us[i] = ts[i] /\ ts[i].buf < n /\ (ts[i].old # NULL => ts[i].old < ts[i].buf)
      BY <1>1, <2>1 DEF Ordered
    <3>2. ts[i].old # n
      BY <3>1, <1>3, NullAssumption
    <3>3. \A j \in 1..Len(us) : us[i].old = us[j].buf => j \in 1..Len(ts)
      BY <1>1, <1>2, <3>1, <3>2
    <3> QED BY <1>1, <2>1, <3>1, <3>3 DEF Chained
  <2>2. CASE i = Len(ts) + 1
    <3>1. us[i] = r
      BY <1>1, <2>2
    <3>2. r.old # n
      BY NullAssumption
    <3>3. r.old = NULL => i = 1
      BY <2>2
    <3>4. ASSUME NEW j \in 1..Len(us), us[i].old = us[j].buf PROVE j = i - 1
      <4>1. j \in 1..Len(ts)
        BY <1>1, <1>2, <3>1, <3>2, <3>4
      <4> QED BY <1>1, <2>2, <3>1, <3>4, <4>1
    <3> QED BY <3>1, <3>3, <3>4
  <2> QED BY <1>2, <2>1, <2>2
<1> QED
  BY <1>1, <1>4, <1>5 DEF us
-----------------------------------------------------------------------------
LEMMA InitIInv == Init => IInv
  BY BoundAssumption DEF Init, IInv, TypeOK, Ordered, Chained, NeverSkipsHandler

(* What the cases below use of a step.                                     *)
LEMMA TopRecord ==
    ASSUME TypeOK, tries # <<>>
    PROVE  /\ Len(tries) \in 1..Len(tries) /\ Len(tries) \in Nat
           /\ Top = tries[Len(tries)] /\ Top \in TryRec
           /\ Top.frame <= depth
  BY DEF TypeOK, Top

LEMMA CutNext ==
    ASSUME IInv, NEW k \in 0..Len(tries), tries' = SubSeq(tries, 1, k),
           depth' \in 0..MaxDepth, error' = error, next' = next, left' \in SUBSET {"ret", "break"}, outcome' \in {"running", "done"},
           \A i \in 1..k : tries[i].frame <= depth',
           \/ k < Len(tries) /\ cur' = cur
           \/ k = Len(tries) - 1 /\ cur' = Top.old
    PROVE  IInv'
<1> USE DEF IInv
<1>1. /\ tries' \in Seq(TryRec) /\ Len(tries') = k
      /\ \A i \in 1..k : tries'[i] = tries[i]
      /\ Ordered(tries', next) /\ Chained(tries')
  BY Cut DEF TypeOK
<1>2. 1..k \subseteq 1..Len(tries)
  BY DEF TypeOK
<1>3. tries # <<>> => Top \in TryRec /\ Len(tries) \in 1..Len(tries) /\ Top = tries[Len(tries)]
  BY TopRecord
<1>4. tries # <<>>
  BY DEF TypeOK
<1>5. cur' \in Nat \cup {NULL} /\ (cur' # NULL => cur' < next')
  <2>1. CASE cur' = cur
    BY <2>1 DEF TypeOK
  <2>2. CASE cur' = Top.old
    <3>1. Top.old \in Nat \cup {NULL} /\ Top.buf \in Nat /\ next \in Nat
      BY <1>3, <1>4 DEF TryRec, TypeOK
    <3>2. Top.buf < next /\ (Top.old # NULL => Top.old < Top.buf)
      BY <1>3, <1>4 DEF Ordered
    <3> QED BY <2>2, <3>1, <3>2
  <2> QED BY <2>1, <2>2
<1>6. TypeOK'
  BY <1>1, <1>5 DEF TypeOK
<1>7. NeverSkipsHandler'
  <2>1. CASE k < Len(tries) /\ cur' = cur
    <3>1. cur # NULL
      BY <1>4 DEF NeverSkipsHandler
    <3>2. \A i \in 1..k : tries[i].buf # cur
      BY <1>2, <2>1 DEF NeverSkipsHandler
    <3> QED BY <1>1, <2>1, <3>1, <3>2 DEF NeverSkipsHandler
  <2>2. CASE k = Len(tries) - 1 /\ cur' = Top.old
    <3>1. Top.old = NULL => k = 0
      <4>1. Top.old = NULL => Len(tries) = 1
        BY <1>3, <1>4 DEF Chained
      <4>2. k = Len(tries) - 1
        BY <2>2
      <4> HIDE DEF IInv
      <4> QED BY <4>1, <4>2
    <3>2. \A i \in 1..k : tries[i].buf = Top.old => i = k
      BY <1>2, <1>3, <1>4, <2>2 DEF Chained
    <3>3. k = 0 => tries' = <<>>
      BY <1>1
    <3> QED BY <1>1, <2>2, <3>1, <3>2, <3>3 DEF NeverSkipsHandler
  <2> QED BY <2>1, <2>2
<1> QED BY <1>1, <1>5, <1>6, <1>7

LEMMA ChangeStack ==
    ASSUME IInv, tries # <<>>, NEW r \in TryRec,
           r.buf = Top.buf, r.old = Top.old, r.frame = Top.frame, tries' = SetTop(r)
    PROVE  /\ tries' \in Seq(TryRec) /\ Len(tries') = Len(tries)
           /\ \A i \in 1..Len(tries) : /\ tries'[i].buf = tries[i].buf
                                       /\ tries'[i].old = tries[i].old
                                       /\ tries'[i].frame = tries[i].frame
           /\ Ordered(tries', next) /\ Chained(tries')
  BY Change DEF IInv, TypeOK, SetTop, Top

LEMMA ChangeNext ==
    ASSUME IInv, tries # <<>>, NEW r \in TryRec,
           r.buf = Top.buf, r.old = Top.old, r.frame = Top.frame,
           tries' = SetTop(r), UNCHANGED <<depth, cur, error, next, left, outcome>>
    PROVE  IInv'
<1> USE DEF IInv
<1>1. /\ tries' \in Seq(TryRec) /\ Len(tries') = Len(tries)
      /\ \A i \in 1..Len(tries) : /\ tries'[i].buf = tries[i].buf
                                  /\ tries'[i].old = tries[i].old
                                  /\ tries'[i].frame = tries[i].frame
      /\ Ordered(tries', next) /\ Chained(tries')
  BY ChangeStack
<1>2. TypeOK'
  BY <1>1 DEF TypeOK
<1>3. NeverSkipsHandler'
  BY <1>1 DEF NeverSkipsHandler, TypeOK
<1> QED BY <1>1, <1>2, <1>3

LEMMA StutterNext ==
    ASSUME IInv, UNCHANGED <<tries, cur, error, next, left>>, depth' \in 0..MaxDepth,
           \A i \in 1..Len(tries) : tries[i].frame <= depth',
           outcome' \in {"running", "done", "uncaught", "undefined"}
    PROVE  IInv'
  BY DEF IInv, TypeOK, NeverSkipsHandler

(* The two steps inside a catch clause change arm, busy, missed and ran.   *)
LEMMA ArmStep ==
    ASSUME TypeOK, TestArm \/ FinishArm
    PROVE  /\ tries # <<>>
           /\ UNCHANGED <<depth, cur, error, next, left, outcome>>
           /\ \E r \in TryRec : /\ r.buf = Top.buf /\ r.old = Top.old /\ r.frame = Top.frame
                                /\ tries' = SetTop(r)
<1>1. tries # <<>> /\ Top \in TryRec
  BY TopRecord DEF TestArm, FinishArm, Testing, Here
<1>2. CASE TestArm
  <2> DEFINE hit == ArmMatches(Top)
             at == IF hit THEN Top.arm ELSE Top.arm + 1
             missed == Top.arms[Top.arm] # Wildcard /\ ~hit
             ran == IF hit THEN Top.ran + 1 ELSE Top.ran
             r == [Top EXCEPT !.arm = at, !.busy = hit, !.missed = missed, !.ran = ran]
  <2>1. hit \in BOOLEAN /\ missed \in BOOLEAN
    <3>1. Top.missed \in BOOLEAN
      BY <1>1 DEF TryRec
    <3> QED BY <3>1 DEF ArmMatches
  <2>2. at \in Nat /\ ran \in Nat
    BY <1>1 DEF TryRec
  <2>3. tries' = SetTop(r)
    BY <1>1, <1>2 DEF TestArm, TryRec
  <2> HIDE DEF hit, at, missed, ran
  <2>4. r \in TryRec /\ r.buf = Top.buf /\ r.old = Top.old /\ r.frame = Top.frame
    BY <1>1, <2>1, <2>2 DEF TryRec
  <2> QED BY <1>1, <1>2, <2>3, <2>4 DEF TestArm
<1>3. CASE FinishArm
  <2> DEFINE at == Top.arm + 1
             r == [Top EXCEPT !.arm = at, !.busy = FALSE]
  <2>1. tries' = SetTop(r)
    BY <1>1, <1>3 DEF FinishArm, TryRec
  <2>2. at \in Nat
    BY <1>1 DEF TryRec
  <2> HIDE DEF at
  <2>3. r \in TryRec /\ r.buf = Top.buf /\ r.old = Top.old /\ r.frame = Top.frame
    BY <1>1, <2>2 DEF TryRec
  <2> QED BY <1>1, <1>3, <2>1, <2>3 DEF FinishArm
<1> QED BY <1>2, <1>3

THEOREM IInvNext == IInv /\ [Next]_vars => IInv'
<1> SUFFICES ASSUME IInv, [Next]_vars PROVE IInv'
  OBVIOUS
<1>0. TypeOK /\ depth \in Nat /\ MaxDepth \in Nat /\ depth <= MaxDepth
  BY BoundAssumption DEF IInv, TypeOK
<1>a. \A i \in 1..Len(tries) : tries[i].frame \in Nat /\ tries[i].frame <= depth
  <2>1. \A i \in 1..Len(tries) : tries[i] \in TryRec
    BY <1>0 DEF TypeOK
  <2> QED BY <1>0, <2>1 DEF TypeOK, TryRec
<1>1. CASE Call
  BY <1>0, <1>1, <1>a, StutterNext DEF Call, TypeOK
<1>b. ASSUME ~Here, depth > 0, NEW i \in 1..Len(tries) PROVE tries[i].frame <= depth - 1
  <2>1. tries # <<>>
    BY <1>0 DEF TypeOK
  <2>2. Top.frame # depth /\ Len(tries) \in 1..Len(tries) /\ Top = tries[Len(tries)] /\ Top.frame <= depth
    BY <1>0, <1>b, <2>1, TopRecord DEF Here
  <2>3. tries[i].frame <= Top.frame
    BY <1>a, <2>2, <1>0 DEF IInv, Ordered, TypeOK
  <2> QED BY <1>0, <1>a, <2>2, <2>3
<1>2. CASE Return
  <2>1. CASE depth = 0
    BY <1>0, <1>2, <1>a, <2>1, StutterNext DEF Return
  <2>2. CASE depth > 0
    BY <1>0, <1>2, <1>b, <2>2, StutterNext DEF Return, TypeOK
  <2> QED BY <1>0, <2>1, <2>2
<1>3. ASSUME NEW arms \in ArmLists, EnterTry(arms) PROVE IInv'
  <2> DEFINE r == [buf |-> next, old |-> cur, frame |-> depth, arms |-> arms,
                   arm |-> 0, busy |-> FALSE, missed |-> FALSE, ran |-> 0]
  <2>1. /\ tries' = Append(tries, r) /\ cur' = next /\ next' = next + 1
        /\ UNCHANGED <<depth, error, left, outcome>>
    BY <1>3 DEF EnterTry, EnterTrySaving
  <2>2. r \in TryRec
    BY <1>0 DEF TypeOK, TryRec
  <2>3. next \in Nat
    BY <1>0 DEF TypeOK
  <2>4. /\ tries' \in Seq(TryRec) /\ Len(tries') = Len(tries) + 1
        /\ tries'[Len(tries) + 1] = r
        /\ \A i \in 1..Len(tries) : tries'[i] = tries[i]
        /\ Ordered(tries', next + 1) /\ Chained(tries')
    BY <1>a, <2>1, <2>2, <2>3, Push DEF IInv, TypeOK, Within, NeverSkipsHandler
  <2>5. \A i \in 1..Len(tries') : i \in 1..Len(tries) \/ i = Len(tries) + 1
    BY <1>0, <2>4 DEF TypeOK
  <2>6. TypeOK'
    BY <1>0, <1>a, <2>1, <2>3, <2>4, <2>5 DEF TypeOK
  <2>7. NeverSkipsHandler'
    <3>1. \A i \in 1..Len(tries) : tries[i].buf # next
      BY <2>3 DEF IInv, Ordered, TypeOK, TryRec
    <3>2. next # NULL
      BY <2>3, NullAssumption
    <3> QED BY <2>1, <2>4, <2>5, <3>1, <3>2 DEF NeverSkipsHandler
  <2> QED BY <2>1, <2>3, <2>4, <2>6, <2>7 DEF IInv
<1>4. CASE LeaveTry
  <2>1. tries # <<>> /\ Top.frame = depth
    BY <1>4 DEF LeaveTry, Here
  <2>2. Len(tries) - 1 \in 0..Len(tries)
    BY <1>0, <2>1 DEF TypeOK
  <2>3. \A i \in 1..(Len(tries) - 1) : tries[i].frame <= depth
    BY <1>0, <1>a DEF TypeOK
  <2> QED BY <1>0, <1>4, <2>2, <2>3, CutNext DEF LeaveTry, PopTop, TypeOK
<1>5. CASE ReturnInTry
  <2>1. tries # <<>> /\ Top.frame = depth /\ Len(tries) \in 1..Len(tries)
    BY <1>0, <1>5, TopRecord DEF ReturnInTry, Here
  <2>2. PICK k \in 0..Len(tries) :
           /\ \A i \in 1..Len(tries) : i <= k <=> tries[i].frame < depth
           /\ tries' = SubSeq(tries, 1, k)
    BY <1>5 DEF ReturnInTry
  <2>3. k < Len(tries)
    BY <1>0, <2>1, <2>2 DEF Top
  <2>4. \A i \in 1..k : i \in 1..Len(tries) /\ tries[i].frame < depth
    BY <2>2
  <2>7. left' \in SUBSET {"ret", "break"}
    BY <1>0, <1>5 DEF ReturnInTry, TypeOK
  <2>5. CASE depth = 0
    BY <1>0, <1>5, <1>a, <2>2, <2>3, <2>4, <2>5, <2>7, CutNext DEF ReturnInTry
  <2>6. CASE depth > 0
    <3>1. depth' = depth - 1 /\ depth' \in 0..MaxDepth /\ outcome' = outcome
      BY <1>0, <1>5, <2>6 DEF ReturnInTry
    <3>2. \A i \in 1..k : tries[i].frame <= depth'
      BY <1>0, <1>a, <2>4, <3>1
    <3>3. outcome' \in {"running", "done"}
      BY <1>5, <3>1 DEF ReturnInTry, Running
    <3> QED BY <1>5, <2>2, <2>3, <2>7, <3>1, <3>2, <3>3, CutNext DEF ReturnInTry
  <2> QED BY <1>0, <2>5, <2>6
<1>6. CASE BreakOutOfTry
  <2>1. tries # <<>> /\ Top.frame = depth /\ Len(tries) \in Nat /\ Len(tries) \in 1..Len(tries)
    BY <1>0, <1>6, TopRecord DEF BreakOutOfTry, Here
  <2>2. Len(tries) - 1 \in 0..Len(tries) /\ Len(tries) - 1 < Len(tries)
    BY <2>1
  <2>3. \A i \in 1..(Len(tries) - 1) : tries[i].frame <= depth
    BY <2>1, <1>a
  <2> QED BY <1>0, <1>6, <2>2, <2>3, CutNext DEF BreakOutOfTry, PopTop, Running, TypeOK
<1>7. ASSUME NEW e \in Errors, Throw(e) PROVE IInv'
  <2>1. CASE cur = NULL
    BY <1>0, <1>a, <1>7, <2>1, StutterNext DEF Throw
  <2>2. ASSUME cur # NULL, NEW i \in 1..Len(tries), tries[i].buf = cur,
               tries' = [SubSeq(tries, 1, i) EXCEPT ![i].arm = 1, ![i].busy = FALSE,
                                                    ![i].missed = FALSE, ![i].ran = 0],
               depth' = tries[i].frame, UNCHANGED outcome
        PROVE  IInv'
    <3>1. i = Len(tries) /\ tries # <<>>
      BY <2>2, <1>0 DEF IInv, NeverSkipsHandler, TypeOK
    <3> DEFINE r == [Top EXCEPT !.arm = 1, !.busy = FALSE, !.missed = FALSE, !.ran = 0]
    <3>2. Top \in TryRec
      BY <1>0, <3>1, TopRecord
    <3>3. r \in TryRec /\ r.buf = Top.buf /\ r.old = Top.old /\ r.frame = Top.frame
      BY <3>2 DEF TryRec
    <3>4. tries' = SetTop(r)
      <4>1. SubSeq(tries, 1, i) = tries
        BY <1>0, <3>1 DEF TypeOK
      <4> QED BY <2>2, <3>1, <3>2, <4>1 DEF Top, SetTop, TryRec
    <3>5. error' = e /\ cur' = cur /\ next' = next /\ left' = left
      BY <1>7, <2>2 DEF Throw
    <3> HIDE DEF r
    <3>6. /\ tries' \in Seq(TryRec) /\ Len(tries') = Len(tries)
          /\ \A j \in 1..Len(tries) : /\ tries'[j].buf = tries[j].buf
                                      /\ tries'[j].old = tries[j].old
                                      /\ tries'[j].frame = tries[j].frame
          /\ Ordered(tries', next) /\ Chained(tries')
      BY <3>1, <3>3, <3>4, ChangeStack
    <3>7. \A j \in 1..Len(tries) : tries[j].frame <= tries[i].frame
      BY <1>0, <1>a, <3>1 DEF IInv, Ordered, TypeOK
    <3>8. depth' \in 0..MaxDepth
      BY <1>0, <1>a, <2>2
    <3>9. TypeOK'
      BY <1>0, <2>2, <3>5, <3>6, <3>7, <3>8 DEF TypeOK
    <3>10. NeverSkipsHandler'
      BY <1>0, <3>1, <3>5, <3>6 DEF IInv, NeverSkipsHandler, TypeOK
    <3> QED BY <3>5, <3>6, <3>9, <3>10 DEF IInv
  <2>3. ASSUME cur # NULL, outcome' = "undefined", UNCHANGED <<depth, tries>> PROVE IInv'
    <3>1. error' = e /\ cur' = cur /\ next' = next /\ left' = left
      BY <1>7, <2>3 DEF Throw
    <3>2. TypeOK'
      BY <1>0, <2>3, <3>1 DEF TypeOK
    <3> QED BY <2>3, <3>1, <3>2 DEF IInv, NeverSkipsHandler
  <2> QED BY <1>7, <2>1, <2>2, <2>3 DEF Throw
<1>8. CASE TestArm \/ FinishArm
  BY <1>0, <1>8, ArmStep, ChangeNext
<1>9. CASE UNCHANGED vars
  BY <1>0, <1>9, <1>a, StutterNext DEF vars, TypeOK
<1> QED
  BY <1>1, <1>2, <1>3, <1>4, <1>5, <1>6, <1>7, <1>8, <1>9 DEF Next
-----------------------------------------------------------------------------
(* The variables of TryCatch keep their types, and the activations their   *)
(* nesting, in every run of every program.                                 *)
THEOREM TypeCorrect == Spec => []TypeOK
<1>1. IInv => TypeOK
  BY DEF IInv
<1> QED BY InitIInv, IInvNext, <1>1, PTL DEF Spec

(* tc_throw never passes over an active handler (error.h, ST_TRY): for     *)
(* every program, whichever way it leaves its tries.                       *)
THEOREM NoHandlerSkipped == Spec => []NeverSkipsHandler
<1>1. IInv => NeverSkipsHandler
  BY DEF IInv
<1> QED BY InitIInv, IInvNext, <1>1, PTL DEF Spec

(* What each try saved, as long as no `ret` or `break` has left one.       *)
Restorable ==
    \A i \in 1..Len(tries) :
       tries[i].old = IF i = 1 THEN NULL ELSE tries[i - 1].buf

Exact == IInv /\ (left = {} => Restorable /\ CurIsTop)

LEMMA ExactNext == Exact /\ [Next]_vars => Exact'
<1> SUFFICES ASSUME Exact, [Next]_vars, left' = {} PROVE Restorable' /\ CurIsTop'
  BY IInvNext DEF Exact
<1>b. ~ReturnInTry /\ ~BreakOutOfTry
  BY DEF ReturnInTry, BreakOutOfTry
<1>c. left = {}
  <2>1. left' = left
    BY <1>b DEF Next, vars, Call, Return, EnterTry, EnterTrySaving, LeaveTry, Throw, TestArm, FinishArm
  <2> QED BY <2>1
<1>0. IInv /\ IInv' /\ TypeOK /\ Restorable /\ CurIsTop /\ Len(tries) \in Nat
  BY <1>c, IInvNext DEF Exact, IInv, TypeOK
<1>a. tries # <<>> => /\ Len(tries) \in 1..Len(tries) /\ Top = tries[Len(tries)]
                      /\ Top \in TryRec
  BY <1>0, TopRecord
<1>1. ASSUME UNCHANGED <<tries, cur>> PROVE Restorable' /\ CurIsTop'
  BY <1>0, <1>1 DEF Restorable, CurIsTop, Top
<1>2. ASSUME tries # <<>>, NEW r \in TryRec, tries' = SetTop(r), cur' = cur,
             r.buf = Top.buf, r.old = Top.old, r.frame = Top.frame
      PROVE  Restorable' /\ CurIsTop'
  <2>1. /\ Len(tries') = Len(tries) /\ tries' # <<>>
        /\ \A i \in 1..Len(tries) : /\ tries'[i].buf = tries[i].buf
                                    /\ tries'[i].old = tries[i].old
    BY <1>0, <1>2, ChangeStack
  <2>2. \A i \in 1..Len(tries) : i # 1 => i - 1 \in 1..Len(tries)
    BY <1>0
  <2> QED BY <1>0, <1>2, <1>a, <2>1, <2>2 DEF Restorable, CurIsTop, Top
<1>3. ASSUME NEW arms \in ArmLists, EnterTry(arms) PROVE Restorable' /\ CurIsTop'
  <2> DEFINE r == [buf |-> next, old |-> cur, frame |-> depth, arms |-> arms,
                   arm |-> 0, busy |-> FALSE, missed |-> FALSE, ran |-> 0]
  <2>1. tries' = Append(tries, r) /\ cur' = next
    BY <1>3 DEF EnterTry, EnterTrySaving
  <2>2. r.buf = next /\ r.old = cur
    OBVIOUS
  <2> HIDE DEF r
  <2>3. /\ Len(tries') = Len(tries) + 1 /\ tries'[Len(tries) + 1] = r
        /\ \A i \in 1..Len(tries) : tries'[i] = tries[i]
    BY <1>0, <2>1 DEF TypeOK
  <2>4. CurIsTop'
    BY <1>0, <2>1, <2>2, <2>3 DEF CurIsTop, Top
  <2>5. ASSUME NEW i \in 1..Len(tries')
        PROVE  tries'[i].old = IF i = 1 THEN NULL ELSE tries'[i - 1].buf
    <3>1. CASE i \in 1..Len(tries)
      <4>1. i # 1 => i - 1 \in 1..Len(tries)
        BY <1>0, <3>1
      <4> QED BY <1>0, <2>3, <3>1, <4>1 DEF Restorable
    <3>2. CASE i = Len(tries) + 1
      <4>1. tries = <<>> <=> i = 1
        BY <1>0, <3>2 DEF TypeOK
      <4>2. tries # <<>> => tries'[i - 1] = Top
        BY <1>0, <1>a, <2>3, <3>2
      <4> QED BY <1>0, <2>2, <2>3, <3>2, <4>1, <4>2 DEF CurIsTop
    <3> QED BY <1>0, <2>3, <3>1, <3>2
  <2> QED BY <2>4, <2>5 DEF Restorable
<1>4. CASE LeaveTry
  <2>1. tries # <<>> /\ tries' = SubSeq(tries, 1, Len(tries) - 1) /\ cur' = Top.old
    BY <1>4 DEF LeaveTry, Here, PopTop
  <2>2. /\ Len(tries') = Len(tries) - 1
        /\ \A i \in 1..(Len(tries) - 1) : tries'[i] = tries[i]
    <3>1. Len(tries) - 1 \in 0..Len(tries) /\ tries \in Seq(TryRec)
      BY <1>0, <1>a, <2>1 DEF TypeOK
    <3> QED BY <2>1, <3>1, Cut, <1>0 DEF IInv, TypeOK
  <2>3. Restorable'
    <3>1. \A i \in 1..(Len(tries) - 1) : i \in 1..Len(tries) /\ (i # 1 => i - 1 \in 1..(Len(tries) - 1))
      BY <1>0
    <3> QED BY <1>0, <2>2, <3>1 DEF Restorable
  <2>4. CASE Len(tries) = 1
    <3>1. tries' = <<>>
      BY <2>1, <2>4, <1>0 DEF TypeOK
    <3>2. Top.old = NULL
      BY <1>0, <1>a, <2>1, <2>4 DEF Restorable
    <3> QED BY <2>1, <2>3, <3>1, <3>2 DEF CurIsTop
  <2>5. CASE Len(tries) # 1
    <3>1. Len(tries) - 1 \in 1..(Len(tries) - 1) /\ tries' # <<>>
      <4> DEFINE n == Len(tries)
      <4>1. n \in Nat /\ n \in 1..n /\ n # 1
        BY <1>0, <1>a, <2>1, <2>5
      <4>2. Len(tries') = n - 1
        BY <2>2
      <4> HIDE DEF n
      <4>3. n - 1 \in 1..(n - 1) /\ Len(tries') # 0
        BY <4>1, <4>2
      <4>4. tries' # <<>>
        BY <4>3
      <4> QED BY <4>3, <4>4 DEF n
    <3>2. Top.old = tries[Len(tries) - 1].buf
      BY <1>0, <1>a, <2>1, <2>5 DEF Restorable
    <3>3. Top' = tries[Len(tries) - 1]
      BY <2>2, <3>1 DEF Top
    <3> QED BY <2>1, <2>3, <3>1, <3>2, <3>3 DEF CurIsTop
  <2> QED BY <2>4, <2>5
<1>5. ASSUME NEW e \in Errors, Throw(e) PROVE Restorable' /\ CurIsTop'
  <2>1. CASE UNCHANGED tries
    BY <1>1, <1>5, <2>1 DEF Throw
  <2>2. ASSUME NEW i \in 1..Len(tries), tries[i].buf = cur,
               tries' = [SubSeq(tries, 1, i) EXCEPT ![i].arm = 1, ![i].busy = FALSE,
                                                    ![i].missed = FALSE, ![i].ran = 0]
        PROVE  Restorable' /\ CurIsTop'
    <3>1. i = Len(tries) /\ tries # <<>>
      BY <1>0, <2>2 DEF IInv, NeverSkipsHandler
    <3> DEFINE r == [Top EXCEPT !.arm = 1, !.busy = FALSE, !.missed = FALSE, !.ran = 0]
    <3>2. r \in TryRec /\ r.buf = Top.buf /\ r.old = Top.old /\ r.frame = Top.frame
      BY <1>a, <3>1 DEF TryRec
    <3>3. tries' = SetTop(r)
      <4>1. SubSeq(tries, 1, i) = tries
        BY <1>0, <3>1 DEF TypeOK
      <4> QED BY <1>a, <2>2, <3>1, <4>1 DEF Top, SetTop, TryRec
    <3>4. cur' = cur
      BY <1>5 DEF Throw
    <3> HIDE DEF r
    <3> QED BY <1>2, <3>1, <3>2, <3>3, <3>4
  <2> QED BY <1>5, <2>1, <2>2 DEF Throw
<1>6. CASE TestArm \/ FinishArm
  BY <1>0, <1>2, <1>6, ArmStep
<1> QED
  <2>1. Call => UNCHANGED <<tries, cur>>
    BY DEF Call
  <2>2. Return => UNCHANGED <<tries, cur>>
    BY DEF Return
  <2>3. UNCHANGED vars => UNCHANGED <<tries, cur>>
    BY DEF vars
  <2> QED BY <1>1, <1>3, <1>4, <1>5, <1>6, <1>b, <2>1, <2>2, <2>3 DEF Next

(* As long as every try has been left by its end, g_current_try_buf is the *)
(* innermost active try (the save and restore of ST_TRY).                  *)
THEOREM HandlerExact == Spec => []HandlerIsInnermost
<1>1. Init => Exact
  BY InitIInv DEF Init, Exact, Restorable, CurIsTop
<1>2. Exact => HandlerIsInnermost
  BY DEF Exact, HandlerIsInnermost
<1> QED BY <1>1, <1>2, ExactNext, PTL DEF Spec

(* A throw jumps into a block that is gone only after a `ret` or `break`   *)
(* has left a try: otherwise it is caught, or reported as uncaught.        *)
THEOREM StrayThrows == Spec => []StrayThrowExplained
<1> DEFINE Inv == Exact /\ StrayThrowExplained
<1>1. Init => Inv
  BY InitIInv DEF Init, Exact, Restorable, CurIsTop, StrayThrowExplained
<1>2. Inv /\ [Next]_vars => Inv'
  <2> SUFFICES ASSUME Inv, [Next]_vars PROVE StrayThrowExplained'
    BY ExactNext
  <2>1. ASSUME NEW e \in Errors, Throw(e) PROVE StrayThrowExplained'
    <3>1. left = {} /\ cur # NULL => \E i \in 1..Len(tries) : tries[i].buf = cur
      <4>1. TypeOK /\ (left = {} => CurIsTop)
        BY DEF Exact, IInv
      <4> QED BY <4>1, TopRecord DEF CurIsTop
    <3> QED BY <2>1, <3>1 DEF Throw, StrayThrowExplained
  <2>2. ASSUME NEW arms \in ArmLists, EnterTry(arms) PROVE StrayThrowExplained'
    BY <2>2 DEF EnterTry, EnterTrySaving, StrayThrowExplained
  <2>3. Call \/ Return \/ LeaveTry \/ ReturnInTry \/ BreakOutOfTry => StrayThrowExplained'
    BY DEF Call, Return, LeaveTry, ReturnInTry, BreakOutOfTry, StrayThrowExplained
  <2>4. TestArm \/ FinishArm \/ UNCHANGED vars => StrayThrowExplained'
    BY DEF TestArm, FinishArm, vars, StrayThrowExplained
  <2> QED BY <2>1, <2>2, <2>3, <2>4 DEF Next
<1>3. Inv => StrayThrowExplained
  OBVIOUS
<1> QED BY <1>1, <1>2, <1>3, PTL DEF Spec
-----------------------------------------------------------------------------
(* The catch clause.  While no inner try has been entered, the record of a *)
(* try with error e remembers where the arm is that has run: it is the     *)
(* only one that e or the wildcard selects.                                *)
Selects(arms, j, e) == arms[j] = e \/ arms[j] = Wildcard

OneArm(t, e) ==
    /\ t.ran <= 1
    /\ t.arm = 0 => t.ran = 0 /\ ~t.busy
    /\ t.busy => /\ t.ran = 1 /\ ~t.missed
                 /\ t.arm \in 1..Len(t.arms) /\ Selects(t.arms, t.arm, e)
    /\ ~t.busy /\ t.ran = 1 =>
         \E j \in 1..Len(t.arms) : /\ j < t.arm /\ Selects(t.arms, j, e)
                                   /\ j + 1 = t.arm => ~t.missed

Fits(t, e, n) == Ambiguous(t.arms) \/ t.buf + 1 < n \/ OneArm(t, e)

ArmsInv == /\ SecondArmExplained
           /\ outcome = "running" => \A i \in 1..Len(tries) : Fits(tries[i], error, next)

(* No later test selects a second arm of an unambiguous clause.            *)
LEMMA NoSecond ==
    ASSUME NEW arms \in ArmLists, ~Ambiguous(arms), NEW e, NEW missed \in BOOLEAN,
           NEW k \in 1..Len(arms), NEW j \in 1..Len(arms), j < k, Selects(arms, j, e),
           j + 1 = k => ~missed
    PROVE  /\ arms[k] = Wildcard => ~missed
           /\ arms[k] # e
<1>1. Len(arms) \in Nat
  BY ArmsAssumption
<1>2. /\ arms[j] # Wildcard /\ arms[j] # arms[k]
      /\ arms[k] = Wildcard => ~(j + 1 < k)
  BY DEF Ambiguous
<1>3. arms[j] = e
  BY <1>2 DEF Selects
<1>4. arms[k] = Wildcard => j + 1 = k
  BY <1>1, <1>2
<1> QED BY <1>2, <1>3, <1>4

(* TestArm.                                                                *)
LEMMA TestFits ==
    ASSUME NEW t \in TryRec, NEW e, ~Ambiguous(t.arms), OneArm(t, e), ~t.busy,
           t.arm \in 1..Len(t.arms), NEW hit \in BOOLEAN,
           hit <=> IF t.arms[t.arm] = Wildcard THEN t.missed ELSE t.arms[t.arm] = e,
           NEW r \in TryRec, r.arms = t.arms,
           r.arm = (IF hit THEN t.arm ELSE t.arm + 1), r.busy = hit,
           r.missed = (t.arms[t.arm] # Wildcard /\ ~hit),
           r.ran = (IF hit THEN t.ran + 1 ELSE t.ran)
    PROVE  OneArm(r, e)
<1> DEFINE arms == t.arms
           k == t.arm
<1>0. /\ arms \in ArmLists /\ k \in 1..Len(arms) /\ k \in Nat /\ t.ran \in Nat /\ k # 0
      /\ Len(arms) \in Nat /\ t.missed \in BOOLEAN /\ k + 1 \in Nat
  BY ArmsAssumption DEF TryRec
<1>1. CASE hit
  <2>1. t.ran = 0
    <3> SUFFICES ASSUME t.ran # 0 PROVE FALSE
      OBVIOUS
    <3>1. t.ran = 1
      BY <1>0 DEF OneArm
    <3>2. PICK j \in 1..Len(arms) : j < k /\ Selects(arms, j, e) /\ (j + 1 = k => ~t.missed)
      BY <3>1 DEF OneArm
    <3>3. (arms[k] = Wildcard => ~t.missed) /\ arms[k] # e
      <4> HIDE DEF arms, k
      <4>1. ~Ambiguous(arms)
        BY DEF arms
      <4> QED BY <1>0, <3>2, <4>1, NoSecond
    <3> QED BY <1>1, <3>3
  <2>2. Selects(t.arms, t.arm, e)
    BY <1>1 DEF Selects
  <2>3. r.ran = 1 /\ r.arm = t.arm
    BY <1>1, <2>1
  <2>4. ~r.missed /\ r.busy
    BY <1>1
  <2>5. r.arm \in 1..Len(r.arms) /\ Selects(r.arms, r.arm, e) /\ r.arm # 0
    BY <1>0, <2>2, <2>3
  <2> QED BY <2>3, <2>4, <2>5 DEF OneArm
<1>2. CASE ~hit
  <2>1. r.ran = t.ran /\ r.arm = t.arm + 1 /\ ~r.busy /\ r.ran <= 1
    BY <1>2 DEF OneArm
  <2>2. ASSUME r.ran = 1
        PROVE  \E j \in 1..Len(r.arms) : /\ j < r.arm /\ Selects(r.arms, j, e)
                                         /\ j + 1 = r.arm => ~r.missed
    <3>1. PICK j \in 1..Len(t.arms) : j < t.arm /\ Selects(t.arms, j, e)
      BY <2>1, <2>2 DEF OneArm
    <3>2. j < r.arm /\ j + 1 # r.arm
      BY <1>0, <2>1, <3>1
    <3> QED BY <3>1, <3>2
  <2>3. r.arm # 0
    BY <1>0, <2>1
  <2> QED BY <2>1, <2>2, <2>3 DEF OneArm
<1> QED BY <1>1, <1>2

(* FinishArm.                                                              *)
LEMMA FinishFits ==
    ASSUME NEW t \in TryRec, NEW e, OneArm(t, e), t.busy,
           NEW r \in TryRec, r.arms = t.arms, r.arm = t.arm + 1, ~r.busy,
           r.missed = t.missed, r.ran = t.ran
    PROVE  OneArm(r, e)
<1>1. t.ran = 1 /\ ~t.missed /\ t.arm \in 1..Len(t.arms) /\ Selects(t.arms, t.arm, e)
  BY DEF OneArm
<1>2. t.arm < r.arm /\ r.arm # 0
  BY <1>1
<1> QED BY <1>1, <1>2 DEF OneArm
LEMMA FitsExplains ==
    ASSUME NEW t \in TryRec, NEW e, NEW n, Fits(t, e, n), t.ran > 1
    PROVE  Ambiguous(t.arms) \/ t.buf + 1 < n
<1>1. ~OneArm(t, e)
  BY DEF OneArm, TryRec
<1> QED BY <1>1 DEF Fits

(* A step that only leaves tries.                                          *)
LEMMA KeepArms ==
    ASSUME TypeOK, ArmsInv, NEW k \in 0..Len(tries), tries' = SubSeq(tries, 1, k), next' = next,
           outcome' = "running" => outcome = "running" /\ error' = error
    PROVE  ArmsInv'
<1>1. Len(tries') = k /\ \A i \in 1..k : i \in 1..Len(tries) /\ tries'[i] = tries[i]
  BY DEF TypeOK
<1>2. SecondArmExplained'
  BY <1>1 DEF ArmsInv, SecondArmExplained
<1>3. outcome' = "running" => \A i \in 1..Len(tries') : Fits(tries'[i], error', next')
  BY <1>1 DEF ArmsInv
<1> QED BY <1>2, <1>3 DEF ArmsInv

LEMMA SameArms ==
    ASSUME TypeOK, ArmsInv, UNCHANGED <<tries, next>>,
           outcome' = "running" => outcome = "running" /\ error' = error
    PROVE  ArmsInv'
<1>1. tries' = SubSeq(tries, 1, Len(tries)) /\ Len(tries) \in 0..Len(tries)
  BY DEF TypeOK
<1> QED BY <1>1, KeepArms

(* A step of the innermost try; an outer one has been entered before it.   *)
LEMMA TopArms ==
    ASSUME IInv, tries # <<>>, NEW r \in TryRec,
           r.buf = Top.buf, r.old = Top.old, r.frame = Top.frame, tries' = SetTop(r),
           next' = next, Fits(r, error', next)
    PROVE  ArmsInv'
<1>1. Len(tries) \in 1..Len(tries) /\ Len(tries) \in Nat /\ tries \in Seq(TryRec) /\ next \in Nat
  BY TopRecord DEF IInv, TypeOK
<1>2. /\ Len(tries') = Len(tries)
      /\ \A i \in 1..Len(tries) : tries'[i] = IF i = Len(tries) THEN r ELSE tries[i]
  BY <1>1 DEF SetTop
<1>3. ASSUME NEW i \in 1..Len(tries) PROVE Fits(tries'[i], error', next') /\ tries'[i] \in TryRec
  <2>1. CASE i = Len(tries)
    BY <1>2, <2>1
  <2>2. CASE i # Len(tries)
    <3>1. tries'[i] = tries[i] /\ i < Len(tries) /\ tries[i] \in TryRec /\ tries[Len(tries)] \in TryRec
      BY <1>1, <1>2, <2>2
    <3>2. tries[i].buf < tries[Len(tries)].buf /\ tries[Len(tries)].buf < next
      BY <1>1, <3>1 DEF IInv, Ordered
    <3>3. tries[i].buf \in Nat /\ tries[Len(tries)].buf \in Nat
      BY <3>1 DEF TryRec
    <3>4. \A a, b, c \in Nat : a < b /\ b < c => a + 1 < c
      OBVIOUS
    <3>5. tries[i].buf + 1 < next
      BY <1>1, <3>2, <3>3, <3>4
    <3> QED BY <3>1, <3>5 DEF Fits
  <2> QED BY <2>1, <2>2
<1>4. SecondArmExplained'
  BY <1>2, <1>3, FitsExplains DEF SecondArmExplained
<1> QED BY <1>2, <1>3, <1>4 DEF ArmsInv

LEMMA ArmsNext == IInv /\ ArmsInv /\ [Next]_vars => ArmsInv'
<1> SUFFICES ASSUME IInv, ArmsInv, [Next]_vars PROVE ArmsInv'
  OBVIOUS
<1>0. TypeOK /\ Len(tries) \in Nat /\ Len(tries) \in 0..Len(tries) /\ tries \in Seq(TryRec) /\ next \in Nat
  BY DEF IInv, TypeOK
<1>a. tries # <<>> => /\ Top \in TryRec /\ Top = tries[Len(tries)] /\ Len(tries) \in 1..Len(tries)
                      /\ Len(tries) - 1 \in 0..Len(tries)
  BY <1>0, TopRecord
<1>1. CASE Call \/ Return \/ UNCHANGED vars
  BY <1>0, <1>1, SameArms DEF Call, Return, vars, Running
<1>2. CASE LeaveTry \/ BreakOutOfTry
  BY <1>0, <1>a, <1>2, KeepArms DEF LeaveTry, BreakOutOfTry, Here, PopTop
<1>3. CASE ReturnInTry
  BY <1>0, <1>3, KeepArms DEF ReturnInTry, Running
<1>4. ASSUME NEW arms \in ArmLists, EnterTry(arms) PROVE ArmsInv'
  <2> DEFINE t == [buf |-> next, old |-> cur, frame |-> depth, arms |-> arms,
                   arm |-> 0, busy |-> FALSE, missed |-> FALSE, ran |-> 0]
  <2>1. tries' = Append(tries, t) /\ next' = next + 1 /\ error' = error
    BY <1>4 DEF EnterTry, EnterTrySaving
  <2>2. t \in TryRec /\ t.ran = 0 /\ OneArm(t, error)
    BY <1>0 DEF TypeOK, TryRec, OneArm
  <2> HIDE DEF t
  <2>3. /\ Len(tries') = Len(tries) + 1 /\ tries'[Len(tries) + 1] = t
        /\ \A i \in 1..Len(tries) : tries'[i] = tries[i] /\ tries[i] \in TryRec
    BY <1>0, <2>1, <2>2
  <2>4. ASSUME NEW i \in 1..Len(tries') PROVE Fits(tries'[i], error', next') /\ tries'[i] \in TryRec
    <3>1. CASE i = Len(tries) + 1
      BY <2>1, <2>2, <2>3, <3>1 DEF Fits
    <3>2. CASE i \in 1..Len(tries)
      <4>1. tries[i].buf < next /\ tries[i].buf \in Nat
        BY <2>3, <3>2 DEF IInv, Ordered, TryRec
      <4>2. tries[i].buf + 1 < next'
        BY <1>0, <2>1, <4>1
      <4> QED BY <2>3, <3>2, <4>2 DEF Fits
    <3> QED BY <1>0, <2>3, <3>1, <3>2
  <2>5. SecondArmExplained'
    BY <2>4, FitsExplains DEF SecondArmExplained
  <2> QED BY <2>4, <2>5 DEF ArmsInv
<1>5. ASSUME NEW e \in Errors, Throw(e) PROVE ArmsInv'
  <2>1. CASE outcome' # "running"
    BY <1>0, <1>5, <2>1, SameArms DEF Throw, Running
  <2>2. ASSUME outcome' = "running", NEW i \in 1..Len(tries), tries[i].buf = cur,
               tries' = [SubSeq(tries, 1, i) EXCEPT ![i].arm = 1, ![i].busy = FALSE,
                                                    ![i].missed = FALSE, ![i].ran = 0]
        PROVE  ArmsInv'
    <3>1. i = Len(tries) /\ tries # <<>>
      BY <1>0, <2>2 DEF IInv, NeverSkipsHandler
    <3> DEFINE r == [Top EXCEPT !.arm = 1, !.busy = FALSE, !.missed = FALSE, !.ran = 0]
    <3>2. r \in TryRec /\ r.buf = Top.buf /\ r.old = Top.old /\ r.frame = Top.frame
      BY <1>a, <3>1 DEF TryRec
    <3>a. r.arm = 1 /\ ~r.busy /\ r.ran = 0
      BY <1>a, <3>1 DEF TryRec
    <3>b. OneArm(r, error')
      <4> HIDE DEF r
      <4> QED BY <3>a DEF OneArm
    <3>3. tries' = SetTop(r)
      <4>1. SubSeq(tries, 1, i) = tries
        BY <1>0, <3>1
      <4> QED BY <1>a, <2>2, <3>1, <4>1 DEF Top, SetTop, TryRec
    <3>4. next' = next
      BY <1>5 DEF Throw
    <3> HIDE DEF r
    <3> QED BY <3>1, <3>2, <3>b, <3>3, <3>4, TopArms DEF Fits
  <2> QED BY <1>5, <2>1, <2>2 DEF Throw, Running
<1>6. CASE TestArm
  <2> DEFINE hit == ArmMatches(Top)
             at == IF hit THEN Top.arm ELSE Top.arm + 1
             missed == Top.arms[Top.arm] # Wildcard /\ ~hit
             ran == IF hit THEN Top.ran + 1 ELSE Top.ran
             r == [Top EXCEPT !.arm = at, !.busy = hit, !.missed = missed, !.ran = ran]
  <2>1. tries # <<>> /\ Top \in TryRec /\ ~Top.busy /\ Top.arm \in 1..Len(Top.arms)
    BY <1>a, <1>6, ArmsAssumption DEF TestArm, Testing, Here, TryRec
  <2>2. hit \in BOOLEAN /\ missed \in BOOLEAN /\ at \in Nat /\ ran \in Nat
    <3>1. hit \in BOOLEAN
      BY <2>1 DEF TryRec, ArmMatches
    <3>2. Top.arm \in Nat /\ Top.ran \in Nat
      BY <2>1 DEF TryRec
    <3>3. Top.arm + 1 \in Nat /\ Top.ran + 1 \in Nat
      BY <3>2
    <3> QED BY <3>1, <3>2, <3>3
  <2>3. hit <=> IF Top.arms[Top.arm] = Wildcard THEN Top.missed ELSE Top.arms[Top.arm] = error
    BY DEF ArmMatches
  <2>4. tries' = SetTop(r) /\ UNCHANGED <<error, next, outcome>> /\ outcome = "running"
    BY <1>6, <2>1 DEF TestArm, TryRec
  <2>5. /\ r \in TryRec /\ r.buf = Top.buf /\ r.old = Top.old /\ r.frame = Top.frame
        /\ r.arms = Top.arms /\ r.arm = at /\ r.busy = hit /\ r.missed = missed /\ r.ran = ran
    <3> HIDE DEF hit, at, missed, ran
    <3> QED BY <2>1, <2>2 DEF TryRec
  <2>6. Fits(r, error, next)
    <3>1. Fits(Top, error, next)
      BY <1>a, <2>1, <2>4 DEF ArmsInv
    <3> HIDE DEF hit, r
    <3>2. ~Ambiguous(Top.arms) /\ OneArm(Top, error) => OneArm(r, error)
      BY <2>1, <2>2, <2>3, <2>5, TestFits
    <3> QED BY <2>5, <3>1, <3>2 DEF Fits
  <2> HIDE DEF r
  <2> QED BY <2>1, <2>4, <2>5, <2>6, TopArms
<1>7. CASE FinishArm
  <2> DEFINE at == Top.arm + 1
             r == [Top EXCEPT !.arm = at, !.busy = FALSE]
  <2>1. tries # <<>> /\ Top \in TryRec /\ Top.busy
    BY <1>a, <1>7 DEF FinishArm, Here
  <2>2. tries' = SetTop(r) /\ UNCHANGED <<error, next, outcome>> /\ outcome = "running"
    BY <1>7, <2>1 DEF FinishArm, Running, TryRec
  <2>3. /\ r \in TryRec /\ r.buf = Top.buf /\ r.old = Top.old /\ r.frame = Top.frame
        /\ r.arms = Top.arms /\ r.arm = at /\ ~r.busy /\ r.missed = Top.missed /\ r.ran = Top.ran
    <3>1. at \in Nat
      BY <2>1 DEF TryRec
    <3> HIDE DEF at
    <3> QED BY <2>1, <3>1 DEF TryRec
  <2> HIDE DEF r
  <2>4. Fits(r, error, next)
    <3>1. Fits(Top, error, next)
      BY <1>a, <2>1, <2>2 DEF ArmsInv
    <3>2. OneArm(Top, error) => OneArm(r, error)
      BY <2>1, <2>3, FinishFits
    <3> QED BY <2>3, <3>1, <3>2 DEF Fits
  <2> QED BY <2>1, <2>2, <2>3, <2>4, TopArms
<1> QED
  BY <1>1, <1>2, <1>3, <1>4, <1>5, <1>6, <1>7 DEF Next

(* An error runs one arm of an unambiguous clause, though the arms are     *)
(* separate `if`s, unless an inner try has replaced its name (ST_TRY).     *)
THEOREM OneArmRuns == Spec => []SecondArmExplained
<1>1. Init => IInv /\ ArmsInv
  BY InitIInv DEF Init, ArmsInv, SecondArmExplained
<1>2. IInv /\ ArmsInv /\ [Next]_vars => IInv' /\ ArmsInv'
  BY IInvNext, ArmsNext
<1>3. ArmsInv => SecondArmExplained
  BY DEF ArmsInv
<1> QED BY <1>1, <1>2, <1>3, PTL DEF Spec
=============================================================================
