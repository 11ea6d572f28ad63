---------------------------- MODULE ProcedureProofs ----------------------------
(***************************************************************************)
(* Proofs about Procedure, for any included procedures, variables and      *)
(* threads.                                                                *)
(***************************************************************************)
EXTENDS Procedure, FiniteSetTheorems, SequenceLemmas

-----------------------------------------------------------------------------
(* Lists of calls                                                            *)

\* The recursive function in Flatten exists, so that it is what its equation says.
LEMMA FlattenEquation ==
  ASSUME NEW T, NEW ss \in Seq(Seq(T))
  PROVE  \E F : /\ F = [k \in 0 .. Len(ss) |-> IF k = 0 THEN << >> ELSE F[k - 1] \o ss[k]]
                /\ Flatten(ss) = F[Len(ss)]
<1> DEFINE Solves(F, n) == F = [k \in 0 .. n |-> IF k = 0 THEN << >> ELSE F[k - 1] \o ss[k]]
           Solvable == {n \in Nat : \E F : Solves(F, n)}
<1>1. 0 \in Solvable
  <2>1. Solves([k \in 0 .. 0 |-> << >>], 0)
    OBVIOUS
  <2> QED  BY <2>1
<1>2. ASSUME NEW n \in Solvable  PROVE n + 1 \in Solvable
  <2>1. n \in Nat /\ \E F : Solves(F, n)
    BY <1>2, Zenon
  <2> PICK F : Solves(F, n)
    BY <2>1
  <2> DEFINE G == [k \in 0 .. n + 1 |-> IF k <= n THEN F[k] ELSE F[n] \o ss[n + 1]]
  <2>2. ASSUME NEW k \in 0 .. n + 1
        PROVE  G[k] = IF k = 0 THEN << >> ELSE G[k - 1] \o ss[k]
    <3>1. n \in Nat /\ \A m \in 0 .. n : F[m] = IF m = 0 THEN << >> ELSE F[m - 1] \o ss[m]
      BY <2>1, Zenon
    <3> HIDE DEF Solves
    <3>2. CASE k = 0
      BY <3>1, <3>2
    <3>3. CASE k \in 1 .. n
      <4>1. G[k] = F[k] /\ G[k - 1] = F[k - 1]
        BY <3>1, <3>3
      <4> QED  BY <3>1, <3>3, <4>1
    <3>4. CASE k = n + 1
      <4>1. k # 0 /\ ~(k <= n) /\ k - 1 = n /\ n \in 0 .. n + 1 /\ n <= n
        BY <3>1, <3>4
      <4>2. G[n] = F[n]
        BY <4>1
      <4>3. G[k] = F[n] \o ss[n + 1]
        BY <4>1
      <4> QED  BY <3>4, <4>1, <4>2, <4>3
    <3> QED  BY <3>1, <3>2, <3>3, <3>4
  <2>3. Solves(G, n + 1)
    BY <2>2
  <2> HIDE DEF Solves, G
  <2> QED  BY <2>3
<1>3. Len(ss) \in Solvable
  <2> HIDE DEF Solvable
  <2>1. Solvable \in SUBSET Nat
    BY Zenon DEF Solvable
  <2>2. Len(ss) \in Nat
    OBVIOUS
  <2> QED  BY <1>1, <1>2, <2>1, <2>2, Induction
<1>4. PICK F : Solves(F, Len(ss))
  BY <1>3
<1>5. Flatten(ss) = (CHOOSE G : Solves(G, Len(ss)))[Len(ss)]
  BY DEF Flatten
<1>6. Solves(CHOOSE G : Solves(G, Len(ss)), Len(ss))
  <2> HIDE DEF Solves
  <2> QED  BY <1>4
<1> QED  BY <1>5, <1>6

\* The lists lie one behind the other in e: the k-th one begins behind off[k].
LaidOut(ss, e, off) ==
  /\ \A k \in 1 .. Len(ss) : \A j \in 1 .. Len(ss[k]) :
       /\ off[k] + j \in 1 .. Len(e)
       /\ e[off[k] + j] = ss[k][j]
  /\ \A p \in 1 .. Len(e) :
       \E k \in 1 .. Len(ss) : \E j \in 1 .. Len(ss[k]) : p = off[k] + j

\* That is how Flatten lays them out.
LEMMA FlattenParts ==
  ASSUME NEW T, NEW ss \in Seq(Seq(T))
  PROVE  /\ Flatten(ss) \in Seq(T)
         /\ \E off \in [1 .. Len(ss) -> Nat] : LaidOut(ss, Flatten(ss), off)
<1>1. PICK F : /\ F = [k \in 0 .. Len(ss) |-> IF k = 0 THEN << >> ELSE F[k - 1] \o ss[k]]
               /\ Flatten(ss) = F[Len(ss)]
  BY FlattenEquation
<1>2. /\ Len(ss) \in Nat
      /\ \A k \in 1 .. Len(ss) : ss[k] \in Seq(T)
  OBVIOUS
<1>3. F[0] = << >> /\ \A k \in 1 .. Len(ss) : F[k] = F[k - 1] \o ss[k]
  <2>1. \A k \in 0 .. Len(ss) : F[k] = IF k = 0 THEN << >> ELSE F[k - 1] \o ss[k]
    BY <1>1, Zenon
  <2>2. F[0] = << >>
    BY <1>2, <2>1
  <2>3. ASSUME NEW k \in 1 .. Len(ss)  PROVE F[k] = F[k - 1] \o ss[k]
    <3>1. k \in 0 .. Len(ss) /\ k # 0
      BY <1>2
    <3> QED  BY <2>1, <3>1, Zenon
  <2> QED  BY <2>2, <2>3
<1> DEFINE Laid(n) ==
             /\ \A k \in 0 .. n : F[k] \in Seq(T)
             /\ \A k \in 1 .. n : \A j \in 1 .. Len(ss[k]) :
                  /\ Len(F[k - 1]) + j \in 1 .. Len(F[n])
                  /\ F[n][Len(F[k - 1]) + j] = ss[k][j]
             /\ \A p \in 1 .. Len(F[n]) :
                  \E k \in 1 .. n : \E j \in 1 .. Len(ss[k]) : p = Len(F[k - 1]) + j
           Good == {n \in Nat : n <= Len(ss) => Laid(n)}
<1>4. 0 \in Good
  <2>1. F[0] \in Seq(T) /\ Len(F[0]) = 0
    BY <1>3
  <2>2. Laid(0)
    BY <2>1
  <2> QED  BY <2>2
<1>5. ASSUME NEW n \in Good  PROVE n + 1 \in Good
  <2>1. n \in Nat
    OBVIOUS
  <2> SUFFICES ASSUME n + 1 <= Len(ss)
               PROVE  Laid(n + 1)
    BY <2>1
  <2>2. Laid(n)
    BY <1>2, <2>1
  <2>3. n + 1 \in 1 .. Len(ss) /\ F[n + 1] = F[n] \o ss[n + 1] /\ ss[n + 1] \in Seq(T)
    <3> HIDE DEF Laid
    <3>1. n + 1 \in 1 .. Len(ss) /\ (n + 1) - 1 = n
      BY <1>2, <2>1
    <3>2. F[n + 1] = F[(n + 1) - 1] \o ss[n + 1]
      BY <1>3, <3>1, Zenon
    <3> QED  BY <1>2, <3>1, <3>2
  <2> DEFINE front == F[n]
             back  == ss[n + 1]
  <2>4. front \in Seq(T) /\ back \in Seq(T) /\ F[n + 1] = front \o back
    BY <2>1, <2>2, <2>3
  <2>5. /\ F[n + 1] \in Seq(T)
        /\ Len(F[n + 1]) = Len(front) + Len(back)
        /\ Len(front) \in Nat /\ Len(back) \in Nat
        /\ \A p \in 1 .. Len(front) : F[n + 1][p] = front[p]
        /\ \A j \in 1 .. Len(back) : F[n + 1][Len(front) + j] = back[j]
    <3> HIDE DEF front, back
    <3>1. /\ front \o back \in Seq(T)
          /\ Len(front \o back) = Len(front) + Len(back)
          /\ \A p \in 1 .. Len(front) + Len(back) :
               (front \o back)[p] = IF p <= Len(front) THEN front[p] ELSE back[p - Len(front)]
      BY <2>4, ConcatProperties
    <3>2. Len(front) \in Nat /\ Len(back) \in Nat
      BY <2>4
    <3>3. ASSUME NEW j \in 1 .. Len(back)  PROVE F[n + 1][Len(front) + j] = back[j]
      <4>1. /\ Len(front) + j \in 1 .. Len(front) + Len(back)
            /\ ~(Len(front) + j <= Len(front)) /\ (Len(front) + j) - Len(front) = j
        BY <3>2, <3>3
      <4> QED  BY <2>4, <3>1, <4>1
    <3> QED  BY <2>4, <3>1, <3>2, <3>3
  <2>6. ASSUME NEW k \in 0 .. n + 1  PROVE F[k] \in Seq(T)
    BY <2>1, <2>2, <2>5, <2>6
  <2>7. ASSUME NEW k \in 1 .. n + 1, NEW j \in 1 .. Len(ss[k])
        PROVE  /\ Len(F[k - 1]) + j \in 1 .. Len(F[n + 1])
               /\ F[n + 1][Len(F[k - 1]) + j] = ss[k][j]
    <3>1. CASE k \in 1 .. n
      <4>1. Len(F[k - 1]) + j \in 1 .. Len(front) /\ front[Len(F[k - 1]) + j] = ss[k][j]
        BY <2>2, <2>7, <3>1
      <4> DEFINE p == Len(F[k - 1]) + j
      <4>2. p \in 1 .. Len(front) /\ front[p] = ss[k][j]
        BY <4>1
      <4> HIDE DEF front, back, p, Laid
      <4>3. p \in 1 .. Len(F[n + 1]) /\ F[n + 1][p] = ss[k][j]
        BY <2>5, <4>2
      <4> QED  BY <4>3 DEF p
    <3>2. CASE k = n + 1
      <4>1. F[k - 1] = front /\ ss[k] = back
        BY <2>1, <3>2
      <4> HIDE DEF front, back
      <4> QED  BY <2>5, <2>7, <4>1
    <3> QED  BY <2>1, <2>7, <3>1, <3>2
  <2>8. ASSUME NEW p \in 1 .. Len(F[n + 1])
        PROVE  \E k \in 1 .. n + 1 : \E j \in 1 .. Len(ss[k]) : p = Len(F[k - 1]) + j
    <3>1. CASE p \in 1 .. Len(front)
      <4> PICK k \in 1 .. n : \E j \in 1 .. Len(ss[k]) : p = Len(F[k - 1]) + j
        BY <2>2, <3>1
      <4>1. k \in 1 .. n + 1
        BY <2>1
      <4> HIDE DEF Laid
      <4> QED  BY <4>1, Zenon
    <3>2. CASE p \notin 1 .. Len(front)
      <4>1. F[(n + 1) - 1] = front
        BY <2>1
      <4>2. p - Len(front) \in 1 .. Len(back) /\ p = Len(front) + (p - Len(front))
        <5> HIDE DEF front, back
        <5> QED  BY <2>5, <2>8, <3>2
      <4>3. n + 1 \in 1 .. n + 1 /\ ss[n + 1] = back
        BY <2>1
      <4> HIDE DEF front, back
      <4> WITNESS n + 1 \in 1 .. n + 1
      <4> QED  BY <4>1, <4>2, <4>3
    <3> QED  BY <3>1, <3>2
  <2> QED  BY <2>6, <2>7, <2>8
<1>6. Laid(Len(ss))
  <2> HIDE DEF Laid
  <2>1. Good \in SUBSET Nat
    OBVIOUS
  <2> HIDE DEF Good
  <2>2. Good = Nat
    BY <1>4, <1>5, <2>1, Induction
  <2> QED  BY <1>2, <2>2 DEF Good
<1> DEFINE off == [k \in 1 .. Len(ss) |-> Len(F[k - 1])]
<1>7. off \in [1 .. Len(ss) -> Nat]
  <2>1. ASSUME NEW k \in 1 .. Len(ss)  PROVE Len(F[k - 1]) \in Nat
    <3>1. k - 1 \in 0 .. Len(ss)
      BY <1>2
    <3> QED  BY <1>6, <3>1
  <2> QED  BY <1>2, <2>1
<1>8. \A k \in 1 .. Len(ss) : off[k] = Len(F[k - 1])
  BY <1>2
<1>9. Flatten(ss) \in Seq(T)
  BY <1>1, <1>2, <1>6
<1> HIDE DEF off, Good
<1>10. /\ \A k \in 1 .. Len(ss) : \A j \in 1 .. Len(ss[k]) :
            /\ off[k] + j \in 1 .. Len(Flatten(ss))
            /\ Flatten(ss)[off[k] + j] = ss[k][j]
       /\ \A p \in 1 .. Len(Flatten(ss)) :
            \E k \in 1 .. Len(ss) : \E j \in 1 .. Len(ss[k]) : p = off[k] + j
  <2>1. Flatten(ss) = F[Len(ss)]
    BY <1>1
  <2>2. ASSUME NEW k \in 1 .. Len(ss), NEW j \in 1 .. Len(ss[k])
        PROVE  off[k] + j \in 1 .. Len(Flatten(ss)) /\ Flatten(ss)[off[k] + j] = ss[k][j]
    BY <1>6, <1>8, <2>1, <2>2
  <2>3. ASSUME NEW p \in 1 .. Len(Flatten(ss))
        PROVE  \E k \in 1 .. Len(ss) : \E j \in 1 .. Len(ss[k]) : p = off[k] + j
    <3> PICK k \in 1 .. Len(ss) : \E j \in 1 .. Len(ss[k]) : p = Len(F[k - 1]) + j
      BY <1>6, <2>1
    <3> HIDE DEF Laid
    <3> QED  BY <1>8, Zenon
  <2> QED  BY <2>2, <2>3
<1>11. LaidOut(ss, Flatten(ss), off)
  BY <1>10 DEF LaidOut
<1> QED  BY <1>7, <1>9, <1>11
-----------------------------------------------------------------------------
(* The inductive invariant: what the calls that the job has still to make    *)
(* say of the workspaces.                                                    *)

Left == 1 .. Len(agenda[Job])
Nth(k) == agenda[Job][k]
Pending(op, x) == \E k \in Left : Nth(k) = <<op, x>>

SetupSteps == {"SetupImpl", "accept"}
TeardownSteps == {"TeardownImpl", "reject"}

\* The job has calls to make in those phases only that end with the last one.
Busy == agenda[Job] # << >> <=> phase \in {"setup", "resetting", "destroying"}

\* A worker that is not at work calls nothing.  None is at work until the job runs,
\* and none is left once a reset has waited for them.
IdleWorkers == \A u \in Workers : place[u] = None => agenda[u] = << >>
Quiet == \A u \in Workers : place[u] = None
QuietPhases ==
  /\ phase \in {"new", "setup", "ready"} => Quiet
  /\ phase = "resetting" /\ (~overlapped \/ ~Pending("ResetRoot", None)) => Quiet

\* What is kept to be torn down is what is set up, and what was skipped.
Count(w, i) == (IF i \in tearDown[w] THEN 1 ELSE 0) - (IF i \in skipped[w] THEN 1 ELSE 0)

Balance ==
  \A w \in Files :
    /\ \A i \in Identifiers(w) : active[w][i] = Count(w, i)
    /\ ~done[w] => tearDown[w] = {} \/ skipped[w] # {}
    /\ done[w] => skipped[w] = {}
    /\ done[w] /\ w \notin destroyed => tearDown[w] = Identifiers(w)

\* An included workspace is set up only after its procedure was loaded, and is in the
\* cache for as long as it has actions to undo.
Held ==
  \A w \in Files \ {Main} :
    /\ tearDown[w] # {} => w \in cached
    /\ \A k \in Left : Nth(k) \in {<<"Setup", w>>, <<"setupActions", w>>} =>
         w \in cached \/ \E j \in 1 .. k - 1 : Nth(j) = <<"LoadProcedure", w>>

\* The set-up of a workspace that has begun is under way until its actions are run;
\* the tear-down of its variables is not interrupted either.
SetupShape ==
  \A k \in Left, w \in Files : Nth(k) = <<"setupActions", w>> =>
    ~done[w] /\ \A j \in 1 .. k - 1 : Nth(j)[1] \in SetupSteps

TeardownShape ==
  \A k \in Left : Nth(k)[1] \in TeardownSteps =>
    /\ \A j \in 1 .. k - 1 : Nth(j)[1] \in TeardownSteps
    /\ \A w \in Files : Nth(k)[2] \in Vars(w) => ~done[w]

\* Procedures are loaded, and workspaces set up first, by the constructor.
Constructing == /\ \A k \in Left : Nth(k)[1] = "LoadProcedure" => phase = "setup"
                /\ phase = "new" => \A w \in Files : ~done[w]

\* A job that is being destroyed sets nothing up any more.
Destroying ==
  /\ \A k \in Left : Nth(k)[1] = "TearDownProcedures" =>
       phase = "destroying" /\ k = Len(agenda[Job]) - 1
  /\ destroyed # {} => /\ phase \in {"destroying", "gone"}
                       /\ ~Pending("TearDownProcedures", None)
  /\ phase \in {"destroying", "gone"} =>
       /\ \A k \in Left : \/ Nth(k)[1] \in TeardownSteps
                          \/ Nth(k) \in {<<"Teardown", Main>>, <<"TearDownProcedures", None>>,
                                        <<"ResetRoot", None>>}
       /\ tearDown[Main] # {} => Pending("Teardown", Main)
       /\ cached # {} => Pending("TearDownProcedures", None)

\* A workspace that instructions execute in is set up, or is going to be; and what is
\* going to be torn down is set up after that.
Prepared ==
  phase \in {"setup", "resetting", "ready", "running", "finished"} =>
    \A w \in Executing :
      /\ done[w] \/ Pending("Setup", w) \/ Pending("setupActions", w)
      /\ \A k \in Left : Nth(k) = <<"Teardown", w>> =>
           \E j \in k + 1 .. Len(agenda[Job]) : Nth(j) = <<"Setup", w>>

\* A reset keeps the workspace of the job torn down until the workers have ended.
MainWaits ==
  phase = "resetting" => \A m \in Left : Nth(m) = <<"ResetRoot", None>> =>
    /\ ~done[Main] \/ \E j \in 1 .. m - 1 : Nth(j) = <<"Teardown", Main>>
    /\ \A j \in 1 .. m - 1 : Nth(j) \notin {<<"Setup", Main>>, <<"setupActions", Main>>}

\* A workspace that is set up, or is in the middle of it, has variables that are
\* as new or will be, unless it is about to be torn down.
Settled(w) ==
  \/ Pending("Teardown", w)
  \/ done[w] \/ Pending("setupActions", w) =>
       \A v \in Vars(w) : /\ value[v] = "initial" \/ Pending("SetupImpl", v)
                          /\ up[v] \/ Pending("accept", v)

Settling ==
  /\ phase = "setup" => \A w \in Files : Settled(w)
  /\ phase \in {"resetting", "ready"} =>
       /\ ~Pending("ResetRoot", None) => Settled(Main)
       /\ ~overlapped => \A w \in cached : Settled(w)

IInv == /\ TypeOK /\ IsFiniteSet(cached)
        /\ Busy /\ IdleWorkers /\ QuietPhases /\ Balance /\ Held /\ SetupShape /\ TeardownShape
        /\ Constructing /\ Destroying /\ Prepared /\ MainWaits /\ Settling

\* After a set-up action was skipped, the job can only be destroyed.
CutShort == (\E w \in Files : skipped[w] # {}) => phase \in {"failed", "destroying", "gone"}
-----------------------------------------------------------------------------
(* How the agenda of the job goes on.                                        *)

\* The calls that take the place of the first one, and then the others as before.
LEMMA Advance ==
  ASSUME TypeOK, NEW op, NEW x, Calls(Job, op, x), NEW new \in Seq(Call), Make(Job, new)
  PROVE  /\ agenda' \in [Threads -> Seq(Call)]
         /\ \A u \in Workers : agenda'[u] = agenda[u]
         /\ Len(new) \in Nat /\ Len(agenda[Job]) \in Nat
         /\ Len(agenda'[Job]) = Len(agenda[Job]) + Len(new) - 1
         /\ 1 \in Left /\ Nth(1) = <<op, x>>
         /\ \A k \in 1 .. Len(new) : k \in Left' /\ agenda'[Job][k] = new[k]
         /\ \A k \in Left : k # 1 => /\ Len(new) + k - 1 \in Left'
                                    /\ agenda'[Job][Len(new) + k - 1] = agenda[Job][k]
         /\ \A k \in Left' : k \notin 1 .. Len(new) =>
              /\ k - Len(new) + 1 \in Left \ {1}
              /\ agenda'[Job][k] = agenda[Job][k - Len(new) + 1]
         /\ phase' = IF agenda'[Job] = << >> THEN EndOf[phase] ELSE phase
<1> DEFINE q == agenda[Job]
           r == agenda'[Job]
<1>1. /\ agenda \in [Threads -> Seq(Call)] /\ Job \in Threads /\ Job \notin Workers
      /\ Workers \subseteq Threads
  BY ProcedureAssumption DEF TypeOK, Threads
<1>2. q \in Seq(Call) /\ q # << >> /\ Head(q) = <<op, x>>
  BY <1>1 DEF Calls
<1>3. r = new \o Tail(q) /\ \A u \in Workers : agenda'[u] = agenda[u]
  BY <1>1 DEF Make
<1>4. phase' = IF r = << >> THEN EndOf[phase] ELSE phase
  BY <1>1, <1>3 DEF Make
<1>5. agenda' \in [Threads -> Seq(Call)]
  <2>1. new \o Tail(q) \in Seq(Call)
    BY <1>2, FirstReplaced
  <2> QED  BY <1>1, <2>1 DEF Make
<1> HIDE DEF q, r
<1>6. /\ Len(r) = Len(new) + Len(q) - 1
      /\ \A k \in 1 .. Len(new) : r[k] = new[k]
      /\ \A k \in 2 .. Len(q) : r[Len(new) + k - 1] = q[k]
  BY <1>2, <1>3, FirstReplaced
<1>7. Len(new) \in Nat /\ Len(q) \in Nat /\ Len(q) >= 1 /\ q[1] = <<op, x>>
  BY <1>2
<1>8. \A k \in 1 .. Len(new) : k \in 1 .. Len(r)
  BY <1>6, <1>7
<1>9. ASSUME NEW k \in 1 .. Len(q), k # 1
      PROVE  Len(new) + k - 1 \in 1 .. Len(r) /\ r[Len(new) + k - 1] = q[k]
  BY <1>6, <1>7, <1>9
<1>10. ASSUME NEW k \in 1 .. Len(r), k \notin 1 .. Len(new)
       PROVE  k - Len(new) + 1 \in (1 .. Len(q)) \ {1} /\ r[k] = q[k - Len(new) + 1]
  <2> DEFINE m == k - Len(new) + 1
  <2>1. m \in 2 .. Len(q) /\ Len(new) + m - 1 = k
    BY <1>6, <1>7, <1>10
  <2> HIDE DEF m
  <2>2. r[k] = q[m] /\ m \in (1 .. Len(q)) \ {1}
    BY <1>6, <2>1, SMTT(40)
  <2> QED  BY <2>2 DEF m
<1> QED
  BY <1>3, <1>4, <1>5, <1>6, <1>7, <1>8, <1>9, <1>10, SMTT(40) DEF q, r, Left, Nth
-----------------------------------------------------------------------------
(* What the calls are that take the place of the first one.                  *)

\* A pair of calls for each element of a sequence, one behind the other.
PairedIn(e, n, a, b) ==
  /\ \A k \in 1 .. n : \E p \in 1 .. Len(e) :
       e[p] = a[k] /\ p + 1 \in 1 .. Len(e) /\ e[p + 1] = b[k]
  /\ \A p \in 1 .. Len(e) : \E k \in 1 .. n :
       \/ e[p] = a[k] /\ p + 1 \in 1 .. Len(e) /\ e[p + 1] = b[k]
       \/ e[p] = b[k]

LEMMA Pairs ==
  ASSUME NEW T, NEW n \in Nat, NEW a \in [1 .. n -> T], NEW b \in [1 .. n -> T],
         NEW e, e = Flatten([k \in 1 .. n |-> <<a[k], b[k]>>])
  PROVE  e \in Seq(T) /\ PairedIn(e, n, a, b)
<1> DEFINE ss == [k \in 1 .. n |-> <<a[k], b[k]>>]
<1>1. \A k \in 1 .. n : ss[k] = <<a[k], b[k]>> /\ ss[k] \in Seq(T) /\ Len(ss[k]) = 2
                        /\ ss[k][1] = a[k] /\ ss[k][2] = b[k]
  OBVIOUS
<1>2. ss \in [1 .. n -> Seq(T)]
  BY <1>1
<1>3. ss \in Seq(Seq(T)) /\ Len(ss) = n
  BY <1>2
<1>4. e = Flatten(ss)
  OBVIOUS
<1> HIDE DEF ss
<1>5. /\ Flatten(ss) \in Seq(T)
      /\ \E off \in [1 .. Len(ss) -> Nat] : LaidOut(ss, Flatten(ss), off)
  <2>1. ss \in Seq(Seq(T))
    BY <1>3
  <2> QED  BY <2>1, FlattenParts, Zenon
<1> PICK off \in [1 .. Len(ss) -> Nat] : LaidOut(ss, Flatten(ss), off)
  BY <1>5
<1>6. /\ off \in [1 .. n -> Nat]
      /\ \A k \in 1 .. n : \A j \in 1 .. Len(ss[k]) :
           off[k] + j \in 1 .. Len(e) /\ e[off[k] + j] = ss[k][j]
      /\ \A p \in 1 .. Len(e) :
           \E k \in 1 .. n : \E j \in 1 .. Len(ss[k]) : p = off[k] + j
  BY <1>3, <1>4 DEF LaidOut
<1>7. ASSUME NEW k \in 1 .. n
      PROVE  /\ off[k] + 1 \in 1 .. Len(e) /\ e[off[k] + 1] = a[k]
             /\ off[k] + 2 \in 1 .. Len(e) /\ e[off[k] + 2] = b[k]
             /\ off[k] + 2 = (off[k] + 1) + 1
  <2>1. Len(ss[k]) = 2 /\ 1 \in 1 .. 2 /\ 2 \in 1 .. 2 /\ off[k] \in Nat
    BY <1>1, <1>6
  <2>2. off[k] + 1 \in 1 .. Len(e) /\ e[off[k] + 1] = ss[k][1]
    BY <1>6, <2>1
  <2>3. off[k] + 2 \in 1 .. Len(e) /\ e[off[k] + 2] = ss[k][2]
    BY <1>6, <2>1
  <2>4. off[k] + 2 = (off[k] + 1) + 1
    BY <2>1
  <2> QED  BY <1>1, <2>2, <2>3, <2>4
<1>8. ASSUME NEW k \in 1 .. n
      PROVE  \E p \in 1 .. Len(e) : e[p] = a[k] /\ p + 1 \in 1 .. Len(e) /\ e[p + 1] = b[k]
  <2>1. off[k] + 1 \in 1 .. Len(e)
    BY <1>7
  <2> WITNESS off[k] + 1 \in 1 .. Len(e)
  <2> QED  BY <1>7
<1>9. ASSUME NEW p \in 1 .. Len(e)
      PROVE  \E k \in 1 .. n : \/ e[p] = a[k] /\ p + 1 \in 1 .. Len(e) /\ e[p + 1] = b[k]
                               \/ e[p] = b[k]
  <2> PICK k \in 1 .. n : \E j \in 1 .. Len(ss[k]) : p = off[k] + j
    BY <1>6
  <2>1. p = off[k] + 1 \/ p = off[k] + 2
    <3> PICK j \in 1 .. Len(ss[k]) : p = off[k] + j
      OBVIOUS
    <3>1. Len(ss[k]) = 2
      BY <1>1
    <3>2. j = 1 \/ j = 2
      BY <3>1
    <3> QED  BY <3>2
  <2> WITNESS k \in 1 .. n
  <2> QED  BY <1>7, <2>1
<1> QED  BY <1>4, <1>5, <1>8, <1>9 DEF PairedIn

\* Workspace::Setup sets every variable up.
LEMMA SetupList ==
  ASSUME NEW w \in Files, NEW e, e = Each(VariablesOf[w], SetupCalls)
  PROVE  /\ e \in Seq(Call)
         /\ \A p \in 1 .. Len(e) : e[p][1] \in SetupSteps
         /\ \A v \in Vars(w) : /\ \E p \in 1 .. Len(e) : e[p] = <<"SetupImpl", v>>
                               /\ \E p \in 1 .. Len(e) : e[p] = <<"accept", v>>
<1> DEFINE n == Len(VariablesOf[w])
           a == [k \in 1 .. n |-> <<"SetupImpl", VariablesOf[w][k]>>]
           b == [k \in 1 .. n |-> <<"accept", VariablesOf[w][k]>>]
<1>1. VariablesOf[w] \in Seq(Vars(w)) /\ Vars(w) \subseteq Variables
  BY ProcedureAssumption DEF Variables
<1>2. n \in Nat /\ DOMAIN VariablesOf[w] = 1 .. n /\ \A k \in 1 .. n : VariablesOf[w][k] \in Vars(w)
  BY <1>1
<1>3. a \in [1 .. n -> Call] /\ b \in [1 .. n -> Call]
  BY <1>1, <1>2 DEF Call, Operation
<1>4. e = Flatten([k \in 1 .. n |-> <<a[k], b[k]>>])
  <2>1. [k \in 1 .. n |-> <<a[k], b[k]>>] = [k \in DOMAIN VariablesOf[w] |-> SetupCalls(VariablesOf[w][k])]
    BY <1>2 DEF SetupCalls
  <2> QED  BY <2>1 DEF Each
<1>5. /\ \A k \in 1 .. n : a[k] = <<"SetupImpl", VariablesOf[w][k]>> /\ b[k] = <<"accept", VariablesOf[w][k]>>
      /\ \A v \in Vars(w) : \E k \in 1 .. n : v = VariablesOf[w][k]
  BY <1>2 DEF Vars
<1> HIDE DEF a, b, n
<1>6. e \in Seq(Call) /\ PairedIn(e, n, a, b)
  <2>1. n \in Nat
    BY <1>2
  <2> QED  BY <1>3, <1>4, <2>1, Pairs, Zenon
<1>7. ASSUME NEW p \in 1 .. Len(e)  PROVE e[p][1] \in SetupSteps
  <2> PICK k \in 1 .. n : e[p] = a[k] \/ e[p] = b[k]
    BY <1>6 DEF PairedIn
  <2> QED  BY <1>5 DEF SetupSteps
<1>8. ASSUME NEW v \in Vars(w)
      PROVE  /\ \E p \in 1 .. Len(e) : e[p] = <<"SetupImpl", v>>
             /\ \E p \in 1 .. Len(e) : e[p] = <<"accept", v>>
  <2> PICK k \in 1 .. n : v = VariablesOf[w][k]
    BY <1>5
  <2> PICK p \in 1 .. Len(e) : e[p] = a[k] /\ p + 1 \in 1 .. Len(e) /\ e[p + 1] = b[k]
    BY <1>6 DEF PairedIn
  <2>1. e[p] = <<"SetupImpl", v>> /\ e[p + 1] = <<"accept", v>>
    BY <1>5
  <2> QED  BY <2>1
<1> QED  BY <1>6, <1>7, <1>8

\* Workspace::Teardown tears down its own variables.
LEMMA TeardownList ==
  ASSUME NEW w \in Files, NEW e, e = Each(VariablesOf[w], TeardownCalls)
  PROVE  /\ e \in Seq(Call)
         /\ \A p \in 1 .. Len(e) : e[p][1] \in TeardownSteps /\ e[p][2] \in Vars(w)
<1> DEFINE n == Len(VariablesOf[w])
           a == [k \in 1 .. n |-> <<"TeardownImpl", VariablesOf[w][k]>>]
           b == [k \in 1 .. n |-> <<"reject", VariablesOf[w][k]>>]
<1>1. VariablesOf[w] \in Seq(Vars(w)) /\ Vars(w) \subseteq Variables
  BY ProcedureAssumption DEF Variables
<1>2. n \in Nat /\ DOMAIN VariablesOf[w] = 1 .. n /\ \A k \in 1 .. n : VariablesOf[w][k] \in Vars(w)
  BY <1>1
<1>3. a \in [1 .. n -> Call] /\ b \in [1 .. n -> Call]
  BY <1>1, <1>2 DEF Call, Operation
<1>4. e = Flatten([k \in 1 .. n |-> <<a[k], b[k]>>])
  <2>1. [k \in 1 .. n |-> <<a[k], b[k]>>] = [k \in DOMAIN VariablesOf[w] |-> TeardownCalls(VariablesOf[w][k])]
    BY <1>2 DEF TeardownCalls
  <2> QED  BY <2>1 DEF Each
<1>5. \A k \in 1 .. n : a[k] = <<"TeardownImpl", VariablesOf[w][k]>> /\ b[k] = <<"reject", VariablesOf[w][k]>>
  OBVIOUS
<1> HIDE DEF a, b, n
<1>6. e \in Seq(Call) /\ PairedIn(e, n, a, b)
  <2>1. n \in Nat
    BY <1>2
  <2> QED  BY <1>3, <1>4, <2>1, Pairs, Zenon
<1>7. ASSUME NEW p \in 1 .. Len(e)  PROVE e[p][1] \in TeardownSteps /\ e[p][2] \in Vars(w)
  <2> PICK k \in 1 .. n : e[p] = a[k] \/ e[p] = b[k]
    BY <1>6 DEF PairedIn
  <2> QED  BY <1>2, <1>5 DEF TeardownSteps
<1> QED  BY <1>6, <1>7

\* Every included workspace that is cached is reset, its set-up after its tear-down.
ResetsCached(e) ==
  /\ e \in Seq(Call)
  /\ \A f \in cached : \E p \in 1 .. Len(e) : e[p] = <<"Teardown", f>>
  /\ \A p \in 1 .. Len(e) : \E f \in cached :
       \/ e[p] = <<"Teardown", f>> /\ p + 1 \in 1 .. Len(e) /\ e[p + 1] = <<"Setup", f>>
       \/ e[p] = <<"Setup", f>>

LEMMA ResetList ==
  ASSUME IsFiniteSet(cached), cached \subseteq Included, NEW fs \in Orders(cached),
         NEW e, e = Each(fs, ResetWorkspace)
  PROVE  ResetsCached(e)
<1> DEFINE n == Cardinality(cached)
           a == [k \in 1 .. n |-> <<"Teardown", fs[k]>>]
           b == [k \in 1 .. n |-> <<"Setup", fs[k]>>]
<1>1. n \in Nat
  BY FS_CardinalityType
<1>2. fs \in [1 .. n -> cached] /\ \A i, j \in 1 .. n : i # j => fs[i] # fs[j]
  BY <1>1 DEF Orders
<1>3. a \in [1 .. n -> Call] /\ b \in [1 .. n -> Call]
  BY <1>2 DEF Call, Operation, Files
<1>4. e = Flatten([k \in 1 .. n |-> <<a[k], b[k]>>])
  <2>1. [k \in 1 .. n |-> <<a[k], b[k]>>] = [k \in DOMAIN fs |-> ResetWorkspace(fs[k])]
    BY <1>2 DEF ResetWorkspace
  <2> QED  BY <2>1 DEF Each
<1>5. \A k \in 1 .. n : a[k] = <<"Teardown", fs[k]>> /\ b[k] = <<"Setup", fs[k]>>
  OBVIOUS
<1>6. \A f \in cached : \E k \in 1 .. n : f = fs[k]
  <2>1. IsFiniteSet(1 .. n) /\ Cardinality(1 .. n) = n
    <3>1. /\ IsFiniteSet(1 .. n)
          /\ Cardinality(1 .. n) = IF 1 > n THEN 0 ELSE n - 1 + 1
      BY <1>1, FS_Interval
    <3> QED  BY <1>1, <3>1
  <2>2. fs \in Injection(1 .. n, cached)
    BY <1>2 DEF Injection, IsInjective
  <2>3. fs \in Surjection(1 .. n, cached)
    BY <2>1, <2>2, FS_Injection
  <2> QED  BY <2>3 DEF Surjection
<1> HIDE DEF a, b, n
<1>7. e \in Seq(Call) /\ PairedIn(e, n, a, b)
  BY <1>1, <1>3, <1>4, Pairs, Zenon
<1>8. ASSUME NEW f \in cached  PROVE \E p \in 1 .. Len(e) : e[p] = <<"Teardown", f>>
  <2> PICK k \in 1 .. n : f = fs[k]
    BY <1>6
  <2> PICK p \in 1 .. Len(e) : e[p] = a[k]
    BY <1>7 DEF PairedIn
  <2> QED  BY <1>5
<1>9. ASSUME NEW p \in 1 .. Len(e)
      PROVE  \E f \in cached :
              \/ /\ e[p] = <<"Teardown", f>>
                 /\ p + 1 \in 1 .. Len(e) /\ e[p + 1] = <<"Setup", f>>
              \/ e[p] = <<"Setup", f>>
  <2> PICK k \in 1 .. n : \/ e[p] = a[k] /\ p + 1 \in 1 .. Len(e) /\ e[p + 1] = b[k]
                          \/ e[p] = b[k]
    BY <1>7 DEF PairedIn
  <2>1. fs[k] \in cached
    BY <1>2
  <2> WITNESS fs[k] \in cached
  <2> QED  BY <1>5
<1> QED  BY <1>7, <1>8, <1>9 DEF ResetsCached

\* The constructor loads a procedure before it sets up its workspace, and sets up those
\* in which instructions execute.
LoadsAndSetsUp(e) ==
  /\ e \in Seq(Call)
  /\ \A w \in Executing \ {Main} : \E p \in 1 .. Len(e) : e[p] = <<"Setup", w>>
  /\ \A p \in 1 .. Len(e) : \E f \in Files :
       \/ e[p] = <<"LoadProcedure", f>>
       \/ /\ e[p] = <<"Setup", f>>
          /\ p - 1 \in 1 .. Len(e) /\ e[p - 1] = <<"LoadProcedure", f>>

LEMMA ConstructList ==
  ASSUME NEW e, e = Each(Uses, SetupUse)
  PROVE  LoadsAndSetsUp(e)
<1> DEFINE ss == [k \in 1 .. Len(Uses) |-> SetupUse(Uses[k])]
<1>1. /\ Len(Uses) \in Nat /\ DOMAIN Uses = 1 .. Len(Uses)
      /\ \A k \in 1 .. Len(Uses) : Uses[k][2] \in Files
  BY ProcedureAssumption
<1>2. ASSUME NEW k \in 1 .. Len(Uses)
      PROVE  /\ SetupUse(Uses[k]) \in Seq(Call)
             /\ SetupUse(Uses[k])[1] = <<"LoadProcedure", Uses[k][2]>>
             /\ Uses[k][1] = "Include" => Len(SetupUse(Uses[k])) = 1
             /\ Uses[k][1] # "Include" => /\ Len(SetupUse(Uses[k])) = 2
                                          /\ SetupUse(Uses[k])[2] = <<"Setup", Uses[k][2]>>
  <2>1. /\ <<"LoadProcedure", Uses[k][2]>> \in Call
        /\ <<"Setup", Uses[k][2]>> \in Call
    BY <1>1 DEF Call, Operation
  <2>2. CASE Uses[k][1] = "Include"
    <3>1. SetupUse(Uses[k]) = << <<"LoadProcedure", Uses[k][2]>> >>
      BY <2>2, OneConcat DEF SetupUse
    <3> QED  BY <2>1, <2>2, <3>1
  <2>3. CASE Uses[k][1] # "Include"
    <3>1. SetupUse(Uses[k]) = << <<"LoadProcedure", Uses[k][2]>>, <<"Setup", Uses[k][2]>> >>
      BY <2>3, OneConcat DEF SetupUse
    <3> QED  BY <2>1, <2>3, <3>1
  <2> QED  BY <2>2, <2>3
<1>3. ss \in Seq(Seq(Call)) /\ Len(ss) = Len(Uses)
  <2>1. ss \in [1 .. Len(Uses) -> Seq(Call)]
    BY <1>2
  <2> HIDE DEF ss
  <2> QED  BY <1>1, <2>1
<1>4. e = Flatten(ss)
  BY <1>1 DEF Each
<1>5. \A k \in 1 .. Len(Uses) : ss[k] = SetupUse(Uses[k])
  OBVIOUS
<1> HIDE DEF ss
<1>6. e \in Seq(Call) /\ \E off \in [1 .. Len(ss) -> Nat] : LaidOut(ss, e, off)
  <2>1. ss \in Seq(Seq(Call))
    BY <1>3
  <2>2. Flatten(ss) \in Seq(Call) /\ \E off \in [1 .. Len(ss) -> Nat] : LaidOut(ss, Flatten(ss), off)
    BY <2>1, FlattenParts, Zenon
  <2> QED  BY <1>4, <2>2, Zenon
<1> PICK off \in [1 .. Len(ss) -> Nat] : LaidOut(ss, e, off)
  BY <1>6
<1>7. ASSUME NEW k \in 1 .. Len(Uses)
      PROVE  /\ off[k] \in Nat
             /\ off[k] + 1 \in 1 .. Len(e) /\ e[off[k] + 1] = <<"LoadProcedure", Uses[k][2]>>
             /\ Uses[k][1] # "Include" =>
                  off[k] + 2 \in 1 .. Len(e) /\ e[off[k] + 2] = <<"Setup", Uses[k][2]>>
  <2>1. off[k] \in Nat /\ k \in 1 .. Len(ss)
    BY <1>3
  <2>2. \A j \in 1 .. Len(ss[k]) : off[k] + j \in 1 .. Len(e) /\ e[off[k] + j] = ss[k][j]
    BY <2>1 DEF LaidOut
  <2>3. 1 \in 1 .. Len(ss[k]) /\ (Uses[k][1] # "Include" => 2 \in 1 .. Len(ss[k]))
    BY <1>2, <1>5
  <2>4. off[k] + 1 \in 1 .. Len(e) /\ e[off[k] + 1] = SetupUse(Uses[k])[1]
    BY <1>5, <2>2, <2>3
  <2>5. Uses[k][1] # "Include" =>
          off[k] + 2 \in 1 .. Len(e) /\ e[off[k] + 2] = SetupUse(Uses[k])[2]
    BY <1>5, <2>2, <2>3
  <2> QED  BY <1>2, <2>1, <2>4, <2>5
<1>8. ASSUME NEW w \in Executing \ {Main}
      PROVE  \E p \in 1 .. Len(e) : e[p] = <<"Setup", w>>
  <2> PICK k \in 1 .. Len(Uses) : Uses[k][1] # "Include" /\ w = Uses[k][2]
    BY <1>1 DEF Executing
  <2> QED  BY <1>7
<1>9. ASSUME NEW p \in 1 .. Len(e)
      PROVE  \E f \in Files :
              \/ e[p] = <<"LoadProcedure", f>>
              \/ /\ e[p] = <<"Setup", f>>
                 /\ p - 1 \in 1 .. Len(e) /\ e[p - 1] = <<"LoadProcedure", f>>
  <2>0. \E k \in 1 .. Len(ss) : \E j \in 1 .. Len(ss[k]) : p = off[k] + j
    BY DEF LaidOut
  <2>1. PICK k \in 1 .. Len(Uses) : \E j \in 1 .. Len(ss[k]) : p = off[k] + j
    BY <1>3, <2>0
  <2> PICK j \in 1 .. Len(ss[k]) : p = off[k] + j
    BY <2>1
  <2>2. Uses[k][2] \in Files
    BY <1>1
  <2> WITNESS Uses[k][2] \in Files
  <2>3. off[k] \in Nat /\ (j = 1 \/ (j = 2 /\ Uses[k][1] # "Include"))
    <3>1. Len(ss[k]) = 1 \/ (Len(ss[k]) = 2 /\ Uses[k][1] # "Include")
      BY <1>2, <1>5
    <3>2. CASE Len(ss[k]) = 1
      <4>1. j \in 1 .. 1
        BY <3>2
      <4> QED  BY <1>7, <4>1
    <3>3. CASE Len(ss[k]) = 2 /\ Uses[k][1] # "Include"
      <4>1. j \in 1 .. 2
        BY <3>3
      <4> QED  BY <1>7, <3>3, <4>1
    <3> QED  BY <3>1, <3>2, <3>3
  <2>4. CASE j = 1
    BY <1>7, <2>4
  <2>5. CASE j = 2 /\ Uses[k][1] # "Include"
    <3>1. p - 1 = off[k] + 1 /\ p = off[k] + 2
      BY <2>3, <2>5
    <3> QED  BY <1>7, <2>5, <3>1
  <2> QED  BY <2>3, <2>4, <2>5
<1> QED  BY <1>6, <1>8, <1>9 DEF LoadsAndSetsUp

-----------------------------------------------------------------------------
(* The calls of the job that return.                                         *)

LEMMA Returned ==
  ASSUME TypeOK, NEW op, NEW x, Calls(Job, op, x), Return(Job)
  PROVE  /\ agenda' \in [Threads -> Seq(Call)]
         /\ \A u \in Workers : agenda'[u] = agenda[u]
         /\ Len(agenda[Job]) \in Nat /\ Len(agenda'[Job]) = Len(agenda[Job]) - 1
         /\ 1 \in Left /\ Nth(1) = <<op, x>>
         /\ \A k \in Left : k # 1 => k - 1 \in Left' /\ agenda'[Job][k - 1] = agenda[Job][k]
         /\ \A k \in Left' : k + 1 \in Left \ {1} /\ agenda'[Job][k] = agenda[Job][k + 1]
         /\ \A o, y : Pending(o, y)' => Pending(o, y)
         /\ \A o, y : Pending(o, y) /\ <<o, y>> # <<op, x>> => Pending(o, y)'
         /\ phase' = IF agenda'[Job] = << >> THEN EndOf[phase] ELSE phase
<1>1. << >> \in Seq(Call) /\ Make(Job, << >>) /\ Len(<< >>) = 0
  BY DEF Return
<1>2. /\ agenda' \in [Threads -> Seq(Call)]
      /\ \A u \in Workers : agenda'[u] = agenda[u]
      /\ Len(<< >>) \in Nat /\ Len(agenda[Job]) \in Nat
      /\ Len(agenda'[Job]) = Len(agenda[Job]) + Len(<< >>) - 1
      /\ 1 \in Left /\ Nth(1) = <<op, x>>
      /\ \A k \in 1 .. Len(<< >>) : k \in Left' /\ agenda'[Job][k] = << >>[k]
      /\ \A k \in Left : k # 1 => /\ Len(<< >>) + k - 1 \in Left'
                                  /\ agenda'[Job][Len(<< >>) + k - 1] = agenda[Job][k]
      /\ \A k \in Left' : k \notin 1 .. Len(<< >>) =>
              /\ k - Len(<< >>) + 1 \in Left \ {1}
              /\ agenda'[Job][k] = agenda[Job][k - Len(<< >>) + 1]
      /\ phase' = IF agenda'[Job] = << >> THEN EndOf[phase] ELSE phase
  BY <1>1, Advance, Zenon
<1>3. Len(agenda[Job]) \in Nat /\ Len(agenda'[Job]) = Len(agenda[Job]) - 1
  BY <1>1, <1>2
<1>4. ASSUME NEW k \in Left, k # 1
      PROVE  k - 1 \in Left' /\ agenda'[Job][k - 1] = agenda[Job][k]
  <2>1. k \in Int /\ 0 + k - 1 = k - 1
    BY DEF Left
  <2>2. 0 + k - 1 \in Left' /\ agenda'[Job][0 + k - 1] = agenda[Job][k]
    BY <1>1, <1>2, <1>4, Zenon
  <2> QED  BY <2>1, <2>2
<1>5. ASSUME NEW k \in Left'
      PROVE  k + 1 \in Left \ {1} /\ agenda'[Job][k] = agenda[Job][k + 1]
  <2>1. k \in Int /\ k - 0 + 1 = k + 1 /\ k \notin 1 .. 0
    BY DEF Left
  <2>2. k - 0 + 1 \in Left \ {1} /\ agenda'[Job][k] = agenda[Job][k - 0 + 1]
    BY <1>1, <1>2, <2>1, Zenon
  <2> QED  BY <2>1, <2>2
<1>6. ASSUME NEW o, NEW y, Pending(o, y)'  PROVE Pending(o, y)
  BY <1>5, <1>6 DEF Pending, Nth
<1>7. ASSUME NEW o, NEW y, Pending(o, y), <<o, y>> # <<op, x>>  PROVE Pending(o, y)'
  <2> PICK k \in Left : Nth(k) = <<o, y>>
    BY <1>7 DEF Pending
  <2>1. k # 1
    BY <1>2, <1>7
  <2> QED  BY <1>4, <2>1 DEF Pending, Nth
<1> QED  BY <1>2, <1>3, <1>4, <1>5, <1>6, <1>7

\* A call that returns loads, sets up and tears down what its name says and nothing
\* else.  (Teardown and TearDownProcedures are not of this kind.)
Does(op, x) ==
  /\ op \notin {"Teardown", "TearDownProcedures"}
  /\ op = "ResetRoot" => Quiet
  /\ UNCHANGED <<place, overlapped, destroyed>>
  /\ cached' = cached \union {f \in Files \ {Main} : <<op, x>> = <<"LoadProcedure", f>>}
  /\ \A w \in Files :
       /\ done[w] => done'[w]
       /\ done'[w] => done[w] \/ <<op, x>> = <<"setupActions", w>>
       /\ <<op, x>> \in {<<"Setup", w>>, <<"setupActions", w>>} => done'[w]
       /\ tearDown'[w] = IF <<op, x>> = <<"setupActions", w>> THEN Identifiers(w) ELSE tearDown[w]
  /\ \A v \in Variables :
       /\ value[v] = "initial" \/ <<op, x>> = <<"SetupImpl", v>> =>
            value'[v] = "initial" \/ (op \in TeardownSteps /\ x = v)
       /\ up[v] \/ <<op, x>> = <<"accept", v>> => up'[v] \/ (op \in TeardownSteps /\ x = v)

\* Such a call leaves the invariant but for what the variables are like.
LEMMA ReturnKeeps ==
  ASSUME IInv, NEW op, NEW x, Calls(Job, op, x), Return(Job), Does(op, x)
  PROVE  Busy' /\ IdleWorkers' /\ QuietPhases' /\ Held' /\ SetupShape' /\ TeardownShape'
         /\ Constructing' /\ Destroying' /\ Prepared' /\ MainWaits'
<1>0. /\ op \notin {"Teardown", "TearDownProcedures"}
      /\ op = "ResetRoot" => Quiet
      /\ UNCHANGED <<place, overlapped, destroyed>>
      /\ cached' = cached \union {f \in Files \ {Main} : <<op, x>> = <<"LoadProcedure", f>>}
      /\ \A w \in Files :
           /\ done[w] => done'[w]
           /\ done'[w] => done[w] \/ <<op, x>> = <<"setupActions", w>>
           /\ <<op, x>> \in {<<"Setup", w>>, <<"setupActions", w>>} => done'[w]
           /\ tearDown'[w] = IF <<op, x>> = <<"setupActions", w>> THEN Identifiers(w) ELSE tearDown[w]
  BY Zenon DEF Does
<1> USE <1>0
<1>1. /\ agenda' \in [Threads -> Seq(Call)]
      /\ \A u \in Workers : agenda'[u] = agenda[u]
      /\ Len(agenda[Job]) \in Nat /\ Len(agenda'[Job]) = Len(agenda[Job]) - 1
      /\ 1 \in Left /\ Nth(1) = <<op, x>>
      /\ \A k \in Left : k # 1 => k - 1 \in Left' /\ agenda'[Job][k - 1] = agenda[Job][k]
      /\ \A k \in Left' : k + 1 \in Left \ {1} /\ agenda'[Job][k] = agenda[Job][k + 1]
      /\ \A o, y : Pending(o, y)' => Pending(o, y)
      /\ \A o, y : Pending(o, y) /\ <<o, y>> # <<op, x>> => Pending(o, y)'
      /\ phase' = IF agenda'[Job] = << >> THEN EndOf[phase] ELSE phase
  BY Returned, Zenon DEF IInv
<1>2. phase \in {"setup", "resetting", "destroying"}
  BY <1>1 DEF IInv, Busy, Left, Calls
<1>3. /\ agenda'[Job] # << >> => phase' = phase
      /\ agenda'[Job] = << >> =>
           phase' = CASE phase = "setup" -> "ready" [] phase = "resetting" -> "ready"
                      [] phase = "destroying" -> "gone"
  BY <1>1, <1>2 DEF EndOf
<1>4. Busy'
  BY <1>2, <1>3 DEF Busy
<1>5. IdleWorkers'
  BY <1>1 DEF IdleWorkers, IInv
<1>6. agenda'[Job] = << >> => \A o, y : ~Pending(o, y)'
  BY DEF Pending, Left
<1>7. QuietPhases'
  <2>1. phase = "setup" => Quiet
    BY DEF IInv, QuietPhases
  <2>2. ASSUME phase = "resetting", ~overlapped \/ ~Pending("ResetRoot", None)'  PROVE Quiet
    <3>1. CASE op = "ResetRoot"
      BY <3>1
    <3>2. CASE op # "ResetRoot"
      <4>1. ~overlapped \/ ~Pending("ResetRoot", None)
        BY <1>1, <2>2, <3>2
      <4> QED  BY <2>2, <4>1 DEF IInv, QuietPhases
    <3> QED  BY <3>1, <3>2
  <2>3. Quiet' <=> Quiet
    BY DEF Quiet
  <2> QED  BY <1>2, <1>3, <1>6, <2>1, <2>2, <2>3 DEF QuietPhases
<1>8. Held'
  <2>1. \A w \in Files \ {Main} : tearDown'[w] # {} => w \in cached'
    <3> TAKE w \in Files \ {Main}
    <3>1. <<op, x>> = <<"setupActions", w>> => w \in cached \/ \E j \in 1 .. 0 : Nth(j) = <<"LoadProcedure", w>>
      BY <1>1 DEF IInv, Held
    <3> QED  BY <3>1 DEF IInv, Held
  <2>2. ASSUME NEW w \in Files \ {Main}, NEW k \in Left',
               agenda'[Job][k] \in {<<"Setup", w>>, <<"setupActions", w>>}
        PROVE  w \in cached' \/ \E j \in 1 .. k - 1 : agenda'[Job][j] = <<"LoadProcedure", w>>
    <3>1. w \in cached \/ \E j \in 1 .. (k + 1) - 1 : Nth(j) = <<"LoadProcedure", w>>
      BY <1>1, <2>2 DEF IInv, Held, Nth
    <3>2. CASE w \in cached
      BY <3>2
    <3>3. ASSUME NEW j \in 1 .. (k + 1) - 1, Nth(j) = <<"LoadProcedure", w>>
          PROVE  w \in cached' \/ \E i \in 1 .. k - 1 : agenda'[Job][i] = <<"LoadProcedure", w>>
      <4>1. k \in Int /\ k + 1 \in Left /\ j \in Left
        BY <1>1 DEF Left
      <4>2. CASE j = 1
        BY <1>1, <3>3, <4>2
      <4>3. CASE j # 1
        <5>1. j - 1 \in 1 .. k - 1 /\ agenda'[Job][j - 1] = <<"LoadProcedure", w>>
          BY <1>1, <3>3, <4>1, <4>3 DEF Nth
        <5> QED  BY <5>1
      <4> QED  BY <4>2, <4>3
    <3> QED  BY <3>1, <3>2, <3>3
  <2> QED  BY <2>1, <2>2 DEF Held, Nth
<1>9. SetupShape'
  <2> SUFFICES ASSUME NEW k \in Left', NEW w \in Files, agenda'[Job][k] = <<"setupActions", w>>
               PROVE  ~done'[w] /\ \A j \in 1 .. k - 1 : agenda'[Job][j][1] \in SetupSteps
    BY DEF SetupShape, Nth
  <2>1. k + 1 \in Left \ {1} /\ Nth(k + 1) = <<"setupActions", w>>
    BY <1>1 DEF Nth
  <2>2. ~done[w] /\ \A j \in 1 .. (k + 1) - 1 : Nth(j)[1] \in SetupSteps
    BY <2>1 DEF IInv, SetupShape
  <2>3. op \in SetupSteps
    BY <1>1, <2>1, <2>2 DEF Left
  <2>4. ASSUME NEW j \in 1 .. k - 1  PROVE agenda'[Job][j][1] \in SetupSteps
    <3>1. j \in Left' /\ j + 1 \in 1 .. (k + 1) - 1
      BY <2>1 DEF Left
    <3> QED  BY <1>1, <2>2, <3>1, SMTT(40) DEF Nth
  <2> QED  BY <2>2, <2>3, <2>4 DEF SetupSteps
<1>10. TeardownShape'
  <2> SUFFICES ASSUME NEW k \in Left', agenda'[Job][k][1] \in TeardownSteps
               PROVE  /\ \A j \in 1 .. k - 1 : agenda'[Job][j][1] \in TeardownSteps
                      /\ \A w \in Files : agenda'[Job][k][2] \in Vars(w) => ~done'[w]
    BY DEF TeardownShape, Nth
  <2>1. k + 1 \in Left \ {1} /\ Nth(k + 1)[1] \in TeardownSteps /\ Nth(k + 1) = agenda'[Job][k]
    BY <1>1 DEF Nth
  <2>2. /\ \A j \in 1 .. (k + 1) - 1 : Nth(j)[1] \in TeardownSteps
        /\ \A w \in Files : Nth(k + 1)[2] \in Vars(w) => ~done[w]
    BY <2>1 DEF IInv, TeardownShape
  <2>3. op \in TeardownSteps
    BY <1>1, <2>1, <2>2 DEF Left
  <2>4. ASSUME NEW j \in 1 .. k - 1  PROVE agenda'[Job][j][1] \in TeardownSteps
    <3>1. j \in Left' /\ j + 1 \in 1 .. (k + 1) - 1
      BY <2>1 DEF Left
    <3> QED  BY <1>1, <2>2, <3>1 DEF Nth
  <2> QED  BY <2>1, <2>2, <2>3, <2>4 DEF TeardownSteps
<1>11. Constructing'
  <2>1. \A k \in Left' : agenda'[Job][k][1] = "LoadProcedure" => phase = "setup" /\ agenda'[Job] # << >>
    <3> TAKE k \in Left'
    <3>1. agenda'[Job] # << >>
      BY DEF Left
    <3>2. agenda'[Job][k][1] = "LoadProcedure" => phase = "setup"
      BY <1>1 DEF IInv, Constructing, Nth
    <3> QED  BY <3>1, <3>2
  <2> QED  BY <1>2, <1>3, <2>1 DEF Constructing, Nth
<1>12. Destroying'
  <2>1. \A k \in Left' : agenda'[Job][k][1] = "TearDownProcedures" =>
          phase' = "destroying" /\ k = Len(agenda'[Job]) - 1
    <3> TAKE k \in Left'
    <3> HAVE agenda'[Job][k][1] = "TearDownProcedures"
    <3>1. k \in Int /\ k + 1 \in Left /\ Nth(k + 1)[1] = "TearDownProcedures" /\ agenda'[Job] # << >>
      BY <1>1 DEF Left, Nth
    <3>2. phase = "destroying" /\ k + 1 = Len(agenda[Job]) - 1
      BY <3>1 DEF IInv, Destroying
    <3> QED  BY <1>1, <1>3, <3>1, <3>2
  <2>2. phase' \in {"destroying", "gone"} <=> phase = "destroying"
    BY <1>2, <1>3
  <2>3. destroyed # {} => phase = "destroying" /\ ~Pending("TearDownProcedures", None)'
    BY <1>1, <1>2 DEF IInv, Destroying
  <2>4. ASSUME phase = "destroying"
        PROVE  /\ \A k \in Left' :
                    \/ agenda'[Job][k][1] \in TeardownSteps
                    \/ agenda'[Job][k] \in {<<"Teardown", Main>>, <<"TearDownProcedures", None>>,
                                            <<"ResetRoot", None>>}
               /\ tearDown'[Main] # {} => Pending("Teardown", Main)'
               /\ cached' # {} => Pending("TearDownProcedures", None)'
    <3>1. /\ \A k \in Left : \/ Nth(k)[1] \in TeardownSteps
                             \/ Nth(k) \in {<<"Teardown", Main>>, <<"TearDownProcedures", None>>,
                                            <<"ResetRoot", None>>}
          /\ tearDown[Main] # {} => Pending("Teardown", Main)
          /\ cached # {} => Pending("TearDownProcedures", None)
      BY <2>4 DEF IInv, Destroying
    <3>2. op \in TeardownSteps \union {"ResetRoot"}
      BY <1>1, <3>1
    <3>3. Main \in Files /\ tearDown'[Main] = tearDown[Main]
      BY <3>2 DEF Files, TeardownSteps
    <3>4. cached' = cached
      BY <3>2 DEF TeardownSteps
    <3> QED  BY <1>1, <3>1, <3>2, <3>3, <3>4, ZenonT(60) DEF TeardownSteps, Nth
  <2> QED  BY <2>1, <2>2, <2>3, <2>4 DEF Destroying, Nth
<1>13. Prepared'
  <2> SUFFICES ASSUME phase' \in {"setup", "resetting", "ready"}, NEW w \in Executing
               PROVE  /\ done'[w] \/ Pending("Setup", w)' \/ Pending("setupActions", w)'
                      /\ \A k \in Left' : agenda'[Job][k] = <<"Teardown", w>> =>
                           \E j \in k + 1 .. Len(agenda'[Job]) : agenda'[Job][j] = <<"Setup", w>>
    BY <1>2, <1>3 DEF Prepared, Nth
  <2>1. w \in Files
    BY ProcedureAssumption DEF Executing, Files
  <2>2. /\ done[w] \/ Pending("Setup", w) \/ Pending("setupActions", w)
        /\ \A k \in Left : Nth(k) = <<"Teardown", w>> =>
             \E j \in k + 1 .. Len(agenda[Job]) : Nth(j) = <<"Setup", w>>
    BY <1>2, <1>3 DEF IInv, Prepared
  <2>3. done'[w] \/ Pending("Setup", w)' \/ Pending("setupActions", w)'
    BY <1>1, <2>1, <2>2
  <2>4. ASSUME NEW k \in Left', agenda'[Job][k] = <<"Teardown", w>>
        PROVE  \E j \in k + 1 .. Len(agenda'[Job]) : agenda'[Job][j] = <<"Setup", w>>
    <3>1. k \in Int /\ k + 1 \in Left /\ Nth(k + 1) = <<"Teardown", w>>
      <4>1. k \in Int
        BY DEF Left
      <4> QED  BY <1>1, <2>4, <4>1 DEF Nth
    <3> PICK j \in (k + 1) + 1 .. Len(agenda[Job]) : Nth(j) = <<"Setup", w>>
      BY <2>2, <3>1
    <3>2. j \in Left /\ j # 1 /\ j - 1 \in k + 1 .. Len(agenda'[Job])
      BY <1>1, <3>1 DEF Left
    <3> QED  BY <1>1, <3>2 DEF Nth
  <2> QED  BY <2>3, <2>4
<1>14. MainWaits'
  <2> SUFFICES ASSUME phase' = "resetting", NEW m \in Left', agenda'[Job][m] = <<"ResetRoot", None>>
               PROVE  /\ ~done'[Main] \/ \E j \in 1 .. m - 1 : agenda'[Job][j] = <<"Teardown", Main>>
                      /\ \A j \in 1 .. m - 1 : agenda'[Job][j] \notin {<<"Setup", Main>>, <<"setupActions", Main>>}
    BY DEF MainWaits, Nth
  <2>1. m \in Int /\ m + 1 \in Left \ {1} /\ Nth(m + 1) = <<"ResetRoot", None>> /\ Main \in Files
    BY <1>1 DEF Left, Nth, Files
  <2>2. /\ ~done[Main] \/ \E j \in 1 .. (m + 1) - 1 : Nth(j) = <<"Teardown", Main>>
        /\ \A j \in 1 .. (m + 1) - 1 : Nth(j) \notin {<<"Setup", Main>>, <<"setupActions", Main>>}
    BY <1>2, <1>3, <2>1 DEF IInv, MainWaits
  <2>3. \A j \in 1 .. m - 1 : agenda'[Job][j] \notin {<<"Setup", Main>>, <<"setupActions", Main>>}
    <3> TAKE j \in 1 .. m - 1
    <3>1. j \in Left' /\ j + 1 \in 1 .. (m + 1) - 1
      BY <2>1 DEF Left
    <3> QED  BY <1>1, <2>2, <3>1 DEF Nth
  <2>4. <<op, x>> # <<"setupActions", Main>>
    <3>1. 1 \in 1 .. (m + 1) - 1
      BY <2>1 DEF Left
    <3> QED  BY <1>1, <2>2, <3>1
  <2>5. ASSUME NEW j \in 1 .. (m + 1) - 1, Nth(j) = <<"Teardown", Main>>
        PROVE  \E i \in 1 .. m - 1 : agenda'[Job][i] = <<"Teardown", Main>>
    <3>1. j # 1
      BY <1>1, <2>5
    <3>2. j \in Left /\ j - 1 \in 1 .. m - 1
      BY <2>1, <3>1 DEF Left
    <3> QED  BY <1>1, <2>5, <3>1, <3>2 DEF Nth
  <2> QED  BY <2>1, <2>2, <2>3, <2>4, <2>5
<1> QED
  BY <1>4, <1>5, <1>7, <1>8, <1>9, <1>10, <1>11, <1>12, <1>13, <1>14

\* It leaves variables as the set-up of their workspace makes them.
LEMMA ReturnSettles ==
  ASSUME IInv, NEW op, NEW x, Calls(Job, op, x), Return(Job), Does(op, x)
  PROVE  Settling'
<1>1. /\ 1 \in Left /\ Nth(1) = <<op, x>>
      /\ \A k \in Left' : k + 1 \in Left \ {1} /\ agenda'[Job][k] = agenda[Job][k + 1]
      /\ \A o, y : Pending(o, y)' => Pending(o, y)
      /\ \A o, y : Pending(o, y) /\ <<o, y>> # <<op, x>> => Pending(o, y)'
      /\ phase' = IF agenda'[Job] = << >> THEN EndOf[phase] ELSE phase
  BY Returned, Zenon DEF IInv
<1>2. /\ phase' \in {"setup", "resetting"} => phase = phase'
      /\ phase' = "ready" => phase \in {"setup", "resetting"}
  <2>1. phase \in {"setup", "resetting", "destroying"}
    BY <1>1 DEF IInv, Busy, Left, Calls
  <2> QED  BY <1>1, <2>1 DEF EndOf
<1>3. ASSUME NEW w \in Files, Pending("setupActions", w)'
      PROVE  ~done[w] /\ op \in SetupSteps
  <2> PICK k \in Left' : agenda'[Job][k] = <<"setupActions", w>>
    BY <1>3 DEF Pending, Nth
  <2>1. k + 1 \in Left \ {1} /\ Nth(k + 1) = <<"setupActions", w>> /\ k \in Int
    BY <1>1 DEF Nth, Left
  <2>2. ~done[w] /\ \A j \in 1 .. (k + 1) - 1 : Nth(j)[1] \in SetupSteps
    BY <2>1 DEF IInv, SetupShape
  <2>3. 1 \in 1 .. (k + 1) - 1
    BY <2>1 DEF Left
  <2> QED  BY <1>1, <2>2, <2>3
<1>4. ASSUME NEW w \in Files, NEW v \in Vars(w), op \in TeardownSteps, x = v
      PROVE  ~done[w]
  BY <1>1, <1>4 DEF IInv, TeardownShape
<1>5. ASSUME NEW w \in Files, Settled(w)
      PROVE  Settled(w)'
  <2>1. CASE Pending("Teardown", w)
    BY <1>1, <2>1 DEF Settled, Does
  <2>2. CASE /\ ~Pending("Teardown", w)
             /\ ~(done'[w] \/ Pending("setupActions", w)')
    BY <2>2 DEF Settled
  <2>3. CASE /\ ~Pending("Teardown", w)
             /\ done'[w] \/ Pending("setupActions", w)'
    <3>1. done[w] \/ Pending("setupActions", w)
      BY <1>1, <2>3 DEF Does, Pending
    <3>2. \A v \in Vars(w) : /\ value[v] = "initial" \/ Pending("SetupImpl", v)
                             /\ up[v] \/ Pending("accept", v)
      BY <1>5, <2>3, <3>1 DEF Settled
    <3>3. \A v \in Vars(w) : ~(op \in TeardownSteps /\ x = v)
      <4> SUFFICES ASSUME NEW v \in Vars(w), op \in TeardownSteps, x = v
                   PROVE  FALSE
        OBVIOUS
      <4>1. ~done[w] /\ ~done'[w]
        BY <1>4 DEF Does, TeardownSteps
      <4>2. op \in SetupSteps
        BY <1>3, <2>3, <4>1
      <4> QED  BY <4>2 DEF SetupSteps, TeardownSteps
    <3>4. ASSUME NEW v \in Vars(w)
          PROVE  /\ value'[v] = "initial" \/ Pending("SetupImpl", v)'
                 /\ up'[v] \/ Pending("accept", v)'
      <4>1. v \in Variables
        BY DEF Variables
      <4>2. /\ value[v] = "initial" \/ <<op, x>> = <<"SetupImpl", v>> => value'[v] = "initial"
            /\ up[v] \/ <<op, x>> = <<"accept", v>> => up'[v]
        BY <3>3, <4>1 DEF Does
      <4> QED  BY <1>1, <3>2, <4>2
    <3> QED  BY <3>4 DEF Settled
  <2> QED  BY <2>1, <2>2, <2>3
<1>6. Main \in Files /\ cached \subseteq Files
  BY DEF Files, IInv, TypeOK
<1>7. ASSUME phase' \in {"resetting", "ready"}, ~Pending("ResetRoot", None)'
      PROVE  Settled(Main)'
  <2>1. CASE phase = "setup"
    BY <1>5, <1>6, <2>1 DEF IInv, Settling
  <2>2. CASE phase = "resetting" /\ <<op, x>> # <<"ResetRoot", None>>
    <3>1. ~Pending("ResetRoot", None)
      BY <1>1, <1>7, <2>2
    <3> QED  BY <1>5, <1>6, <2>2, <3>1 DEF IInv, Settling
  <2>3. CASE phase = "resetting" /\ <<op, x>> = <<"ResetRoot", None>>
    <3>1. ~done[Main] \/ \E j \in 1 .. 1 - 1 : Nth(j) = <<"Teardown", Main>>
      BY <1>1, <2>3 DEF IInv, MainWaits
    <3>2. ~done'[Main]
      BY <1>6, <2>3, <3>1 DEF Does
    <3>3. ~Pending("setupActions", Main)'
      BY <1>3, <1>6, <2>3 DEF SetupSteps
    <3> QED  BY <3>2, <3>3 DEF Settled
  <2> QED  BY <1>2, <1>7, <2>1, <2>2, <2>3
<1>8. ASSUME phase' \in {"resetting", "ready"}, ~overlapped, NEW w \in cached'
      PROVE  Settled(w)'
  <2>1. w \in Files
    BY <1>6 DEF Does
  <2>2. CASE phase = "setup"
    BY <1>5, <2>1, <2>2 DEF IInv, Settling
  <2>3. CASE phase = "resetting"
    <3>1. op # "LoadProcedure"
      BY <1>1, <2>3 DEF IInv, Constructing
    <3>2. w \in cached
      BY <3>1 DEF Does
    <3> QED  BY <1>5, <1>8, <2>1, <2>3, <3>2 DEF IInv, Settling
  <2> QED  BY <1>2, <1>8, <2>2, <2>3
<1>9. phase' = "setup" => \A w \in Files : Settled(w)'
  BY <1>2, <1>5 DEF IInv, Settling
<1>10. overlapped' = overlapped
  BY DEF Does
<1> QED  BY <1>7, <1>8, <1>9, <1>10 DEF Settling

\* So it keeps the invariant, types and balance apart.
LEMMA ReturnInvariant ==
  ASSUME IInv, NEW op, NEW x, Calls(Job, op, x), Return(Job), Does(op, x),
         TypeOK', IsFiniteSet(cached'), Balance'
  PROVE  IInv'
BY ReturnKeeps, ReturnSettles, Zenon DEF IInv

\* An exception drops the calls that the job had still to make.
LEMMA ThrownAgenda ==
  ASSUME TypeOK, Throw(Job)
  PROVE  agenda' \in [Threads -> Seq(Call)] /\ phase' = "failed"
<1>1. agenda \in [Threads -> Seq(Call)] /\ << >> \in Seq(Call)
  BY DEF TypeOK
<1> QED  BY <1>1 DEF Throw

\* An exception that leaves a call of the job undone leaves the job failed.
LEMMA ThrowInvariant ==
  ASSUME IInv, NEW op \in {"LoadProcedure", "SetupImpl", "setupActions"}, NEW x,
         Calls(Job, op, x), Throw(Job), UNCHANGED <<place, cached, destroyed, overlapped>>,
         TypeOK', Balance', \A w \in Files \ {Main} : tearDown'[w] # {} => w \in cached
  PROVE  IInv'
<1>1. /\ agenda \in [Threads -> Seq(Call)] /\ Job \in Threads /\ Job \notin Workers
      /\ Workers \subseteq Threads
  BY ProcedureAssumption DEF IInv, TypeOK, Threads
<1>2. /\ agenda' \in [Threads -> Seq(Call)] /\ agenda'[Job] = << >>
      /\ \A u \in Workers : agenda'[u] = agenda[u]
      /\ phase' = "failed"
  BY <1>1 DEF Throw
<1>3. Left' = {} /\ Len(agenda'[Job]) = 0
  BY <1>2 DEF Left
<1>4. destroyed = {}
  <2>1. agenda[Job] # << >> /\ agenda[Job] \in Seq(Call) /\ Head(agenda[Job]) = <<op, x>>
    BY <1>1 DEF Calls
  <2>2. 1 \in Left /\ Nth(1) = <<op, x>> /\ phase \in {"setup", "resetting", "destroying"}
    BY <2>1 DEF Left, Nth, IInv, Busy
  <2>3. op \notin TeardownSteps
    BY DEF TeardownSteps
  <2> QED  BY <2>2, <2>3 DEF IInv, Destroying
<1>5. IsFiniteSet(cached')
  BY DEF IInv
<1>6. Busy' /\ IdleWorkers' /\ QuietPhases'
  BY <1>2 DEF IInv, Busy, IdleWorkers, QuietPhases
<1>7. Held' /\ SetupShape' /\ TeardownShape'
  BY <1>3 DEF Held, SetupShape, TeardownShape
<1>8. Constructing' /\ Destroying' /\ Prepared' /\ MainWaits' /\ Settling'
  BY <1>2, <1>3, <1>4 DEF Constructing, Destroying, Prepared, MainWaits, Settling
<1> QED  BY <1>5, <1>6, <1>7, <1>8 DEF IInv

\* So does one from a call that changes nothing.
LEMMA ThrowOnly ==
  ASSUME IInv, NEW op \in {"LoadProcedure", "SetupImpl"}, NEW x, Calls(Job, op, x), Throw(Job),
         UNCHANGED <<place, cached, destroyed, overlapped, wsVars, varVars>>
  PROVE  IInv'
<1>1. agenda' \in [Threads -> Seq(Call)] /\ phase' = "failed"
  BY ThrownAgenda DEF IInv
<1>2. TypeOK'
  BY <1>1 DEF IInv, TypeOK, Phase, wsVars, varVars
<1>3. Balance'
  BY DEF IInv, Balance, Count, wsVars
<1>4. \A w \in Files \ {Main} : tearDown'[w] # {} => w \in cached
  BY DEF IInv, Held, wsVars
<1> QED  BY <1>2, <1>3, <1>4, ThrowInvariant

LEMMA LoadProcedureStep ==
  ASSUME IInv, NEW f \in Files, LoadProcedure(Job, f)
  PROVE  IInv'
<1>1. CASE Throw(Job) /\ UNCHANGED cached
  BY <1>1, ThrowOnly DEF LoadProcedure
<1>2. CASE Return(Job) /\ cached' = cached \union ({f} \ {Main})
  <2>1. Calls(Job, "LoadProcedure", f)
    BY DEF LoadProcedure
  <2>2. Does("LoadProcedure", f)
    BY <1>2 DEF LoadProcedure, Does, wsVars, varVars
  <2>3. TypeOK'
    <3>1. agenda' \in [Threads -> Seq(Call)]
      BY <1>2, <2>1, Returned DEF IInv
    <3>2. phase' \in Phase
      <4>1. phase' = phase \/ phase' = EndOf[phase]
        BY <1>2 DEF Return, Make
      <4>2. phase \in {"setup", "resetting", "destroying"}
        BY <2>1 DEF IInv, Busy, Calls
      <4> QED  BY <4>1, <4>2 DEF Phase, EndOf
    <3>3. cached' \subseteq Included
      BY <1>2 DEF IInv, TypeOK, Files
    <3> QED  BY <3>1, <3>2, <3>3 DEF IInv, TypeOK, LoadProcedure, wsVars, varVars
  <2>4. IsFiniteSet(cached')
    <3>1. IsFiniteSet(cached \union {f})
      BY FS_AddElement DEF IInv
    <3>2. cached' \subseteq cached \union {f}
      BY <1>2
    <3> QED  BY <3>1, <3>2, FS_Subset
  <2>5. Balance'
    BY DEF IInv, Balance, Count, LoadProcedure, wsVars
  <2> QED  BY <1>2, <2>1, <2>2, <2>3, <2>4, <2>5, ReturnInvariant
<1> QED  BY <1>1, <1>2 DEF LoadProcedure

\* The phase that the last call of an operation leads to is one.
LEMMA PhaseType ==
  ASSUME IInv, agenda[Job] # << >>, phase' \in {phase, EndOf[phase]}
  PROVE  phase' \in Phase
BY DEF IInv, Busy, Phase, EndOf

LEMMA SetupAgainStep ==
  ASSUME IInv, NEW w \in Files, Setup(Job, w), done[w]
  PROVE  IInv'
<1>1. Calls(Job, "Setup", w) /\ Return(Job)
  BY DEF Setup, Return
<1>2. Does("Setup", w)
  <2>1. \A f \in Files : <<"Setup", w>> = <<"Setup", f>> => f = w
    OBVIOUS
  <2> QED  BY <2>1 DEF Setup, Does, wsVars, varVars
<1>3. TypeOK'
  <2>1. agenda' \in [Threads -> Seq(Call)]
    BY <1>1, Returned DEF IInv
  <2>2. phase' \in Phase
    BY <1>1, PhaseType DEF Return, Make, Calls
  <2> QED  BY <2>1, <2>2 DEF IInv, TypeOK, Setup, wsVars, varVars
<1>4. IsFiniteSet(cached') /\ Balance'
  BY DEF IInv, Balance, Count, Setup, wsVars
<1> QED  BY <1>1, <1>2, <1>3, <1>4, ReturnInvariant

\* Set-up actions are run when none is active.
LEMMA NoneActive ==
  ASSUME IInv, CutShort, NEW w \in Files, Calls(Job, "setupActions", w)
  PROVE  /\ ~done[w] /\ tearDown[w] = {} /\ skipped[w] = {}
         /\ \A i \in Identifiers(w) : active[w][i] = 0
         /\ w # Main => w \in cached
<1>1. /\ agenda[Job] \in Seq(Call) /\ agenda[Job] # << >>
      /\ Head(agenda[Job]) = <<"setupActions", w>>
  BY DEF Calls, IInv, TypeOK, Threads
<1>2. 1 \in Left /\ Nth(1) = <<"setupActions", w>>
  BY <1>1 DEF Left, Nth
<1>3. ~done[w]
  BY <1>2 DEF IInv, SetupShape
<1>4. phase \in {"setup", "resetting"}
  <2>1. phase \in {"setup", "resetting", "destroying"}
    BY <1>1 DEF IInv, Busy
  <2>2. Nth(1)[1] \notin TeardownSteps /\ Nth(1)[1] # "Teardown" /\ Nth(1)[1] # "ResetRoot"
        /\ Nth(1)[1] # "TearDownProcedures"
    BY <1>2 DEF TeardownSteps
  <2> QED  BY <1>2, <2>1, <2>2 DEF IInv, Destroying
<1>5. skipped[w] = {}
  BY <1>4 DEF CutShort
<1>6. tearDown[w] = {} /\ \A i \in Identifiers(w) : active[w][i] = 0
  BY <1>3, <1>5 DEF IInv, Balance, Count
<1>7. w # Main => w \in cached
  <2>1. \A j : j \notin 1 .. 1 - 1
    OBVIOUS
  <2> QED  BY <1>2, <2>1 DEF IInv, Held
<1> QED  BY <1>3, <1>5, <1>6, <1>7

\* What a run of set-up actions counts, once it ended and whether it was cut short.
LEMMA SetupActionsCount ==
  ASSUME IInv, CutShort, NEW w \in Files, Calls(Job, "setupActions", w),
         NEW I \in SUBSET Identifiers(w), RunSetupActions(w, I),
         tearDown' = [tearDown EXCEPT ![w] = Identifiers(w)],
         skipped' = [skipped EXCEPT ![w] = Identifiers(w) \ I]
  PROVE  /\ tearDown' = [x \in Files |-> tearDown'[x]] /\ active' = [x \in Files |-> active'[x]]
         /\ skipped' = [x \in Files |-> skipped'[x]]
         /\ \A x \in Files : tearDown'[x] = IF x = w THEN Identifiers(w) ELSE tearDown[x]
         /\ \A x \in Files : skipped'[x] = IF x = w THEN Identifiers(w) \ I ELSE skipped[x]
         /\ \A x \in Files : \A i \in Identifiers(x) : active'[x][i] = Count(x, i)'
<1>1. /\ tearDown = [x \in Files |-> tearDown[x]] /\ active = [x \in Files |-> active[x]]
      /\ skipped = [x \in Files |-> skipped[x]]
  BY DEF IInv, TypeOK
<1> DEFINE row == [i \in Identifiers(w) |-> IF i \in I THEN active[w][i] + 1 ELSE active[w][i]]
<1>2. active' = [active EXCEPT ![w] = row]
  BY DEF RunSetupActions
<1>3. \A i \in Identifiers(w) : row[i] = IF i \in I THEN 1 ELSE 0
  BY NoneActive
<1> HIDE DEF row
<1>4. /\ tearDown' = [x \in Files |-> tearDown'[x]] /\ active' = [x \in Files |-> active'[x]]
      /\ skipped' = [x \in Files |-> skipped'[x]]
  BY <1>1, <1>2
<1>5. /\ \A x \in Files : tearDown'[x] = IF x = w THEN Identifiers(w) ELSE tearDown[x]
      /\ \A x \in Files : skipped'[x] = IF x = w THEN Identifiers(w) \ I ELSE skipped[x]
      /\ \A x \in Files : active'[x] = IF x = w THEN row ELSE active[x]
  BY <1>1, <1>2
<1>6. ASSUME NEW x \in Files, NEW i \in Identifiers(x)  PROVE active'[x][i] = Count(x, i)'
  <2>1. CASE x = w
    <3>1. /\ i \in Identifiers(w) /\ tearDown'[x] = Identifiers(w)
          /\ skipped'[x] = Identifiers(w) \ I /\ active'[x] = row
      BY <1>5, <1>6, <2>1
    <3> QED  BY <1>3, <3>1 DEF Count
  <2>2. CASE x # w
    <3>1. tearDown'[x] = tearDown[x] /\ skipped'[x] = skipped[x] /\ active'[x] = active[x]
      BY <1>5, <2>2
    <3> QED  BY <3>1 DEF IInv, Balance, Count
  <2> QED  BY <2>1, <2>2
<1> QED  BY <1>4, <1>5, <1>6

LEMMA SetupActionsStep ==
  ASSUME IInv, CutShort, NEW w \in Files, SetupActions(Job, w)
  PROVE  IInv'
<1>1. /\ Calls(Job, "setupActions", w)
      /\ tearDown' = [tearDown EXCEPT ![w] = Identifiers(w)]
      /\ UNCHANGED <<place, cached, destroyed, overlapped, varVars>>
  BY DEF SetupActions
<1>2. ~done[w] /\ skipped[w] = {} /\ (w # Main => w \in cached)
  BY <1>1, NoneActive
<1>3. skipped = [x \in Files |-> skipped[x]] /\ done \in [Files -> BOOLEAN]
  BY DEF IInv, TypeOK
\* All of them were run.
<1>4. CASE /\ Return(Job) /\ RunSetupActions(w, Identifiers(w))
           /\ done' = [done EXCEPT ![w] = TRUE] /\ UNCHANGED skipped
  <2>1. skipped' = [skipped EXCEPT ![w] = Identifiers(w) \ Identifiers(w)]
    <3>1. [skipped EXCEPT ![w] = {}] = skipped
      BY <1>2, <1>3
    <3> QED  BY <1>4, <3>1
  <2>2. /\ tearDown' = [x \in Files |-> tearDown'[x]] /\ active' = [x \in Files |-> active'[x]]
        /\ skipped' = [x \in Files |-> skipped'[x]]
        /\ \A x \in Files : tearDown'[x] = IF x = w THEN Identifiers(w) ELSE tearDown[x]
        /\ \A x \in Files : \A i \in Identifiers(x) : active'[x][i] = Count(x, i)'
    BY <1>1, <1>4, <2>1, SetupActionsCount
  <2>3. done' \in [Files -> BOOLEAN] /\ \A x \in Files : done'[x] = IF x = w THEN TRUE ELSE done[x]
    BY <1>3, <1>4
  <2>4. Does("setupActions", w)
    BY <1>1, <2>2, <2>3 DEF Does, varVars
  <2>5. Balance'
    <3> SUFFICES ASSUME NEW x \in Files
                 PROVE  /\ ~done'[x] => tearDown'[x] = {} \/ skipped'[x] # {}
                        /\ done'[x] => skipped'[x] = {}
                        /\ done'[x] /\ x \notin destroyed' => tearDown'[x] = Identifiers(x)
      BY <2>2 DEF Balance
    <3> QED  BY <1>1, <1>2, <1>4, <2>2, <2>3 DEF IInv, Balance
  <2>6. TypeOK'
    <3>1. agenda' \in [Threads -> Seq(Call)]
      BY <1>1, <1>4, Returned DEF IInv
    <3>2. phase' \in Phase
      BY <1>1, <1>4, PhaseType DEF Return, Make, Calls
    <3>3. \A x \in Files : tearDown'[x] \subseteq Identifiers(x)
      BY <2>2 DEF IInv, TypeOK
    <3> QED  BY <1>1, <2>2, <2>3, <3>1, <3>2, <3>3 DEF IInv, TypeOK, varVars
  <2>7. IsFiniteSet(cached')
    BY <1>1 DEF IInv
  <2> QED  BY <1>1, <1>4, <2>4, <2>5, <2>6, <2>7, ReturnInvariant
\* One of them failed.
<1>5. ASSUME NEW k \in DOMAIN VariablesOf[w],
             Identifier[VariablesOf[w][k]] \in (Identifiers(w) \intersect Fragile) \ Before(w, k),
             Throw(Job), RunSetupActions(w, Before(w, k)), UNCHANGED done,
             skipped' = [skipped EXCEPT ![w] = Identifiers(w) \ Before(w, k)]
      PROVE  IInv'
  <2>1. Before(w, k) \in SUBSET Identifiers(w) /\ Identifiers(w) \ Before(w, k) # {}
    <3>1. \A j \in 1 .. k - 1 : j \in DOMAIN VariablesOf[w]
      BY ProcedureAssumption
    <3>2. \A j \in DOMAIN VariablesOf[w] : VariablesOf[w][j] \in Vars(w)
      BY DEF Vars
    <3> QED  BY <1>5, <3>1, <3>2 DEF Before, Identifiers
  <2>2. /\ tearDown' = [x \in Files |-> tearDown'[x]] /\ active' = [x \in Files |-> active'[x]]
        /\ skipped' = [x \in Files |-> skipped'[x]]
        /\ \A x \in Files : tearDown'[x] = IF x = w THEN Identifiers(w) ELSE tearDown[x]
        /\ \A x \in Files : skipped'[x] = IF x = w THEN Identifiers(w) \ Before(w, k) ELSE skipped[x]
        /\ \A x \in Files : \A i \in Identifiers(x) : active'[x][i] = Count(x, i)'
    BY <1>1, <1>5, <2>1, SetupActionsCount
  <2>3. Balance'
    <3> SUFFICES ASSUME NEW x \in Files
                 PROVE  /\ ~done'[x] => tearDown'[x] = {} \/ skipped'[x] # {}
                        /\ done'[x] => skipped'[x] = {}
                        /\ done'[x] /\ x \notin destroyed' => tearDown'[x] = Identifiers(x)
      BY <2>2 DEF Balance
    <3> QED  BY <1>1, <1>2, <1>5, <2>1, <2>2 DEF IInv, Balance
  <2>4. TypeOK'
    <3>1. agenda' \in [Threads -> Seq(Call)] /\ phase' = "failed"
      BY <1>5, ThrownAgenda DEF IInv
    <3>2. \A x \in Files : tearDown'[x] \subseteq Identifiers(x)
      BY <2>2 DEF IInv, TypeOK
    <3> QED  BY <1>1, <1>5, <2>2, <3>1, <3>2 DEF IInv, TypeOK, Phase, varVars
  <2>5. \A x \in Files \ {Main} : tearDown'[x] # {} => x \in cached
    BY <1>2, <2>2 DEF IInv, Held
  <2> QED  BY <1>1, <1>5, <2>3, <2>4, <2>5, ThrowInvariant
<1> QED  BY <1>4, <1>5 DEF SetupActions

LEMMA ResetRootStep ==
  ASSUME IInv, ResetRoot(Job)
  PROVE  IInv'
<1>1. Calls(Job, "ResetRoot", None) /\ Return(Job)
  BY DEF ResetRoot
<1>2. Does("ResetRoot", None)
  BY DEF ResetRoot, Does, Quiet, wsVars, varVars
<1>3. TypeOK'
  <2>1. agenda' \in [Threads -> Seq(Call)]
    BY <1>1, Returned DEF IInv
  <2>2. phase' \in Phase
    BY <1>1, PhaseType DEF Return, Make, Calls
  <2> QED  BY <2>1, <2>2 DEF IInv, TypeOK, ResetRoot, wsVars, varVars
<1>4. IsFiniteSet(cached') /\ Balance'
  BY DEF IInv, Balance, Count, ResetRoot, wsVars
<1> QED  BY <1>1, <1>2, <1>3, <1>4, ReturnInvariant

LEMMA JobVariableStep ==
  ASSUME IInv, NEW v \in Variables, SetupImpl(Job, v) \/ TeardownImpl(Job, v) \/ SetSuccessful(Job, v)
  PROVE  IInv'
<1>1. CASE SetupImpl(Job, v) /\ Throw(Job) /\ UNCHANGED value
  BY <1>1, ThrowOnly DEF SetupImpl, varVars
<1>2. ASSUME NEW op \in SetupSteps \union TeardownSteps, Calls(Job, op, v), Return(Job),
             UNCHANGED <<place, cached, destroyed, overlapped, wsVars>>, Does(op, v),
             value' \in [Variables -> {"none", "initial", "changed"}], up' \in [Variables -> BOOLEAN]
      PROVE  IInv'
  <2>1. TypeOK'
    <3>1. agenda' \in [Threads -> Seq(Call)]
      BY <1>2, Returned DEF IInv
    <3>2. phase' \in Phase
      BY <1>2, PhaseType DEF Return, Make, Calls
    <3> QED  BY <1>2, <3>1, <3>2 DEF IInv, TypeOK, wsVars
  <2>2. IsFiniteSet(cached') /\ Balance'
    BY <1>2 DEF IInv, Balance, Count, wsVars
  <2> QED  BY <1>2, <2>1, <2>2, ReturnInvariant
<1>3. CASE SetupImpl(Job, v) /\ Return(Job) /\ value' = [value EXCEPT ![v] = "initial"]
  <2>1. Does("SetupImpl", v)
    BY <1>3 DEF Does, SetupImpl, wsVars, TeardownSteps, IInv, TypeOK
  <2> QED  BY <1>2, <1>3, <2>1 DEF SetupImpl, SetupSteps, IInv, TypeOK
<1>4. CASE TeardownImpl(Job, v)
  <2>1. Does("TeardownImpl", v)
    BY <1>4 DEF Does, TeardownImpl, wsVars, TeardownSteps, IInv, TypeOK
  <2> QED  BY <1>2, <1>4, <2>1 DEF TeardownImpl, TeardownSteps, IInv, TypeOK
<1>5. CASE SetSuccessful(Job, v) /\ Calls(Job, "accept", v) /\ up' = [up EXCEPT ![v] = TRUE]
  <2>1. Does("accept", v)
    BY <1>5 DEF Does, SetSuccessful, wsVars, TeardownSteps, IInv, TypeOK
  <2> QED  BY <1>2, <1>5, <2>1 DEF SetSuccessful, SetupSteps, IInv, TypeOK
<1>6. CASE SetSuccessful(Job, v) /\ Calls(Job, "reject", v) /\ up' = [up EXCEPT ![v] = FALSE]
  <2>1. Does("reject", v)
    BY <1>6 DEF Does, SetSuccessful, wsVars, TeardownSteps, IInv, TypeOK
  <2> QED  BY <1>2, <1>6, <2>1 DEF SetSuccessful, TeardownSteps, IInv, TypeOK
<1> QED  BY <1>1, <1>3, <1>4, <1>5, <1>6 DEF SetupImpl, SetSuccessful

-----------------------------------------------------------------------------
(* The calls of the job that make others.                                    *)

\* What is pending once other calls took the place of the first one.
LEMMA Expanded ==
  ASSUME TypeOK, NEW op, NEW x, Calls(Job, op, x), NEW new \in Seq(Call), Make(Job, new)
  PROVE  /\ \A o, y : Pending(o, y)' =>
              \/ \E k \in Left \ {1} : Nth(k) = <<o, y>>
              \/ \E k \in 1 .. Len(new) : new[k] = <<o, y>>
         /\ \A o, y : Pending(o, y) /\ <<o, y>> # <<op, x>> => Pending(o, y)'
         /\ \A o, y : (\E k \in 1 .. Len(new) : new[k] = <<o, y>>) => Pending(o, y)'
<1>1. /\ 1 \in Left /\ Nth(1) = <<op, x>>
      /\ \A k \in 1 .. Len(new) : k \in Left' /\ agenda'[Job][k] = new[k]
      /\ \A k \in Left : k # 1 => /\ Len(new) + k - 1 \in Left'
                                  /\ agenda'[Job][Len(new) + k - 1] = agenda[Job][k]
      /\ \A k \in Left' : k \notin 1 .. Len(new) =>
              /\ k - Len(new) + 1 \in Left \ {1}
              /\ agenda'[Job][k] = agenda[Job][k - Len(new) + 1]
  BY Advance, Zenon
<1>2. ASSUME NEW o, NEW y, Pending(o, y)'
      PROVE  \/ \E k \in Left \ {1} : Nth(k) = <<o, y>>
             \/ \E k \in 1 .. Len(new) : new[k] = <<o, y>>
  <2> PICK k \in Left' : agenda'[Job][k] = <<o, y>>
    BY <1>2 DEF Pending, Nth
  <2>1. CASE k \in 1 .. Len(new)
    BY <1>1, <2>1
  <2>2. CASE k \notin 1 .. Len(new)
    BY <1>1, <2>2 DEF Nth
  <2> QED  BY <2>1, <2>2
<1>3. ASSUME NEW o, NEW y, Pending(o, y), <<o, y>> # <<op, x>>  PROVE Pending(o, y)'
  <2> PICK k \in Left : Nth(k) = <<o, y>>
    BY <1>3 DEF Pending
  <2>1. k # 1
    BY <1>1, <1>3
  <2> QED  BY <1>1, <2>1 DEF Pending, Nth
<1>4. ASSUME NEW o, NEW y, NEW k \in 1 .. Len(new), new[k] = <<o, y>>  PROVE Pending(o, y)'
  BY <1>1, <1>4 DEF Pending, Nth
<1> QED  BY <1>2, <1>3, <1>4

\* Setup and Teardown are not called in the middle of the set-up or the tear-down of a
\* workspace, and what they call has to do with variables.
LEMMA ExpandKeeps ==
  ASSUME IInv, NEW op \in {"Setup", "Teardown"}, NEW w \in Files, Calls(Job, op, w),
         NEW new \in Seq(Call), Make(Job, new),
         UNCHANGED <<place, cached, destroyed, overlapped>>,
         \A k \in 1 .. Len(new) : new[k][1] \in SetupSteps \union TeardownSteps \union {"setupActions"}
  PROVE  /\ Busy' /\ IdleWorkers' /\ QuietPhases' /\ Constructing' /\ agenda' \in [Threads -> Seq(Call)]
         /\ \A k \in Left \ {1} : /\ Nth(k)[1] \notin TeardownSteps
                                /\ \A f \in Files : Nth(k) # <<"setupActions", f>>
         /\ \A k \in Left' : k \notin 1 .. Len(new) => \A j \in 1 .. k - 1 :
              j \notin 1 .. Len(new) => j - Len(new) + 1 \in 1 .. k - Len(new)
         /\ phase \in {"setup", "resetting", "destroying"}
         /\ phase' = IF agenda'[Job] # << >> THEN phase
                     ELSE IF phase = "destroying" THEN "gone" ELSE "ready"
<1>1. /\ agenda' \in [Threads -> Seq(Call)]
      /\ \A u \in Workers : agenda'[u] = agenda[u]
      /\ Len(new) \in Nat
      /\ 1 \in Left /\ Nth(1) = <<op, w>>
      /\ \A k \in 1 .. Len(new) : k \in Left' /\ agenda'[Job][k] = new[k]
      /\ \A k \in Left' : k \notin 1 .. Len(new) =>
              /\ k - Len(new) + 1 \in Left \ {1}
              /\ agenda'[Job][k] = agenda[Job][k - Len(new) + 1]
      /\ phase' = IF agenda'[Job] = << >> THEN EndOf[phase] ELSE phase
  BY Advance, Zenon DEF IInv
<1>2. phase \in {"setup", "resetting", "destroying"}
  BY <1>1 DEF IInv, Busy, Left, Calls
<1>3. phase' = IF agenda'[Job] # << >> THEN phase
               ELSE IF phase = "destroying" THEN "gone" ELSE "ready"
  BY <1>1, <1>2 DEF EndOf
<1>4. ASSUME NEW k \in Left \ {1}
      PROVE  Nth(k)[1] \notin TeardownSteps /\ \A f \in Files : Nth(k) # <<"setupActions", f>>
  <2>1. 1 \in 1 .. k - 1
    BY <1>4 DEF Left
  <2>2. op \notin TeardownSteps \union SetupSteps
    BY DEF TeardownSteps, SetupSteps
  <2>3. Nth(k)[1] \notin TeardownSteps
    BY <1>1, <2>1, <2>2 DEF IInv, TeardownShape
  <2>4. \A f \in Files : Nth(k) # <<"setupActions", f>>
    BY <1>1, <2>1, <2>2 DEF IInv, SetupShape
  <2> QED  BY <2>3, <2>4
<1>5. Busy'
  BY <1>2, <1>3 DEF Busy
<1>6. IdleWorkers'
  BY <1>1 DEF IdleWorkers, IInv
<1>7. QuietPhases'
  <2>1. ASSUME Pending("ResetRoot", None)  PROVE Pending("ResetRoot", None)'
    BY <2>1, Expanded DEF IInv
  <2>2. agenda'[Job] = << >> => ~Pending("ResetRoot", None)'
    BY DEF Pending, Left
  <2>3. Quiet' <=> Quiet
    BY DEF Quiet
  <2> QED  BY <1>2, <1>3, <2>1, <2>2, <2>3 DEF IInv, QuietPhases
<1>8. Constructing'
  <2>1. ASSUME NEW k \in Left', agenda'[Job][k][1] = "LoadProcedure"  PROVE phase = "setup"
    <3>1. k \notin 1 .. Len(new)
      BY <1>1, <2>1 DEF SetupSteps, TeardownSteps
    <3> QED  BY <1>1, <2>1, <3>1 DEF IInv, Constructing, Nth
  <2>2. \A k \in Left' : agenda'[Job] # << >>
    BY DEF Left
  <2> QED  BY <1>2, <1>3, <2>1, <2>2 DEF Constructing, Nth
<1>9. ASSUME NEW k \in Left', k \notin 1 .. Len(new), NEW j \in 1 .. k - 1, j \notin 1 .. Len(new)
      PROVE  j - Len(new) + 1 \in 1 .. k - Len(new)
  BY <1>1, <1>9 DEF Left
<1> QED  BY <1>1, <1>2, <1>3, <1>4, <1>5, <1>6, <1>7, <1>8, <1>9

LEMMA SetupStep ==
  ASSUME IInv, NEW w \in Files, Setup(Job, w)
  PROVE  IInv'
<1> CASE done[w]
  BY SetupAgainStep
<1> CASE ~done[w]
  <2> DEFINE e == Each(VariablesOf[w], SetupCalls)
             last == <<"setupActions", w>>
             new == e \o <<last>>
             n == Len(e) + 1
  <2>1. /\ e \in Seq(Call)
        /\ \A p \in 1 .. Len(e) : e[p][1] \in SetupSteps
        /\ \A v \in Vars(w) : /\ \E p \in 1 .. Len(e) : e[p] = <<"SetupImpl", v>>
                              /\ \E p \in 1 .. Len(e) : e[p] = <<"accept", v>>
    BY SetupList
  <2>2. last \in Call
    BY DEF Call, Operation
  <2>3. Calls(Job, "Setup", w) /\ Make(Job, new)
        /\ UNCHANGED <<place, cached, destroyed, overlapped, wsVars, varVars>>
    BY DEF Setup
  <2> HIDE DEF e, last
  <2>4. /\ new \in Seq(Call) /\ Len(new) = n /\ n \in Nat /\ n >= 1
        /\ \A k \in 1 .. n - 1 : new[k] = e[k]
        /\ new[n] = last
    <3>1. new = Append(e, last)
      BY <2>1, <2>2, AppendIsConcat
    <3>2. Len(e) \in Nat
      BY <2>1
    <3> QED  BY <2>1, <2>2, <3>1, <3>2, AppendProperties
  <2> HIDE DEF new
  <2>5. /\ \A k \in 1 .. n : k # n => new[k][1] \in SetupSteps
        /\ \A v \in Vars(w) : /\ \E k \in 1 .. n : new[k] = <<"SetupImpl", v>>
                              /\ \E k \in 1 .. n : new[k] = <<"accept", v>>
    <3>1. \A k \in 1 .. Len(e) : k \in 1 .. n /\ new[k] = e[k]
      BY <2>1, <2>4
    <3>2. \A k \in 1 .. n : k # n => k \in 1 .. Len(e)
      BY <2>1, <2>4
    <3> QED  BY <2>1, <3>1, <3>2
  <2> HIDE DEF n
  <2>6. \A k \in 1 .. Len(new) : new[k][1] \in SetupSteps \union TeardownSteps \union {"setupActions"}
    BY <2>4, <2>5 DEF last
  <2>7. /\ 1 \in Left /\ Nth(1) = <<"Setup", w>>
        /\ Len(agenda[Job]) \in Nat /\ Len(agenda'[Job]) = Len(agenda[Job]) + n - 1
        /\ \A k \in 1 .. n : k \in Left' /\ agenda'[Job][k] = new[k]
        /\ \A k \in Left : k # 1 => n + k - 1 \in Left' /\ agenda'[Job][n + k - 1] = agenda[Job][k]
        /\ \A k \in Left' : k \notin 1 .. n =>
             k - n + 1 \in Left \ {1} /\ agenda'[Job][k] = agenda[Job][k - n + 1]
    BY <2>3, <2>4, Advance DEF IInv
  <2>8. /\ Busy' /\ IdleWorkers' /\ QuietPhases' /\ Constructing' /\ agenda' \in [Threads -> Seq(Call)]
        /\ \A k \in Left \ {1} : /\ Nth(k)[1] \notin TeardownSteps
                                 /\ \A f \in Files : Nth(k) # <<"setupActions", f>>
        /\ \A k \in Left' : k \notin 1 .. n => \A j \in 1 .. k - 1 :
             j \notin 1 .. n => j - n + 1 \in 1 .. k - n
        /\ phase \in {"setup", "resetting", "destroying"}
        /\ phase' = IF agenda'[Job] # << >> THEN phase
                    ELSE IF phase = "destroying" THEN "gone" ELSE "ready"
    BY <2>3, <2>4, <2>6, ExpandKeeps
  <2>9. /\ \A o, y : Pending(o, y)' =>
              \/ \E k \in Left \ {1} : Nth(k) = <<o, y>>
              \/ \E k \in 1 .. n : new[k] = <<o, y>>
        /\ \A o, y : Pending(o, y) /\ <<o, y>> # <<"Setup", w>> => Pending(o, y)'
        /\ \A o, y : (\E k \in 1 .. n : new[k] = <<o, y>>) => Pending(o, y)'
    <3>1. /\ \A o, y : Pending(o, y)' =>
                \/ \E k \in Left \ {1} : Nth(k) = <<o, y>>
                \/ \E k \in 1 .. Len(new) : new[k] = <<o, y>>
          /\ \A o, y : Pending(o, y) /\ <<o, y>> # <<"Setup", w>> => Pending(o, y)'
          /\ \A o, y : (\E k \in 1 .. Len(new) : new[k] = <<o, y>>) => Pending(o, y)'
      BY <2>3, <2>4, Expanded, Zenon DEF IInv
    <3>2. Len(new) = n
      BY <2>4
    <3> QED  BY <3>1, <3>2
  <2>10. phase' = phase /\ phase \in {"setup", "resetting"}
    <3>1. agenda'[Job] # << >>
      BY <2>4, <2>7 DEF Left
    <3>2. phase # "destroying"
      BY <2>7 DEF IInv, Destroying, TeardownSteps
    <3> QED  BY <2>8, <3>1, <3>2
  <2>11. TypeOK'
    BY <2>3, <2>8, <2>10 DEF IInv, TypeOK, wsVars, varVars
  <2>12. IsFiniteSet(cached') /\ Balance'
    BY <2>3 DEF IInv, Balance, Count, wsVars
  <2>13. Held'
    <3>1. \A f \in Files \ {Main} : tearDown'[f] # {} => f \in cached'
      BY <2>3 DEF IInv, Held, wsVars
    <3>2. ASSUME NEW f \in Files \ {Main}, NEW k \in Left',
                 agenda'[Job][k] \in {<<"Setup", f>>, <<"setupActions", f>>}
          PROVE  f \in cached \/ \E j \in 1 .. k - 1 : agenda'[Job][j] = <<"LoadProcedure", f>>
      <4>1. CASE k \in 1 .. n
        <5>1. f = w
          BY <2>4, <2>5, <2>7, <3>2, <4>1 DEF last, SetupSteps
        <5>2. f \in cached \/ \E j \in 1 .. 1 - 1 : Nth(j) = <<"LoadProcedure", f>>
          BY <2>7, <5>1 DEF IInv, Held
        <5> QED  BY <5>2
      <4>2. CASE k \notin 1 .. n
        <5> DEFINE m == k - n + 1
        <5>1. k \in Int /\ m \in Left \ {1} /\ Nth(m) = agenda'[Job][k]
          BY <2>7, <4>2 DEF Left, Nth
        <5>2. f \in cached \/ \E j \in 1 .. m - 1 : Nth(j) = <<"LoadProcedure", f>>
          BY <3>2, <5>1 DEF IInv, Held
        <5>3. ASSUME NEW j \in 1 .. m - 1, Nth(j) = <<"LoadProcedure", f>>
              PROVE  \E i \in 1 .. k - 1 : agenda'[Job][i] = <<"LoadProcedure", f>>
          <6>1. j \in Left /\ j # 1
            BY <2>7, <5>1, <5>3 DEF Left
          <6>2. agenda'[Job][n + j - 1] = <<"LoadProcedure", f>>
            BY <2>7, <5>3, <6>1 DEF Nth
          <6>3. n + j - 1 \in 1 .. k - 1
            BY <2>4, <5>1, <6>1
          <6> QED  BY <6>2, <6>3
        <5> QED  BY <5>2, <5>3
      <4> QED  BY <4>1, <4>2
    <3> QED  BY <2>3, <3>1, <3>2 DEF Held, Nth
  <2>14. SetupShape'
    <3> SUFFICES ASSUME NEW k \in Left', NEW f \in Files, agenda'[Job][k] = <<"setupActions", f>>
                 PROVE  ~done'[f] /\ \A j \in 1 .. k - 1 : agenda'[Job][j][1] \in SetupSteps
      BY DEF SetupShape, Nth
    <3>1. k \in 1 .. n
      BY <2>7, <2>8 DEF Nth
    <3>2. k = n /\ f = w
      <4>1. new[k] = <<"setupActions", f>>
        BY <2>7, <3>1
      <4>2. new[k][1] = "setupActions"
        BY <4>1
      <4>3. k = n
        BY <2>5, <3>1, <4>2 DEF SetupSteps
      <4> QED  BY <2>4, <4>1, <4>3 DEF last
    <3>3. \A j \in 1 .. k - 1 : j \in 1 .. n /\ j # n
      BY <2>4, <3>2
    <3> QED  BY <2>3, <2>5, <2>7, <3>2, <3>3 DEF wsVars
  <2>15. TeardownShape'
    <3>1. ASSUME NEW k \in Left'  PROVE agenda'[Job][k][1] \notin TeardownSteps
      <4>1. CASE k \in 1 .. n
        BY <2>4, <2>5, <2>7, <4>1 DEF last, SetupSteps, TeardownSteps
      <4>2. CASE k \notin 1 .. n
        BY <2>7, <2>8, <4>2 DEF Nth
      <4> QED  BY <4>1, <4>2
    <3> QED  BY <3>1 DEF TeardownShape, Nth
  <2>16. Destroying'
    <3>1. destroyed' = {}
      BY <2>3, <2>10 DEF IInv, Destroying
    <3>2. ASSUME NEW k \in Left'  PROVE agenda'[Job][k][1] # "TearDownProcedures"
      <4>1. CASE k \in 1 .. n
        BY <2>4, <2>5, <2>7, <4>1 DEF last, SetupSteps
      <4>2. CASE k \notin 1 .. n
        BY <2>7, <2>10, <4>2 DEF IInv, Destroying, Nth
      <4> QED  BY <4>1, <4>2
    <3> QED  BY <2>10, <3>1, <3>2 DEF Destroying, Nth
  <2>17. Prepared'
    <3> SUFFICES ASSUME NEW x \in Executing
                 PROVE  /\ done'[x] \/ Pending("Setup", x)' \/ Pending("setupActions", x)'
                        /\ \A k \in Left' : agenda'[Job][k] = <<"Teardown", x>> =>
                             \E j \in k + 1 .. Len(agenda'[Job]) : agenda'[Job][j] = <<"Setup", x>>
      BY <2>10 DEF Prepared, Nth
    <3>1. /\ done[x] \/ Pending("Setup", x) \/ Pending("setupActions", x)
          /\ \A k \in Left : Nth(k) = <<"Teardown", x>> =>
               \E j \in k + 1 .. Len(agenda[Job]) : Nth(j) = <<"Setup", x>>
      BY <2>10 DEF IInv, Prepared
    <3>2. Pending("setupActions", w)'
      BY <2>4, <2>9 DEF last
    <3>3. done'[x] \/ Pending("Setup", x)' \/ Pending("setupActions", x)'
      BY <2>3, <2>9, <3>1, <3>2 DEF wsVars
    <3>4. ASSUME NEW k \in Left', agenda'[Job][k] = <<"Teardown", x>>
          PROVE  \E j \in k + 1 .. Len(agenda'[Job]) : agenda'[Job][j] = <<"Setup", x>>
      <4>1. k \notin 1 .. n
        BY <2>4, <2>5, <2>7, <3>4 DEF last, SetupSteps
      <4> DEFINE m == k - n + 1
      <4>2. k \in Int /\ m \in Left \ {1} /\ Nth(m) = <<"Teardown", x>>
        BY <2>7, <3>4, <4>1 DEF Left, Nth
      <4>3. PICK j \in m + 1 .. Len(agenda[Job]) : Nth(j) = <<"Setup", x>>
        BY <3>1, <4>2
      <4>4. j \in Left /\ j # 1 /\ n + j - 1 \in k + 1 .. Len(agenda'[Job])
        BY <2>4, <2>7, <4>2 DEF Left
      <4>5. agenda'[Job][n + j - 1] = <<"Setup", x>>
        BY <2>7, <4>3, <4>4 DEF Nth
      <4> QED  BY <4>4, <4>5
    <3> QED  BY <3>3, <3>4
  <2>18. MainWaits'
    <3> SUFFICES ASSUME phase = "resetting", NEW m \in Left', agenda'[Job][m] = <<"ResetRoot", None>>
                 PROVE  /\ ~done'[Main] \/ \E j \in 1 .. m - 1 : agenda'[Job][j] = <<"Teardown", Main>>
                        /\ \A j \in 1 .. m - 1 : agenda'[Job][j] \notin {<<"Setup", Main>>, <<"setupActions", Main>>}
      BY <2>10 DEF MainWaits, Nth
    <3>1. m \notin 1 .. n
      BY <2>4, <2>5, <2>7 DEF last, SetupSteps
    <3> DEFINE i == m - n + 1
    <3>2. m \in Int /\ i \in Left \ {1} /\ Nth(i) = <<"ResetRoot", None>>
      BY <2>7, <3>1 DEF Left, Nth
    <3>3. /\ ~done[Main] \/ \E j \in 1 .. i - 1 : Nth(j) = <<"Teardown", Main>>
          /\ \A j \in 1 .. i - 1 : Nth(j) \notin {<<"Setup", Main>>, <<"setupActions", Main>>}
      BY <3>2 DEF IInv, MainWaits
    <3>4. w # Main
      <4>1. 1 \in 1 .. i - 1
        BY <3>2 DEF Left
      <4> QED  BY <2>7, <3>3, <4>1
    <3>5. ASSUME NEW j \in 1 .. m - 1
          PROVE  agenda'[Job][j] \notin {<<"Setup", Main>>, <<"setupActions", Main>>}
      <4>1. CASE j \in 1 .. n
        BY <2>4, <2>5, <2>7, <3>4, <4>1 DEF last, SetupSteps
      <4>2. CASE j \notin 1 .. n
        <5>1. j \in Left' /\ j - n + 1 \in 1 .. i - 1
          BY <2>4, <3>2, <4>2 DEF Left
        <5> QED  BY <2>7, <3>3, <4>2, <5>1 DEF Nth
      <4> QED  BY <4>1, <4>2
    <3>6. ASSUME NEW j \in 1 .. i - 1, Nth(j) = <<"Teardown", Main>>
          PROVE  \E k \in 1 .. m - 1 : agenda'[Job][k] = <<"Teardown", Main>>
      <4>1. j \in Left /\ j # 1
        BY <2>7, <3>2, <3>6 DEF Left
      <4>2. n + j - 1 \in 1 .. m - 1 /\ agenda'[Job][n + j - 1] = <<"Teardown", Main>>
        <5>1. n + j - 1 \in 1 .. m - 1
          BY <2>4, <3>2, <4>1
        <5> QED  BY <2>7, <3>6, <4>1, <5>1 DEF Nth
      <4> QED  BY <4>2
    <3> QED  BY <2>3, <3>3, <3>5, <3>6 DEF wsVars
  <2>19. Settling'
    <3>1. ASSUME NEW x \in Files, Settled(x)  PROVE Settled(x)'
      <4>1. Pending("Teardown", x) => Pending("Teardown", x)'
        BY <2>9
      <4>2. CASE x = w
        <5>1. \A v \in Vars(w) : Pending("SetupImpl", v)' /\ Pending("accept", v)'
          BY <2>5, <2>9
        <5> QED  BY <4>2, <5>1 DEF Settled
      <4>3. CASE x # w
        <5>1. ~Pending("setupActions", x)'
          <6>1. ASSUME NEW k \in 1 .. n, new[k] = <<"setupActions", x>>  PROVE FALSE
            <7>1. new[k][1] = "setupActions"
              BY <6>1
            <7>2. k = n
              BY <2>5, <7>1 DEF SetupSteps
            <7> QED  BY <2>4, <4>3, <6>1, <7>2 DEF last
          <6> QED  BY <2>8, <2>9, <6>1
        <5>2. \A v \in Vars(x) : /\ Pending("SetupImpl", v) => Pending("SetupImpl", v)'
                                 /\ Pending("accept", v) => Pending("accept", v)'
          BY <2>9
        <5> QED  BY <2>3, <3>1, <4>1, <5>1, <5>2 DEF Settled, wsVars, varVars
      <4> QED  BY <4>2, <4>3
    <3>2. Main \in Files /\ cached \subseteq Files
      BY DEF Files, IInv, TypeOK
    <3>3. Pending("ResetRoot", None) => Pending("ResetRoot", None)'
      BY <2>9
    <3> QED  BY <2>3, <2>10, <3>1, <3>2, <3>3 DEF IInv, Settling
  <2> QED
    BY <2>8, <2>11, <2>12, <2>13, <2>14, <2>15, <2>16, <2>17, <2>18, <2>19 DEF IInv
<1> QED  OBVIOUS

\* Tear-down actions are run for what was set up.
LEMMA TeardownBalance ==
  ASSUME TypeOK, Balance, NEW W \in SUBSET Files, RunTeardownActions(W), UNCHANGED skipped
  PROVE  /\ tearDown' = [w \in Files |-> tearDown'[w]] /\ active' = [w \in Files |-> active'[w]]
         /\ \A w \in Files : tearDown'[w] = IF w \in W THEN {} ELSE tearDown[w]
         /\ \A w \in Files : \A i \in Identifiers(w) : active'[w][i] = Count(w, i)'
<1>1. /\ active' = [w \in Files |-> [i \in Identifiers(w) |->
                     IF w \in W /\ i \in tearDown[w] THEN active[w][i] - 1 ELSE active[w][i]]]
      /\ tearDown' = [w \in Files |-> IF w \in W THEN {} ELSE tearDown[w]]
  BY DEF RunTeardownActions
<1>2. ASSUME NEW w \in Files, NEW i \in Identifiers(w)
      PROVE  active'[w][i] = Count(w, i)'
  <2>1. active[w][i] = Count(w, i)
    BY DEF Balance
  <2>2. active'[w][i] = IF w \in W /\ i \in tearDown[w] THEN active[w][i] - 1 ELSE active[w][i]
    BY <1>1
  <2>3. tearDown'[w] = IF w \in W THEN {} ELSE tearDown[w]
    BY <1>1
  <2> QED  BY <2>1, <2>2, <2>3 DEF Count
<1>3. tearDown' = [w \in Files |-> tearDown'[w]] /\ active' = [w \in Files |-> active'[w]]
  BY <1>1
<1>4. \A w \in Files : tearDown'[w] = IF w \in W THEN {} ELSE tearDown[w]
  BY <1>1
<1> QED  BY <1>2, <1>3, <1>4

LEMMA TeardownStep ==
  ASSUME IInv, NEW w \in Files, Teardown(Job, w)
  PROVE  IInv'
<1> DEFINE new == Each(VariablesOf[w], TeardownCalls)
           n == Len(new)
<1>1. /\ new \in Seq(Call)
      /\ \A p \in 1 .. n : new[p][1] \in TeardownSteps /\ new[p][2] \in Vars(w)
  BY TeardownList
<1>2. /\ Calls(Job, "Teardown", w) /\ Make(Job, new)
      /\ done' = [done EXCEPT ![w] = FALSE] /\ RunTeardownActions({w})
      /\ UNCHANGED <<place, cached, destroyed, overlapped, skipped, varVars>>
  BY DEF Teardown
<1> HIDE DEF new
<1>3. n \in Nat
  BY <1>1
<1>4. \A k \in 1 .. Len(new) : new[k][1] \in SetupSteps \union TeardownSteps \union {"setupActions"}
  BY <1>1
<1>5. /\ 1 \in Left /\ Nth(1) = <<"Teardown", w>>
      /\ Len(agenda[Job]) \in Nat /\ Len(agenda'[Job]) = Len(agenda[Job]) + n - 1
      /\ \A k \in 1 .. n : k \in Left' /\ agenda'[Job][k] = new[k]
      /\ \A k \in Left : k # 1 => n + k - 1 \in Left' /\ agenda'[Job][n + k - 1] = agenda[Job][k]
      /\ \A k \in Left' : k \notin 1 .. n =>
           k - n + 1 \in Left \ {1} /\ agenda'[Job][k] = agenda[Job][k - n + 1]
  BY <1>1, <1>2, Advance DEF IInv
<1>6. /\ Busy' /\ IdleWorkers' /\ QuietPhases' /\ Constructing' /\ agenda' \in [Threads -> Seq(Call)]
      /\ \A k \in Left \ {1} : /\ Nth(k)[1] \notin TeardownSteps
                               /\ \A f \in Files : Nth(k) # <<"setupActions", f>>
      /\ \A k \in Left' : k \notin 1 .. n => \A j \in 1 .. k - 1 :
           j \notin 1 .. n => j - n + 1 \in 1 .. k - n
      /\ phase \in {"setup", "resetting", "destroying"}
      /\ phase' = IF agenda'[Job] # << >> THEN phase
                  ELSE IF phase = "destroying" THEN "gone" ELSE "ready"
  BY <1>1, <1>2, <1>4, ExpandKeeps
<1>7. /\ \A o, y : Pending(o, y)' =>
            \/ \E k \in Left \ {1} : Nth(k) = <<o, y>>
            \/ \E k \in 1 .. n : new[k] = <<o, y>>
      /\ \A o, y : Pending(o, y) /\ <<o, y>> # <<"Teardown", w>> => Pending(o, y)'
  BY <1>1, <1>2, Expanded, Zenon DEF IInv
<1> HIDE DEF n
<1>8. /\ \A f \in Files : ~Pending("setupActions", f)'
      /\ \A k \in 1 .. n, o \in Operation : \A y : new[k] = <<o, y>> => o \in TeardownSteps
  <2>1. ASSUME NEW k \in 1 .. n, NEW o \in Operation, NEW y, new[k] = <<o, y>>
        PROVE  o \in TeardownSteps
    BY <1>1, <2>1 DEF n
  <2>2. ASSUME NEW f \in Files, Pending("setupActions", f)'  PROVE FALSE
    <3>1. \E k \in 1 .. n : new[k] = <<"setupActions", f>>
      BY <1>6, <1>7, <2>2
    <3> QED  BY <2>1, <3>1 DEF TeardownSteps, Operation
  <2> QED  BY <2>1, <2>2
<1>9. /\ done' \in [Files -> BOOLEAN]
      /\ \A x \in Files : done'[x] = IF x = w THEN FALSE ELSE done[x]
  BY <1>2 DEF IInv, TypeOK
<1>10. /\ tearDown' = [x \in Files |-> tearDown'[x]] /\ active' = [x \in Files |-> active'[x]]
       /\ \A x \in Files : tearDown'[x] = IF x = w THEN {} ELSE tearDown[x]
       /\ \A x \in Files : \A i \in Identifiers(x) : active'[x][i] = Count(x, i)'
  BY <1>2, TeardownBalance DEF IInv
<1>11. phase' \in Phase
  BY <1>6 DEF Phase
<1>12. TypeOK'
  BY <1>2, <1>6, <1>9, <1>10, <1>11 DEF IInv, TypeOK, varVars
<1>13. IsFiniteSet(cached')
  BY <1>2 DEF IInv
<1>14. Balance'
  BY <1>2, <1>9, <1>10 DEF IInv, Balance
<1>15. Held'
  <2>1. \A f \in Files \ {Main} : tearDown'[f] # {} => f \in cached'
    BY <1>2, <1>10 DEF IInv, Held
  <2>2. ASSUME NEW f \in Files \ {Main}, NEW k \in Left',
               agenda'[Job][k] \in {<<"Setup", f>>, <<"setupActions", f>>}
        PROVE  f \in cached \/ \E j \in 1 .. k - 1 : agenda'[Job][j] = <<"LoadProcedure", f>>
    <3>1. k \notin 1 .. n
      BY <1>5, <1>8, <2>2 DEF Operation, TeardownSteps
    <3> DEFINE m == k - n + 1
    <3>2. k \in Int /\ m \in Left \ {1} /\ Nth(m) = agenda'[Job][k]
      BY <1>5, <3>1 DEF Left, Nth
    <3>3. f \in cached \/ \E j \in 1 .. m - 1 : Nth(j) = <<"LoadProcedure", f>>
      BY <2>2, <3>2 DEF IInv, Held
    <3>4. ASSUME NEW j \in 1 .. m - 1, Nth(j) = <<"LoadProcedure", f>>
          PROVE  \E i \in 1 .. k - 1 : agenda'[Job][i] = <<"LoadProcedure", f>>
      <4>1. j \in Left /\ j # 1
        BY <1>5, <3>2, <3>4 DEF Left
      <4>2. agenda'[Job][n + j - 1] = <<"LoadProcedure", f>>
        BY <1>5, <3>4, <4>1 DEF Nth
      <4>3. n + j - 1 \in 1 .. k - 1
        BY <1>3, <3>2, <4>1
      <4> QED  BY <4>2, <4>3
    <3> QED  BY <3>3, <3>4
  <2> QED  BY <1>2, <2>1, <2>2 DEF Held, Nth
<1>16. SetupShape'
  BY <1>8 DEF SetupShape, Pending
<1>17. TeardownShape'
  <2> SUFFICES ASSUME NEW k \in Left', agenda'[Job][k][1] \in TeardownSteps
               PROVE  /\ \A j \in 1 .. k - 1 : agenda'[Job][j][1] \in TeardownSteps
                      /\ \A f \in Files : agenda'[Job][k][2] \in Vars(f) => ~done'[f]
    BY DEF TeardownShape, Nth
  <2>1. k \in 1 .. n
    BY <1>5, <1>6 DEF Nth
  <2>2. \A j \in 1 .. k : j \in 1 .. n
    BY <1>3, <2>1
  <2>3. \A j \in 1 .. k - 1 : agenda'[Job][j][1] \in TeardownSteps
    <3> TAKE j \in 1 .. k - 1
    <3>1. j \in 1 .. n
      BY <1>3, <2>1
    <3> QED  BY <1>1, <1>5, <3>1 DEF n
  <2>4. agenda'[Job][k][2] \in Vars(w)
    BY <1>1, <1>5, <2>1 DEF n
  <2>5. \A f \in Files : f # w => Vars(f) \intersect Vars(w) = {}
    BY ProcedureAssumption
  <2> QED  BY <1>9, <2>3, <2>4, <2>5
<1>18. Destroying'
  <2>1. \A k \in Left' : agenda'[Job][k][1] = "TearDownProcedures" =>
          phase' = "destroying" /\ k = Len(agenda'[Job]) - 1
    <3> TAKE k \in Left'
    <3> HAVE agenda'[Job][k][1] = "TearDownProcedures"
    <3>1. k \notin 1 .. n
      BY <1>1, <1>5 DEF TeardownSteps, n
    <3>2. k \in Int /\ k - n + 1 \in Left /\ Nth(k - n + 1)[1] = "TearDownProcedures"
      BY <1>5, <3>1 DEF Left, Nth
    <3>3. agenda'[Job] # << >>
      BY DEF Left
    <3>4. phase = "destroying" /\ k - n + 1 = Len(agenda[Job]) - 1
      BY <3>2 DEF IInv, Destroying
    <3> QED  BY <1>3, <1>5, <1>6, <3>2, <3>3, <3>4
  <2>2. phase' \in {"destroying", "gone"} <=> phase = "destroying"
    BY <1>6
  <2>3. destroyed # {} => phase = "destroying" /\ ~Pending("TearDownProcedures", None)'
    <3>1. ASSUME Pending("TearDownProcedures", None)'  PROVE Pending("TearDownProcedures", None)
      <4>1. \A k \in 1 .. n : new[k] # <<"TearDownProcedures", None>>
        BY <1>8 DEF Operation, TeardownSteps
      <4> QED  BY <1>7, <3>1, <4>1 DEF Pending
    <3> QED  BY <1>6, <3>1 DEF IInv, Destroying
  <2>4. ASSUME phase = "destroying"
        PROVE  /\ \A k \in Left' :
                    \/ agenda'[Job][k][1] \in TeardownSteps
                    \/ agenda'[Job][k] \in {<<"Teardown", Main>>, <<"TearDownProcedures", None>>,
                                            <<"ResetRoot", None>>}
               /\ tearDown'[Main] # {} => Pending("Teardown", Main)'
               /\ cached' # {} => Pending("TearDownProcedures", None)'
    <3>1. /\ \A k \in Left : \/ Nth(k)[1] \in TeardownSteps
                             \/ Nth(k) \in {<<"Teardown", Main>>, <<"TearDownProcedures", None>>,
                                            <<"ResetRoot", None>>}
          /\ tearDown[Main] # {} => Pending("Teardown", Main)
          /\ cached # {} => Pending("TearDownProcedures", None)
      BY <2>4 DEF IInv, Destroying
    <3>2. w = Main
      BY <1>5, <3>1 DEF TeardownSteps
    <3>3. tearDown'[Main] = {}
      BY <1>10, <3>2
    <3>4. ASSUME NEW k \in Left'
          PROVE  \/ agenda'[Job][k][1] \in TeardownSteps
                 \/ agenda'[Job][k] \in {<<"Teardown", Main>>, <<"TearDownProcedures", None>>,
                                         <<"ResetRoot", None>>}
      <4>1. CASE k \in 1 .. n
        BY <1>1, <1>5, <4>1 DEF n
      <4>2. CASE k \notin 1 .. n
        BY <1>5, <3>1, <4>2 DEF Nth
      <4> QED  BY <4>1, <4>2
    <3> QED  BY <1>2, <1>7, <3>1, <3>3, <3>4
  <2> QED  BY <1>2, <2>1, <2>2, <2>3, <2>4 DEF Destroying, Nth
<1>19. Prepared'
  <2> SUFFICES ASSUME phase' \in {"setup", "resetting", "ready"}, NEW x \in Executing
               PROVE  /\ done'[x] \/ Pending("Setup", x)' \/ Pending("setupActions", x)'
                      /\ \A k \in Left' : agenda'[Job][k] = <<"Teardown", x>> =>
                           \E j \in k + 1 .. Len(agenda'[Job]) : agenda'[Job][j] = <<"Setup", x>>
    BY <1>6 DEF Prepared, Nth
  <2>0. x \in Files
    BY ProcedureAssumption DEF Executing, Files
  <2>1. /\ done[x] \/ Pending("Setup", x) \/ Pending("setupActions", x)
        /\ \A k \in Left : Nth(k) = <<"Teardown", x>> =>
             \E j \in k + 1 .. Len(agenda[Job]) : Nth(j) = <<"Setup", x>>
    BY <1>6 DEF IInv, Prepared
  <2>2. done'[x] \/ Pending("Setup", x)' \/ Pending("setupActions", x)'
    <3>1. CASE x = w
      <4>1. PICK j \in 1 + 1 .. Len(agenda[Job]) : Nth(j) = <<"Setup", x>>
        BY <1>5, <2>1, <3>1
      <4>2. Pending("Setup", x)
        BY <4>1 DEF Pending, Left
      <4> QED  BY <1>7, <4>2
    <3>2. CASE x # w
      BY <1>7, <1>9, <2>0, <2>1, <3>2
    <3> QED  BY <3>1, <3>2
  <2>3. ASSUME NEW k \in Left', agenda'[Job][k] = <<"Teardown", x>>
        PROVE  \E j \in k + 1 .. Len(agenda'[Job]) : agenda'[Job][j] = <<"Setup", x>>
    <3>1. k \notin 1 .. n
      BY <1>5, <1>8, <2>3 DEF Operation, TeardownSteps
    <3> DEFINE m == k - n + 1
    <3>2. k \in Int /\ m \in Left \ {1} /\ Nth(m) = <<"Teardown", x>>
      BY <1>5, <2>3, <3>1 DEF Left, Nth
    <3>3. PICK j \in m + 1 .. Len(agenda[Job]) : Nth(j) = <<"Setup", x>>
      BY <2>1, <3>2
    <3>4. j \in Left /\ j # 1 /\ n + j - 1 \in k + 1 .. Len(agenda'[Job])
      BY <1>3, <1>5, <3>2 DEF Left
    <3>5. agenda'[Job][n + j - 1] = <<"Setup", x>>
      BY <1>5, <3>3, <3>4 DEF Nth
    <3> QED  BY <3>4, <3>5
  <2> QED  BY <2>2, <2>3
<1>20. MainWaits'
  <2> SUFFICES ASSUME phase' = "resetting", NEW m \in Left', agenda'[Job][m] = <<"ResetRoot", None>>
               PROVE  /\ ~done'[Main] \/ \E j \in 1 .. m - 1 : agenda'[Job][j] = <<"Teardown", Main>>
                      /\ \A j \in 1 .. m - 1 : agenda'[Job][j] \notin {<<"Setup", Main>>, <<"setupActions", Main>>}
    BY DEF MainWaits, Nth
  <2>1. m \notin 1 .. n /\ Main \in Files
    BY <1>5, <1>8 DEF Operation, TeardownSteps, Files
  <2> DEFINE i == m - n + 1
  <2>2. m \in Int /\ i \in Left \ {1} /\ Nth(i) = <<"ResetRoot", None>>
    BY <1>5, <2>1 DEF Left, Nth
  <2>3. /\ ~done[Main] \/ \E j \in 1 .. i - 1 : Nth(j) = <<"Teardown", Main>>
        /\ \A j \in 1 .. i - 1 : Nth(j) \notin {<<"Setup", Main>>, <<"setupActions", Main>>}
    BY <1>6, <2>2 DEF IInv, MainWaits
  <2>4. ASSUME NEW j \in 1 .. m - 1
        PROVE  agenda'[Job][j] \notin {<<"Setup", Main>>, <<"setupActions", Main>>}
    <3>1. CASE j \in 1 .. n
      BY <1>5, <1>8, <3>1 DEF Operation, TeardownSteps
    <3>2. CASE j \notin 1 .. n
      <4>1. j \in Left' /\ j - n + 1 \in 1 .. i - 1
        BY <1>3, <2>2, <3>2 DEF Left
      <4> QED  BY <1>5, <2>3, <3>2, <4>1 DEF Nth
    <3> QED  BY <3>1, <3>2
  <2>5. ASSUME NEW j \in 1 .. i - 1, Nth(j) = <<"Teardown", Main>>, w # Main
        PROVE  \E k \in 1 .. m - 1 : agenda'[Job][k] = <<"Teardown", Main>>
    <3>1. j \in Left /\ j # 1
      BY <1>5, <2>2, <2>5 DEF Left
    <3>2. n + j - 1 \in 1 .. m - 1
      BY <1>3, <2>2, <3>1
    <3>3. agenda'[Job][n + j - 1] = <<"Teardown", Main>>
      BY <1>5, <2>5, <3>1 DEF Nth
    <3> QED  BY <3>2, <3>3
  <2> QED  BY <1>9, <2>1, <2>3, <2>4, <2>5
<1>21. Settling'
  <2>1. ASSUME NEW x \in Files, Settled(x)  PROVE Settled(x)'
    <3>1. CASE x = w
      BY <1>8, <1>9, <3>1 DEF Settled
    <3>2. CASE x # w
      <4>1. Pending("Teardown", x) => Pending("Teardown", x)'
        BY <1>7, <3>2
      <4>2. \A v \in Vars(x) : /\ Pending("SetupImpl", v) => Pending("SetupImpl", v)'
                               /\ Pending("accept", v) => Pending("accept", v)'
        BY <1>7
      <4> QED  BY <1>2, <1>8, <1>9, <2>1, <3>2, <4>1, <4>2 DEF Settled, varVars
    <3> QED  BY <3>1, <3>2
  <2>2. Main \in Files /\ cached \subseteq Files
    BY DEF Files, IInv, TypeOK
  <2>3. Pending("ResetRoot", None) => Pending("ResetRoot", None)'
    BY <1>7
  <2> QED  BY <1>2, <1>6, <2>1, <2>2, <2>3 DEF IInv, Settling
<1> QED
  BY <1>6, <1>12, <1>13, <1>14, <1>15, <1>16, <1>17, <1>18, <1>19, <1>20, <1>21 DEF IInv

LEMMA TearDownProceduresStep ==
  ASSUME IInv, TearDownProcedures(Job)
  PROVE  IInv'
<1>1. /\ Calls(Job, "TearDownProcedures", None) /\ Return(Job)
      /\ cached' = {} /\ destroyed' = cached /\ RunTeardownActions(cached)
      /\ UNCHANGED <<place, overlapped, done, skipped, varVars>>
  BY DEF TearDownProcedures
<1>2. /\ agenda' \in [Threads -> Seq(Call)]
      /\ \A u \in Workers : agenda'[u] = agenda[u]
      /\ Len(agenda[Job]) \in Nat /\ Len(agenda'[Job]) = Len(agenda[Job]) - 1
      /\ 1 \in Left /\ Nth(1) = <<"TearDownProcedures", None>>
      /\ \A k \in Left' : k + 1 \in Left \ {1} /\ agenda'[Job][k] = agenda[Job][k + 1]
      /\ \A o, y : Pending(o, y) /\ <<o, y>> # <<"TearDownProcedures", None>> => Pending(o, y)'
      /\ phase' = IF agenda'[Job] = << >> THEN EndOf[phase] ELSE phase
  BY <1>1, Returned DEF IInv
<1>3. phase = "destroying" /\ Len(agenda[Job]) = 2
  <2>1. phase = "destroying" /\ 1 = Len(agenda[Job]) - 1
    <3>1. \A k \in Left : Nth(k)[1] = "TearDownProcedures" =>
            phase = "destroying" /\ k = Len(agenda[Job]) - 1
      BY Zenon DEF IInv, Destroying
    <3>2. Nth(1)[1] = "TearDownProcedures"
      BY <1>2
    <3> QED  BY <1>2, <3>1, <3>2
  <2> QED  BY <1>2, <2>1
<1>4. phase' = "destroying"
  <2>1. agenda'[Job] # << >>
    <3>1. Len(agenda'[Job]) = 1
      BY <1>2, <1>3
    <3>2. Len(<< >>) = 0
      OBVIOUS
    <3> QED  BY <3>1, <3>2
  <2> QED  BY <1>2, <1>3, <2>1
<1>5. destroyed = {}
  <2>1. Pending("TearDownProcedures", None)
    BY <1>2 DEF Pending
  <2> QED  BY <2>1 DEF IInv, Destroying
<1>6. cached \in SUBSET Files /\ Main \in Files \ cached
  BY ProcedureAssumption DEF IInv, TypeOK, Files
<1>7. /\ tearDown' = [x \in Files |-> tearDown'[x]] /\ active' = [x \in Files |-> active'[x]]
      /\ \A x \in Files : tearDown'[x] = IF x \in cached THEN {} ELSE tearDown[x]
      /\ \A x \in Files : \A i \in Identifiers(x) : active'[x][i] = Count(x, i)'
  BY <1>1, <1>6, TeardownBalance DEF IInv
\* What else there is to do does not set up, tear down or load anything.
<1>8. \A k \in Left' : agenda'[Job][k][1] \notin {"TearDownProcedures", "LoadProcedure"} \union SetupSteps
                       /\ \A w \in Files : agenda'[Job][k] \notin {<<"Setup", w>>, <<"setupActions", w>>}
  <2> TAKE k \in Left'
  <2>1. k = 1 /\ 2 \in Left /\ agenda'[Job][k] = Nth(2)
    <3>1. k \in 1 .. 1
      BY <1>2, <1>3 DEF Left
    <3>2. k = 1 /\ 1 + 1 = 2
      BY <3>1
    <3> QED  BY <1>2, <3>2 DEF Nth
  <2>2. \/ Nth(2)[1] \in TeardownSteps
        \/ Nth(2) \in {<<"Teardown", Main>>, <<"TearDownProcedures", None>>, <<"ResetRoot", None>>}
    BY <1>3, <2>1 DEF IInv, Destroying
  <2>3. Nth(2)[1] # "TearDownProcedures"
    <3>1. ASSUME Nth(2)[1] = "TearDownProcedures"  PROVE 2 = 2 - 1
      BY <1>3, <2>1, <3>1 DEF IInv, Destroying
    <3> QED  BY <3>1
  <2> QED  BY <2>1, <2>2, <2>3 DEF TeardownSteps, SetupSteps
<1>9. TypeOK'
  <2>1. \A x \in Files : tearDown'[x] \subseteq Identifiers(x)
    BY <1>7 DEF IInv, TypeOK
  <2>2. phase' \in Phase
    BY <1>4 DEF Phase
  <2> QED  BY <1>1, <1>2, <1>7, <2>1, <2>2 DEF IInv, TypeOK, varVars
<1>10. IsFiniteSet(cached')
  BY <1>1, FS_EmptySet
<1>11. Balance'
  <2> SUFFICES ASSUME NEW w \in Files
               PROVE  /\ ~done'[w] => tearDown'[w] = {} \/ skipped'[w] # {}
                      /\ done'[w] => skipped'[w] = {}
                      /\ done'[w] /\ w \notin destroyed' => tearDown'[w] = Identifiers(w)
    BY <1>7 DEF Balance
  <2> QED  BY <1>1, <1>5, <1>7 DEF IInv, Balance
<1>12. Busy' /\ IdleWorkers' /\ QuietPhases'
  BY <1>1, <1>2, <1>3, <1>4 DEF IInv, Busy, IdleWorkers, QuietPhases, Left
<1>13. Held'
  <2>1. \A w \in Files \ {Main} : tearDown'[w] = {}
    BY <1>7 DEF IInv, Held
  <2> QED  BY <1>8, <2>1 DEF Held, Nth
<1>14. SetupShape' /\ Constructing'
  BY <1>4, <1>8 DEF SetupShape, Constructing, Nth
<1>15. TeardownShape'
  <2> SUFFICES ASSUME NEW k \in Left', agenda'[Job][k][1] \in TeardownSteps
               PROVE  FALSE
    BY DEF TeardownShape, Nth
  <2>1. k + 1 \in Left /\ Nth(k + 1)[1] \in TeardownSteps /\ 1 \in 1 .. (k + 1) - 1
    <3>1. k + 1 \in Left \ {1} /\ k \in Int
      BY <1>2 DEF Left
    <3> QED  BY <1>2, <3>1 DEF Nth, Left
  <2> QED  BY <1>2, <2>1 DEF IInv, TeardownShape, TeardownSteps
<1>16. Destroying'
  <2>1. \A k \in Left' :
          \/ agenda'[Job][k][1] \in TeardownSteps
          \/ agenda'[Job][k] \in {<<"Teardown", Main>>, <<"TearDownProcedures", None>>,
                                  <<"ResetRoot", None>>}
    BY <1>2, <1>3 DEF IInv, Destroying, Nth
  <2>2. tearDown'[Main] # {} => Pending("Teardown", Main)'
    BY <1>2, <1>3, <1>6, <1>7 DEF IInv, Destroying
  <2>3. ~Pending("TearDownProcedures", None)'
    BY <1>8 DEF Pending, Nth
  <2> QED  BY <1>1, <1>4, <1>8, <2>1, <2>2, <2>3 DEF Destroying, Nth
<1>17. Prepared' /\ MainWaits' /\ Settling'
  BY <1>4 DEF Prepared, MainWaits, Settling
<1> QED
  BY <1>9, <1>10, <1>11, <1>12, <1>13, <1>14, <1>15, <1>16, <1>17 DEF IInv

-----------------------------------------------------------------------------
(* The operations on the job.                                                *)

\* A job that does nothing has nothing left to do.
LEMMA NothingLeft ==
  ASSUME agenda[Job] = << >>
  PROVE  Left = {} /\ \A o, y : ~Pending(o, y)
BY DEF Left, Pending

LEMMA StartFinishStep ==
  ASSUME IInv, Start \/ Finish
  PROVE  IInv'
<1>1. /\ phase \in {"ready", "running"} /\ phase' \in {"running", "finished"}
      /\ UNCHANGED <<agenda, place, cached, destroyed, overlapped, wsVars, varVars>>
  BY DEF Start, Finish
<1>2. agenda[Job] = << >> /\ agenda'[Job] = << >>
  BY <1>1 DEF IInv, Busy
<1>3. Left' = {} /\ Left = {}
  BY <1>2 DEF Left
<1>4. TypeOK' /\ IsFiniteSet(cached') /\ Busy' /\ IdleWorkers' /\ QuietPhases' /\ Balance'
  BY <1>1, <1>2 DEF IInv, TypeOK, Phase, Busy, IdleWorkers, QuietPhases, Balance, Count, wsVars, varVars
<1>5. Held' /\ SetupShape' /\ TeardownShape' /\ Constructing'
  BY <1>1, <1>3 DEF IInv, Held, SetupShape, TeardownShape, Constructing, wsVars
<1>6. Destroying' /\ MainWaits' /\ Settling'
  BY <1>1, <1>3 DEF IInv, Destroying, MainWaits, Settling
<1>7. Prepared'
  BY <1>1, <1>3 DEF IInv, Prepared, Pending, wsVars
<1> QED  BY <1>4, <1>5, <1>6, <1>7 DEF IInv

LEMMA DestroyStep ==
  ASSUME IInv, Destroy
  PROVE  IInv'
<1> DEFINE calls == << <<"Teardown", Main>>, <<"TearDownProcedures", None>>, <<"ResetRoot", None>> >>
<1>1. /\ phase \in {"ready", "running", "finished", "failed"} /\ phase' = "destroying"
      /\ agenda' = [agenda EXCEPT ![Job] = calls]
      /\ UNCHANGED <<place, cached, destroyed, overlapped, wsVars, varVars>>
  BY DEF Destroy, Begin
<1>2. /\ Len(calls) = 3 /\ calls \in Seq(Call)
      /\ calls[1] = <<"Teardown", Main>> /\ calls[2] = <<"TearDownProcedures", None>>
      /\ calls[3] = <<"ResetRoot", None>>
  BY DEF Call, Operation, Files
<1> HIDE DEF calls
<1>3. /\ agenda' \in [Threads -> Seq(Call)] /\ agenda'[Job] = calls
      /\ \A u \in Workers : agenda'[u] = agenda[u]
  BY <1>1, <1>2, ProcedureAssumption DEF IInv, TypeOK, Threads
<1>4. /\ Len(agenda'[Job]) = 3 /\ Left' = 1 .. 3
      /\ \A k \in Left' : k = 1 \/ k = 2 \/ k = 3
      /\ agenda'[Job][1] = <<"Teardown", Main>> /\ agenda'[Job][2] = <<"TearDownProcedures", None>>
      /\ agenda'[Job][3] = <<"ResetRoot", None>>
  <2>1. Left' = 1 .. 3
    BY <1>2, <1>3 DEF Left
  <2> QED  BY <1>2, <1>3, <2>1
<1>5. TypeOK' /\ IsFiniteSet(cached') /\ Busy' /\ IdleWorkers' /\ QuietPhases' /\ Balance'
  <2>1. TypeOK' /\ IsFiniteSet(cached')
    BY <1>1, <1>3 DEF IInv, TypeOK, Phase, wsVars, varVars
  <2>2. Busy'
    BY <1>1, <1>4 DEF Busy
  <2> QED  BY <1>1, <1>3, <2>1, <2>2 DEF IInv, IdleWorkers, QuietPhases, Balance, Count, wsVars
<1>6. Held' /\ SetupShape' /\ TeardownShape' /\ Constructing'
  <2>1. \A k \in Left', w \in Files : agenda'[Job][k] \notin {<<"Setup", w>>, <<"setupActions", w>>}
    BY <1>4
  <2>2. \A k \in Left' : agenda'[Job][k][1] \notin TeardownSteps \union {"LoadProcedure"}
    BY <1>4 DEF TeardownSteps
  <2> QED  BY <1>1, <2>1, <2>2 DEF IInv, Held, SetupShape, TeardownShape, Constructing, Nth, wsVars
<1>7. Destroying'
  <2>1. destroyed' = {}
    BY <1>1 DEF IInv, Destroying
  <2>2. Pending("Teardown", Main)' /\ Pending("TearDownProcedures", None)'
    BY <1>4 DEF Pending, Nth
  <2> QED  BY <1>1, <1>4, <2>1, <2>2 DEF Destroying, Nth
<1>8. Prepared' /\ MainWaits' /\ Settling'
  BY <1>1 DEF Prepared, MainWaits, Settling
<1> QED  BY <1>5, <1>6, <1>7, <1>8 DEF IInv

LEMMA ConstructStep ==
  ASSUME IInv, Construct
  PROVE  IInv'
<1>0. PICK e : e = Each(Uses, SetupUse)
  OBVIOUS
<1> DEFINE first == <<"Setup", Main>>
           calls == <<first>> \o e
<1>1. /\ e \in Seq(Call)
      /\ \A w \in Executing \ {Main} : \E p \in 1 .. Len(e) : e[p] = <<"Setup", w>>
      /\ \A p \in 1 .. Len(e) : \E f \in Files :
           \/ e[p] = <<"LoadProcedure", f>>
           \/ /\ e[p] = <<"Setup", f>>
              /\ p - 1 \in 1 .. Len(e) /\ e[p - 1] = <<"LoadProcedure", f>>
  <2>1. LoadsAndSetsUp(e)
    BY <1>0, ConstructList, Zenon
  <2> QED  BY <2>1 DEF LoadsAndSetsUp
<1>2. /\ phase = "new" /\ phase' = "setup" /\ agenda' = [agenda EXCEPT ![Job] = calls]
      /\ UNCHANGED <<place, cached, destroyed, overlapped, wsVars, varVars>>
  BY <1>0 DEF Construct, Begin
<1>3. /\ calls \in Seq(Call) /\ Len(calls) = Len(e) + 1 /\ Len(e) \in Nat
      /\ calls[1] = <<"Setup", Main>>
      /\ \A p \in 1 .. Len(e) : p + 1 \in 1 .. Len(calls) /\ calls[p + 1] = e[p]
      /\ \A k \in 1 .. Len(calls) : k # 1 => k - 1 \in 1 .. Len(e) /\ calls[k] = e[k - 1]
  <2>1. first \in Call /\ <<first>> \in Seq(Call) /\ Len(<<first>>) = 1 /\ <<first>>[1] = first
    BY DEF Call, Operation, Files
  <2> DEFINE a == <<first>>
  <2> HIDE DEF a
  <2>2. /\ a \o e \in Seq(Call) /\ Len(a \o e) = 1 + Len(e)
        /\ \A i \in 1 .. 1 + Len(e) : (a \o e)[i] = IF i <= 1 THEN a[i] ELSE e[i - 1]
    BY <1>1, <2>1, ConcatProperties DEF a
  <2>3. Len(e) \in Nat /\ calls = a \o e
    BY <1>1 DEF a
  <2> HIDE DEF calls, first
  <2>4. /\ calls[1] = first
        /\ \A p \in 1 .. Len(e) : p + 1 \in 1 .. Len(calls) /\ calls[p + 1] = e[p]
        /\ \A k \in 1 .. Len(calls) : k # 1 => k - 1 \in 1 .. Len(e) /\ calls[k] = e[k - 1]
    <3>1. calls[1] = first
      BY <2>1, <2>2, <2>3 DEF a
    <3>2. ASSUME NEW p \in 1 .. Len(e)  PROVE p + 1 \in 1 .. Len(calls) /\ calls[p + 1] = e[p]
      <4>1. p + 1 \in 1 .. 1 + Len(e) /\ ~(p + 1 <= 1) /\ (p + 1) - 1 = p
        BY <2>3
      <4> QED  BY <2>2, <2>3, <4>1
    <3>3. ASSUME NEW k \in 1 .. Len(calls), k # 1  PROVE k - 1 \in 1 .. Len(e) /\ calls[k] = e[k - 1]
      BY <2>2, <2>3, <3>3
    <3> QED  BY <3>1, <3>2, <3>3
  <2> QED  BY <2>2, <2>3, <2>4 DEF first
<1> HIDE DEF calls
<1>4. /\ agenda' \in [Threads -> Seq(Call)] /\ agenda'[Job] = calls
      /\ \A u \in Workers : agenda'[u] = agenda[u]
      /\ Left' = 1 .. Len(calls) /\ 1 \in Left'
  <2>1. /\ agenda' \in [Threads -> Seq(Call)] /\ agenda'[Job] = calls
        /\ \A u \in Workers : agenda'[u] = agenda[u]
    BY <1>2, <1>3, ProcedureAssumption DEF IInv, TypeOK, Threads
  <2> QED  BY <1>3, <2>1 DEF Left
<1>5. ASSUME NEW k \in Left'
      PROVE  \E f \in Files :
               \/ k = 1 /\ calls[k] = <<"Setup", Main>>
               \/ calls[k] = <<"LoadProcedure", f>>
               \/ calls[k] = <<"Setup", f>> /\ \E j \in 1 .. k - 1 : calls[j] = <<"LoadProcedure", f>>
  <2>1. CASE k = 1
    <3>1. Main \in Files
      BY DEF Files
    <3> QED  BY <1>3, <2>1, <3>1
  <2>2. CASE k # 1
    <3>1. k \in Int /\ k - 1 \in 1 .. Len(e) /\ calls[k] = e[k - 1]
      BY <1>3, <1>4, <2>2
    <3> PICK f \in Files :
           \/ e[k - 1] = <<"LoadProcedure", f>>
           \/ /\ e[k - 1] = <<"Setup", f>>
              /\ (k - 1) - 1 \in 1 .. Len(e) /\ e[(k - 1) - 1] = <<"LoadProcedure", f>>
      BY <1>1, <3>1
    <3>2. (k - 1) - 1 \in 1 .. Len(e) => k - 1 \in 1 .. k - 1 /\ calls[k - 1] = e[(k - 1) - 1]
      <4>1. k - 1 \in 1 .. k - 1 /\ ((k - 1) - 1) + 1 = k - 1
        BY <3>1
      <4> QED  BY <1>3, <4>1
    <3> QED  BY <3>1, <3>2
  <2> QED  BY <2>1, <2>2
<1>6. ASSUME NEW k \in Left'
      PROVE  /\ calls[k][1] \in {"Setup", "LoadProcedure"}
             /\ \A w \in Files \ {Main} : calls[k] = <<"Setup", w>> =>
                  \E j \in 1 .. k - 1 : calls[j] = <<"LoadProcedure", w>>
  <2> PICK f \in Files :
               \/ k = 1 /\ calls[k] = <<"Setup", Main>>
               \/ calls[k] = <<"LoadProcedure", f>>
               \/ calls[k] = <<"Setup", f>> /\ \E j \in 1 .. k - 1 : calls[j] = <<"LoadProcedure", f>>
    BY <1>5
  <2> QED  OBVIOUS
<1>7. TypeOK' /\ IsFiniteSet(cached') /\ Busy' /\ IdleWorkers' /\ QuietPhases' /\ Balance'
  <2>1. TypeOK' /\ IsFiniteSet(cached')
    BY <1>2, <1>4 DEF IInv, TypeOK, Phase, wsVars, varVars
  <2>2. Busy'
    <3>1. agenda'[Job] # << >>
      BY <1>3, <1>4
    <3> QED  BY <1>2, <3>1 DEF Busy
  <2>3. QuietPhases'
    BY <1>2 DEF IInv, QuietPhases, Quiet
  <2> QED  BY <1>2, <1>4, <2>1, <2>2, <2>3 DEF IInv, IdleWorkers, Balance, Count, wsVars
<1>8. Held'
  <2>1. \A w \in Files \ {Main} : tearDown'[w] # {} => w \in cached'
    BY <1>2 DEF IInv, Held, wsVars
  <2>2. \A k \in Left', w \in Files : calls[k] # <<"setupActions", w>>
    BY <1>6
  <2> QED  BY <1>4, <1>6, <2>1, <2>2, ZenonT(60) DEF Held, Nth
<1>9. SetupShape' /\ TeardownShape' /\ Constructing' /\ Destroying' /\ MainWaits'
  <2>1. destroyed' = {}
    BY <1>2 DEF IInv, Destroying
  <2>2. \A k \in Left' : calls[k][1] \notin TeardownSteps \union {"setupActions", "TearDownProcedures"}
    BY <1>6 DEF TeardownSteps
  <2> QED
    BY <1>2, <1>4, <2>1, <2>2 DEF SetupShape, TeardownShape, Constructing, Destroying, MainWaits, Nth
<1>10. Prepared'
  <2>1. \A k \in Left', w \in Files : calls[k] # <<"Teardown", w>>
    BY <1>6
  <2>2. ASSUME NEW w \in Executing  PROVE Pending("Setup", w)'
    <3>1. CASE w = Main
      BY <1>3, <1>4, <3>1 DEF Pending, Nth
    <3>2. CASE w # Main
      <4> PICK p \in 1 .. Len(e) : e[p] = <<"Setup", w>>
        BY <1>1, <3>2
      <4>1. p + 1 \in Left' /\ calls[p + 1] = <<"Setup", w>>
        BY <1>3, <1>4
      <4> QED  BY <1>4, <4>1 DEF Pending, Nth
    <3> QED  BY <3>1, <3>2
  <2>3. Executing \subseteq Files
    BY ProcedureAssumption DEF Executing, Files
  <2> QED  BY <1>4, <2>1, <2>2, <2>3 DEF Prepared, Nth
<1>11. Settling'
  <2>1. ASSUME NEW w \in Files  PROVE Settled(w)'
    <3>1. ~done'[w]
      BY <1>2 DEF IInv, Constructing, wsVars
    <3>2. ~Pending("setupActions", w)'
      BY <1>4, <1>6 DEF Pending, Nth
    <3> QED  BY <3>1, <3>2 DEF Settled
  <2> QED  BY <1>2, <2>1 DEF Settling
<1> QED  BY <1>7, <1>8, <1>9, <1>10, <1>11 DEF IInv

LEMMA ResetStep ==
  ASSUME IInv, Reset
  PROVE  IInv'
<1>1. PICK fs \in Orders(cached) : Begin("resetting", ResetCalls(fs))
  BY DEF Reset
<1>0. PICK e : e = Each(fs, ResetWorkspace)
  OBVIOUS
<1> DEFINE n == Len(e)
           first == <<"Teardown", Main>>
           root == <<"ResetRoot", None>>
           last == <<"Setup", Main>>
           calls == <<first>> \o e \o <<root, last>>
<1>2. /\ e \in Seq(Call)
      /\ \A f \in cached : \E p \in 1 .. Len(e) : e[p] = <<"Teardown", f>>
      /\ \A p \in 1 .. Len(e) : \E f \in cached :
           \/ e[p] = <<"Teardown", f>> /\ p + 1 \in 1 .. Len(e) /\ e[p + 1] = <<"Setup", f>>
           \/ e[p] = <<"Setup", f>>
  <2>1. IsFiniteSet(cached) /\ cached \subseteq Included
    BY DEF IInv, TypeOK
  <2>2. ResetsCached(e)
    BY <1>0, <2>1, ResetList, Zenon
  <2> QED  BY <2>2 DEF ResetsCached
<1>3. /\ phase = "finished" /\ phase' = "resetting" /\ agenda' = [agenda EXCEPT ![Job] = calls]
      /\ overlapped' = (\E u \in Workers : place[u] # None)
      /\ UNCHANGED <<place, cached, destroyed, wsVars, varVars>>
  BY <1>0, <1>1 DEF Reset, Begin, ResetCalls
<1>4. /\ calls \in Seq(Call) /\ Len(calls) = n + 3 /\ n \in Nat
      /\ calls[1] = <<"Teardown", Main>>
      /\ \A p \in 1 .. n : calls[p + 1] = e[p]
      /\ calls[n + 2] = <<"ResetRoot", None>> /\ calls[n + 3] = <<"Setup", Main>>
  <2>1. /\ first \in Call /\ root \in Call /\ last \in Call
    BY DEF Call, Operation, Files
  <2> HIDE DEF first, root, last
  <2>2. /\ <<first>> \in Seq(Call) /\ Len(<<first>>) = 1 /\ <<first>>[1] = first
        /\ <<root, last>> \in Seq(Call) /\ Len(<<root, last>>) = 2
        /\ <<root, last>>[1] = root /\ <<root, last>>[2] = last
        /\ n \in Nat
    BY <1>2, <2>1
  <2> DEFINE a == <<first>>
             c == <<root, last>>
             b == a \o e
             d == b \o c
  <2> HIDE DEF n, a, c, b, d
  <2>3. /\ b \in Seq(Call) /\ Len(b) = 1 + n
        /\ \A i \in 1 .. 1 + n : b[i] = IF i <= 1 THEN a[i] ELSE e[i - 1]
    <3>1. /\ a \o e \in Seq(Call) /\ Len(a \o e) = Len(a) + Len(e)
          /\ \A i \in 1 .. Len(a) + Len(e) : (a \o e)[i] = IF i <= Len(a) THEN a[i] ELSE e[i - Len(a)]
      BY <1>2, <2>2, ConcatProperties DEF a
    <3> QED  BY <2>2, <3>1 DEF n, a, b
  <2>4. /\ d \in Seq(Call) /\ Len(d) = (1 + n) + 2
        /\ \A i \in 1 .. (1 + n) + 2 : d[i] = IF i <= 1 + n THEN b[i] ELSE c[i - (1 + n)]
    <3>1. /\ b \o c \in Seq(Call) /\ Len(b \o c) = Len(b) + Len(c)
          /\ \A i \in 1 .. Len(b) + Len(c) : (b \o c)[i] = IF i <= Len(b) THEN b[i] ELSE c[i - Len(b)]
      BY <2>2, <2>3, ConcatProperties DEF c
    <3>2. Len(c) = 2
      BY <2>2 DEF c
    <3> QED  BY <2>3, <3>1, <3>2 DEF d
  <2>5. d[1] = first
    BY <2>2, <2>3, <2>4 DEF a
  <2>6. ASSUME NEW p \in 1 .. n  PROVE d[p + 1] = e[p]
    <3>1. p + 1 \in 1 .. 1 + n /\ p + 1 \in 1 .. (1 + n) + 2 /\ ~(p + 1 <= 1) /\ (p + 1) - 1 = p
          /\ p + 1 <= 1 + n
      BY <2>2
    <3> QED  BY <2>3, <2>4, <3>1
  <2>7. d[n + 2] = root /\ d[n + 3] = last
    <3>1. /\ n + 2 \in 1 .. (1 + n) + 2 /\ ~(n + 2 <= 1 + n) /\ (n + 2) - (1 + n) = 1
          /\ n + 3 \in 1 .. (1 + n) + 2 /\ ~(n + 3 <= 1 + n) /\ (n + 3) - (1 + n) = 2
      BY <2>2
    <3> QED  BY <2>2, <2>4, <3>1 DEF c
  <2>8. calls = d /\ (1 + n) + 2 = n + 3
    BY <2>2 DEF a, b, c, d
  <2> QED  BY <2>2, <2>4, <2>5, <2>6, <2>7, <2>8 DEF first, root, last
<1> HIDE DEF calls, n
<1>5. /\ agenda' \in [Threads -> Seq(Call)] /\ agenda'[Job] = calls
      /\ \A u \in Workers : agenda'[u] = agenda[u]
      /\ Left' = 1 .. n + 3 /\ Left = {}
  <2>1. /\ agenda' \in [Threads -> Seq(Call)] /\ agenda'[Job] = calls
        /\ \A u \in Workers : agenda'[u] = agenda[u]
    BY <1>3, <1>4, ProcedureAssumption DEF IInv, TypeOK, Threads
  <2>2. agenda[Job] = << >>
    BY <1>3 DEF IInv, Busy
  <2> QED  BY <1>4, <2>1, <2>2 DEF Left
\* Which calls there are, and which come behind them.
<1>6. ASSUME NEW k \in Left'
      PROVE  \/ k = 1 /\ calls[k] = <<"Teardown", Main>>
             \/ k = n + 2 /\ calls[k] = <<"ResetRoot", None>>
             \/ k = n + 3 /\ calls[k] = <<"Setup", Main>>
             \/ \E f \in cached : \/ calls[k] = <<"Setup", f>>
                                  \/ /\ calls[k] = <<"Teardown", f>>
                                     /\ k + 1 \in Left' /\ calls[k + 1] = <<"Setup", f>>
  <2>1. k = 1 \/ k = n + 2 \/ k = n + 3 \/ k - 1 \in 1 .. n
    BY <1>4, <1>5
  <2>2. ASSUME k - 1 \in 1 .. n
        PROVE  \E f \in cached : \/ calls[k] = <<"Setup", f>>
                                 \/ /\ calls[k] = <<"Teardown", f>>
                                    /\ k + 1 \in Left' /\ calls[k + 1] = <<"Setup", f>>
    <3> DEFINE p == k - 1
    <3>1. p \in 1 .. n /\ p + 1 = k /\ k \in Int
      BY <1>5, <2>2
    <3> HIDE DEF p
    <3>2. calls[k] = e[p]
      BY <1>4, <3>1
    <3>3. PICK f \in cached :
           \/ e[p] = <<"Teardown", f>> /\ p + 1 \in 1 .. n /\ e[p + 1] = <<"Setup", f>>
           \/ e[p] = <<"Setup", f>>
      BY <1>2, <3>1 DEF n
    <3>4. p + 1 \in 1 .. n => k + 1 \in Left' /\ calls[k + 1] = e[p + 1]
      <4>1. ASSUME p + 1 \in 1 .. n  PROVE k + 1 \in Left' /\ k + 1 = (p + 1) + 1
        BY <1>4, <1>5, <3>1, <4>1
      <4> QED  BY <1>4, <4>1
    <3> QED  BY <3>2, <3>3, <3>4
  <2> QED  BY <1>4, <2>1, <2>2
<1>7. /\ Main \in Files /\ cached \subseteq Files /\ Main \notin cached
      /\ \A k \in Left' : calls[k][1] \in {"Teardown", "Setup", "ResetRoot"}
  <2>1. Main \in Files /\ cached \subseteq Files /\ Main \notin cached
    BY ProcedureAssumption DEF IInv, TypeOK, Files
  <2> QED  BY <1>6, <2>1
<1>8. TypeOK' /\ IsFiniteSet(cached') /\ Busy' /\ IdleWorkers' /\ Balance'
  <2>1. TypeOK' /\ IsFiniteSet(cached')
    BY <1>3, <1>5 DEF IInv, TypeOK, Phase, wsVars, varVars
  <2>2. Busy'
    <3>1. agenda'[Job] # << >>
      BY <1>4, <1>5
    <3> QED  BY <1>3, <3>1 DEF Busy
  <2> QED  BY <1>3, <1>5, <2>1, <2>2 DEF IInv, IdleWorkers, Balance, Count, wsVars
<1>9. Pending("ResetRoot", None)'
  <2>1. n + 2 \in Left'
    BY <1>4, <1>5
  <2> QED  BY <1>4, <1>5, <2>1 DEF Pending, Nth
<1>10. QuietPhases'
  BY <1>3, <1>9 DEF QuietPhases, Quiet
<1>11. Held'
  <2>1. \A w \in Files \ {Main} : tearDown'[w] # {} => w \in cached'
    BY <1>3 DEF IInv, Held, wsVars
  <2>2. ASSUME NEW w \in Files \ {Main}, NEW k \in Left',
               calls[k] \in {<<"Setup", w>>, <<"setupActions", w>>}
        PROVE  w \in cached
    BY <1>6, <2>2
  <2> QED  BY <1>3, <1>5, <2>1, <2>2 DEF Held, Nth
<1>12. SetupShape' /\ TeardownShape' /\ Constructing' /\ Destroying'
  <2>1. destroyed' = {}
    BY <1>3 DEF IInv, Destroying
  <2>2. \A k \in Left' : calls[k][1] \notin TeardownSteps \union {"setupActions", "TearDownProcedures", "LoadProcedure"}
    BY <1>7 DEF TeardownSteps
  <2> QED
    BY <1>3, <1>5, <2>1, <2>2 DEF SetupShape, TeardownShape, Constructing, Destroying, Nth
<1>13. Prepared'
  <2> SUFFICES ASSUME NEW w \in Executing
               PROVE  /\ done'[w]
                      /\ \A k \in Left' : calls[k] = <<"Teardown", w>> =>
                           \E j \in k + 1 .. Len(calls) : calls[j] = <<"Setup", w>>
    BY <1>5 DEF Prepared, Nth
  <2>1. done'[w]
    BY <1>3, <1>5 DEF IInv, Prepared, Pending, wsVars
  <2>2. ASSUME NEW k \in Left', calls[k] = <<"Teardown", w>>
        PROVE  \E j \in k + 1 .. Len(calls) : calls[j] = <<"Setup", w>>
    <3>1. CASE k = 1
      <4>1. w = Main /\ n + 3 \in k + 1 .. Len(calls)
        BY <1>4, <2>2, <3>1
      <4> QED  BY <1>4, <4>1
    <3>2. CASE k # 1
      <4>1. k + 1 \in Left' /\ calls[k + 1] = <<"Setup", w>>
        BY <1>6, <2>2, <3>2
      <4>2. k + 1 \in k + 1 .. Len(calls)
        BY <1>4, <1>5, <4>1
      <4> QED  BY <4>1, <4>2
    <3> QED  BY <3>1, <3>2
  <2> QED  BY <2>1, <2>2
<1>14. MainWaits'
  <2> SUFFICES ASSUME NEW m \in Left', calls[m] = <<"ResetRoot", None>>
               PROVE  /\ \E j \in 1 .. m - 1 : calls[j] = <<"Teardown", Main>>
                      /\ \A j \in 1 .. m - 1 : calls[j] \notin {<<"Setup", Main>>, <<"setupActions", Main>>}
    BY <1>5 DEF MainWaits, Nth
  <2>1. m = n + 2
    BY <1>6
  <2>2. 1 \in 1 .. m - 1
    BY <1>4, <2>1
  <2>3. ASSUME NEW j \in 1 .. m - 1
        PROVE  calls[j] \notin {<<"Setup", Main>>, <<"setupActions", Main>>}
    <3>1. j \in Left' /\ j # n + 2 /\ j # n + 3
      BY <1>4, <1>5, <2>1
    <3> QED  BY <1>6, <1>7, <3>1
  <2> QED  BY <1>4, <2>2, <2>3
<1>15. Settling'
  <2>1. ASSUME NEW f \in cached  PROVE Pending("Teardown", f)'
    <3> PICK p \in 1 .. n : e[p] = <<"Teardown", f>>
      BY <1>2 DEF n
    <3>1. p + 1 \in Left' /\ calls[p + 1] = <<"Teardown", f>>
      BY <1>4, <1>5
    <3> QED  BY <1>5, <3>1 DEF Pending, Nth
  <2> QED  BY <1>3, <1>9, <2>1 DEF Settling, Settled
<1> QED  BY <1>8, <1>10, <1>11, <1>12, <1>13, <1>14, <1>15 DEF IInv

-----------------------------------------------------------------------------
(* The workers.                                                              *)

\* A worker leaves the job and the workspaces alone.  It writes variables only while
\* it is at work, when nothing is claimed of them, and is put to work by a running
\* job only.
LEMMA WorkerInvariant ==
  ASSUME IInv, TypeOK', IdleWorkers', agenda'[Job] = agenda[Job], UNCHANGED <<jobVars, wsVars>>,
         UNCHANGED varVars \/ ~Quiet, phase = "running" \/ (Quiet => Quiet')
  PROVE  IInv'
<1>1. /\ UNCHANGED <<phase, cached, destroyed, overlapped, done, tearDown, active, skipped>>
      /\ Left' = Left /\ \A k : Nth(k)' = Nth(k)
  BY DEF jobVars, wsVars, Left, Nth
<1>2. \A op, x : Pending(op, x)' = Pending(op, x)
  BY <1>1 DEF Pending
<1>3. QuietPhases'
  BY <1>1, <1>2 DEF IInv, QuietPhases
<1>4. IsFiniteSet(cached') /\ Busy' /\ Balance' /\ Held' /\ SetupShape' /\ TeardownShape'
  BY <1>1 DEF IInv, Busy, Balance, Count, Held, SetupShape, TeardownShape
<1>5. Constructing' /\ Destroying' /\ Prepared' /\ MainWaits'
  BY <1>1, <1>2 DEF IInv, Constructing, Destroying, Prepared, MainWaits
<1>6. Settling'
  <2>1. CASE UNCHANGED varVars
    <3>1. \A w \in Files : Settled(w)' = Settled(w)
      BY <1>1, <1>2, <2>1 DEF Settled, varVars
    <3>2. Main \in Files /\ cached \subseteq Files
      BY DEF IInv, TypeOK, Files
    <3> QED  BY <1>1, <1>2, <3>1, <3>2 DEF IInv, Settling
  <2>2. CASE ~Quiet
    <3>1. /\ phase \notin {"setup", "ready"}
          /\ phase = "resetting" => overlapped /\ Pending("ResetRoot", None)
      BY <2>2 DEF IInv, QuietPhases
    <3> QED  BY <1>1, <1>2, <3>1 DEF Settling
  <2> QED  BY <2>1, <2>2
<1> QED  BY <1>3, <1>4, <1>5, <1>6 DEF IInv

LEMMA WorkerStep ==
  ASSUME IInv, NEW u \in Workers, Launch(u) \/ SetValue(u) \/ ResetVariable(u) \/ Conclude(u)
  PROVE  IInv'
<1>1. u # Job /\ u \in Threads /\ Executing \subseteq Files /\ \A w \in Files : Vars(w) \subseteq Variables
  BY ProcedureAssumption DEF Threads, Executing, Files, Variables
<1>2. TypeOK /\ IdleWorkers
  BY DEF IInv
<1>3. CASE Launch(u)
  <2>1. TypeOK'
    BY <1>2, <1>3 DEF Launch, TypeOK, jobVars, wsVars, varVars
  <2>2. IdleWorkers'
    BY <1>2, <1>3 DEF Launch, TypeOK, IdleWorkers
  <2> QED  BY <1>3, <2>1, <2>2, WorkerInvariant DEF Launch
<1>4. CASE SetValue(u)
  <2>1. place[u] # None /\ ~Quiet
    BY <1>4 DEF SetValue, Free, Quiet
  <2>2. TypeOK'
    <3>1. value' \in [Variables -> {"none", "initial", "changed"}]
      BY <1>2, <1>4 DEF SetValue, TypeOK
    <3> QED  BY <1>2, <1>4, <3>1 DEF SetValue, TypeOK, jobVars, wsVars
  <2>3. IdleWorkers' /\ Quiet' = Quiet
    BY <1>2, <1>4 DEF SetValue, IdleWorkers, Quiet
  <2> QED  BY <1>4, <2>1, <2>2, <2>3, WorkerInvariant DEF SetValue
<1>5. CASE ResetVariable(u)
  <2>1. place[u] # None /\ place[u] \in Files
    BY <1>1, <1>2, <1>5 DEF ResetVariable, Free, TypeOK
  <2> PICK v \in Vars(place[u]) : agenda' = [agenda EXCEPT ![u] = TeardownCalls(v) \o SetupCalls(v)]
    BY <1>5 DEF ResetVariable
  <2>2. v \in Variables
    BY <1>1, <2>1
  <2>3. TeardownCalls(v) \o SetupCalls(v) \in Seq(Call)
    <3>1. /\ <<"TeardownImpl", v>> \in Call /\ <<"reject", v>> \in Call
          /\ <<"SetupImpl", v>> \in Call /\ <<"accept", v>> \in Call
      BY <2>2 DEF Call, Operation
    <3>2. TeardownCalls(v) \in Seq(Call) /\ SetupCalls(v) \in Seq(Call)
      BY <3>1 DEF TeardownCalls, SetupCalls
    <3> QED  BY <3>2, ConcatProperties
  <2>4. /\ agenda' \in [Threads -> Seq(Call)] /\ agenda'[Job] = agenda[Job]
        /\ \A t \in Workers : t # u => agenda'[t] = agenda[t]
    <3> HIDE DEF TeardownCalls, SetupCalls
    <3> QED  BY <1>1, <1>2, <2>3 DEF TypeOK, Threads
  <2>5. TypeOK'
    BY <1>2, <1>5, <2>4 DEF ResetVariable, TypeOK, jobVars, wsVars, varVars
  <2>6. IdleWorkers' /\ Quiet' = Quiet
    BY <1>2, <1>5, <2>1, <2>4 DEF ResetVariable, IdleWorkers, Quiet
  <2> QED  BY <1>5, <2>4, <2>5, <2>6, WorkerInvariant DEF ResetVariable
<1>6. CASE Conclude(u)
  <2>1. TypeOK'
    BY <1>2, <1>6 DEF Conclude, TypeOK, jobVars, wsVars, varVars
  <2>2. IdleWorkers' /\ (Quiet => Quiet')
    BY <1>2, <1>6 DEF Conclude, Free, TypeOK, IdleWorkers, Quiet
  <2> QED  BY <1>6, <2>1, <2>2, WorkerInvariant DEF Conclude
<1> QED  BY <1>3, <1>4, <1>5, <1>6

LEMMA WorkerVariableStep ==
  ASSUME IInv, NEW u \in Workers, VariableCall(u)
  PROVE  IInv'
<1>1. u # Job /\ u \in Threads
  BY ProcedureAssumption DEF Threads
<1>2. TypeOK /\ IdleWorkers
  BY DEF IInv
<1> PICK v \in Variables : SetupImpl(u, v) \/ TeardownImpl(u, v) \/ SetSuccessful(u, v)
  BY DEF VariableCall
<1>3. agenda[u] # << >> /\ place[u] # None /\ ~Quiet
  BY <1>2 DEF SetupImpl, TeardownImpl, SetSuccessful, Calls, IdleWorkers, Quiet
<1>4. /\ Return(u) \/ Throw(u)
      /\ UNCHANGED <<place, cached, destroyed, overlapped, wsVars>>
      /\ value' \in [Variables -> {"none", "initial", "changed"}]
      /\ up' \in [Variables -> BOOLEAN]
  <2>1. CASE SetupImpl(u, v)
    BY <1>2, <2>1 DEF SetupImpl, TypeOK
  <2>2. CASE TeardownImpl(u, v)
    BY <1>2, <2>2 DEF TeardownImpl, TypeOK
  <2>3. CASE SetSuccessful(u, v)
    BY <1>2, <2>3 DEF SetSuccessful, TypeOK
  <2> QED  BY <2>1, <2>2, <2>3
<1>5. PICK rest \in Seq(Call) : agenda' = [agenda EXCEPT ![u] = rest] /\ phase' = phase
  <2>1. agenda[u] \in Seq(Call)
    BY <1>1, <1>2 DEF TypeOK
  <2>2. CASE Return(u)
    <3>1. << >> \o Tail(agenda[u]) \in Seq(Call)
      <4>1. << >> \in Seq(Call) /\ Tail(agenda[u]) \in Seq(Call)
        BY <1>3, <2>1
      <4> QED  BY <4>1, ConcatProperties
    <3> QED  BY <1>1, <2>2, <3>1 DEF Return, Make
  <2>3. CASE Throw(u)
    <3>1. << >> \in Seq(Call)
      OBVIOUS
    <3> QED  BY <1>1, <2>3, <3>1 DEF Throw
  <2> QED  BY <1>4, <2>2, <2>3
<1>6. /\ agenda' \in [Threads -> Seq(Call)] /\ agenda'[Job] = agenda[Job]
      /\ \A t \in Workers : t # u => agenda'[t] = agenda[t]
  BY <1>1, <1>2, <1>5 DEF TypeOK, Threads
<1>7. TypeOK'
  BY <1>2, <1>4, <1>5, <1>6 DEF TypeOK, wsVars
<1>8. IdleWorkers' /\ Quiet' = Quiet
  BY <1>2, <1>3, <1>4, <1>6 DEF IdleWorkers, Quiet
<1> QED  BY <1>3, <1>4, <1>5, <1>6, <1>7, <1>8, WorkerInvariant DEF jobVars
-----------------------------------------------------------------------------
(* The specification.                                                        *)

LEMMA InitInvariant == Init => IInv
<1> SUFFICES ASSUME Init  PROVE IInv
  OBVIOUS
<1>1. agenda[Job] = << >> /\ Left = {}
  BY DEF Init, Threads, Left
<1>2. TypeOK
  <2>1. << >> \in Seq(Call)
    OBVIOUS
  <2>2. agenda \in [Threads -> Seq(Call)]
    BY <2>1 DEF Init
  <2>3. tearDown = [w \in Files |-> tearDown[w]] /\ \A w \in Files : tearDown[w] \subseteq Identifiers(w)
    BY DEF Init
  <2>4. active = [w \in Files |-> active[w]] /\ skipped = [w \in Files |-> skipped[w]]
    <3> HIDE DEF Identifiers
    <3> QED  BY DEF Init
  <2> QED  BY <2>2, <2>3, <2>4 DEF Init, TypeOK, Phase
<1>3. IsFiniteSet(cached)
  BY FS_EmptySet DEF Init
<1>4. Busy /\ IdleWorkers /\ QuietPhases /\ Balance /\ Held
  BY <1>1 DEF Init, Busy, IdleWorkers, QuietPhases, Quiet, Balance, Count, Held, Threads
<1>5. SetupShape /\ TeardownShape /\ Constructing /\ Destroying /\ Prepared /\ MainWaits /\ Settling
  BY <1>1 DEF Init, SetupShape, TeardownShape, Constructing, Destroying, Prepared, MainWaits, Settling
<1> QED  BY <1>2, <1>3, <1>4, <1>5 DEF IInv

LEMMA StutterInvariant ==
  ASSUME IInv, UNCHANGED vars
  PROVE  IInv'
<1>1. TypeOK' /\ IdleWorkers' /\ Quiet' = Quiet
  BY DEF IInv, TypeOK, IdleWorkers, Quiet, vars, jobVars, wsVars, varVars
<1> QED  BY <1>1, WorkerInvariant DEF vars

LEMMA NextInvariant ==
  ASSUME IInv, CutShort, Next
  PROVE  IInv'
<1>1. CASE JobStep
  <2>1. CASE Construct \/ Start \/ Finish \/ Reset \/ Destroy
    BY <2>1, ConstructStep, StartFinishStep, ResetStep, DestroyStep
  <2>2. CASE WorkspaceCall(Job)
    BY <2>2, LoadProcedureStep, SetupStep, SetupActionsStep, TeardownStep DEF WorkspaceCall
  <2>3. CASE TearDownProcedures(Job)
    BY <2>3, TearDownProceduresStep
  <2>4. CASE ResetRoot(Job)
    BY <2>4, ResetRootStep
  <2> QED  BY <1>1, <2>1, <2>2, <2>3, <2>4 DEF JobStep
<1>2. ASSUME NEW t \in Threads, VariableCall(t)  PROVE IInv'
  <2>1. CASE t = Job
    BY <1>2, <2>1, JobVariableStep DEF VariableCall
  <2>2. CASE t \in Workers
    BY <1>2, <2>2, WorkerVariableStep
  <2> QED  BY <2>1, <2>2 DEF Threads
<1>3. ASSUME NEW u \in Workers, Launch(u) \/ SetValue(u) \/ ResetVariable(u) \/ Conclude(u)
      PROVE  IInv'
  BY <1>3, WorkerStep
<1> QED  BY <1>1, <1>2, <1>3 DEF Next

\* A job that was cut short goes on to its end only.
LEMMA CutShortStep ==
  ASSUME IInv, CutShort, Next
  PROVE  CutShort'
<1> DEFINE End == {"failed", "destroying", "gone"}
<1>1. ASSUME NEW t \in Threads, agenda[t] # << >>, phase \in End,
             phase' = phase \/ (t = Job /\ phase' = EndOf[phase]) \/ phase' = "failed"
      PROVE  phase' \in End
  BY <1>1 DEF IInv, Busy, EndOf
<1>2. ASSUME NEW t \in Threads, WorkspaceCall(t) \/ VariableCall(t) \/ TearDownProcedures(t) \/ ResetRoot(t)
      PROVE  /\ agenda[t] # << >>
             /\ phase' = phase \/ (t = Job /\ phase' = EndOf[phase]) \/ phase' = "failed"
  BY <1>2 DEF WorkspaceCall, VariableCall, LoadProcedure, Setup, SetupActions, Teardown, SetupImpl,
              TeardownImpl, SetSuccessful, TearDownProcedures, ResetRoot, Calls, Return, Make, Throw
<1>3. ASSUME phase \in End  PROVE phase' \in End
  <2>1. CASE Construct \/ Start \/ Finish \/ Reset \/ Destroy
    BY <1>3, <2>1 DEF Construct, Start, Finish, Reset, Destroy, Begin
  <2>2. CASE WorkspaceCall(Job) \/ TearDownProcedures(Job) \/ ResetRoot(Job)
    <3>1. Job \in Threads
      BY DEF Threads
    <3> QED  BY <1>1, <1>2, <1>3, <2>2, <3>1
  <2>3. CASE \E t \in Threads : VariableCall(t)
    BY <1>1, <1>2, <1>3, <2>3
  <2>4. CASE \E u \in Workers : Launch(u) \/ SetValue(u) \/ ResetVariable(u) \/ Conclude(u)
    BY <1>3, <2>4 DEF Launch, SetValue, ResetVariable, Conclude, jobVars
  <2> QED  BY <2>1, <2>2, <2>3, <2>4 DEF Next, JobStep
<1>4. skipped' = skipped \/ phase' = "failed"
  <2>1. ASSUME NEW w \in Files, SetupActions(Job, w)  PROVE skipped' = skipped \/ phase' = "failed"
    BY <2>1 DEF SetupActions, Throw
  <2>2. CASE \E w \in Files : SetupActions(Job, w)
    BY <2>1, <2>2
  <2>3. CASE \E w \in Files : LoadProcedure(Job, w) \/ Setup(Job, w) \/ Teardown(Job, w)
    BY <2>3 DEF LoadProcedure, Setup, Teardown, wsVars
  <2>4. CASE \/ TearDownProcedures(Job) \/ ResetRoot(Job) \/ \E t \in Threads : VariableCall(t)
    BY <2>4 DEF TearDownProcedures, ResetRoot, VariableCall, SetupImpl, TeardownImpl,
                SetSuccessful, wsVars
  <2>5. CASE Construct \/ Start \/ Finish \/ Reset \/ Destroy
    BY <2>5 DEF Construct, Start, Finish, Reset, Destroy, wsVars
  <2>6. CASE \E u \in Workers : Launch(u) \/ SetValue(u) \/ ResetVariable(u) \/ Conclude(u)
    BY <2>6 DEF Launch, SetValue, ResetVariable, Conclude, wsVars
  <2> QED  BY <2>2, <2>3, <2>4, <2>5, <2>6 DEF Next, JobStep, WorkspaceCall
<1> QED  BY <1>3, <1>4 DEF CutShort

LEMMA Invariance == Spec => [](IInv /\ CutShort)
<1>1. Init => CutShort
  BY DEF Init, CutShort
<1>2. ASSUME IInv, CutShort, [Next]_vars  PROVE IInv' /\ CutShort'
  <2>1. CASE Next
    BY <1>2, <2>1, NextInvariant, CutShortStep
  <2>2. CASE UNCHANGED vars
    BY <1>2, <2>2, StutterInvariant DEF CutShort, vars, jobVars, wsVars
  <2> QED  BY <1>2, <2>1, <2>2
<1> QED  BY <1>1, <1>2, InitInvariant, PTL DEF Spec
-----------------------------------------------------------------------------
(* The theorems.                                                             *)

(* The types: every call in an agenda is one that the code makes, and only
   workspaces that an instruction executes in are used by threads. *)
THEOREM TypeCorrect == Spec => []TypeOK
<1>1. IInv => TypeOK
  BY DEF IInv
<1> QED  BY <1>1, Invariance, PTL

(* A job that may be started has a workspace, and no thread that uses one
   (procedure.h:206-211): for any included procedures and variables, any
   interleaving with the threads, and any failure to load a procedure, to set a
   variable up or to run a set-up action. *)
THEOREM Readiness == Spec => []ReadyIsFresh
<1>1. ASSUME IInv, phase = "ready"  PROVE ReadyIsFresh
  <2>1. agenda[Job] = << >>
    BY <1>1 DEF IInv, Busy
  <2>2. \A o, y : ~Pending(o, y)
    BY <2>1, NothingLeft
  <2>3. Main \in Executing
    BY DEF Executing
  <2>4. done[Main]
    BY <1>1, <2>2, <2>3 DEF IInv, Prepared
  <2>5. Settled(Main) /\ (~overlapped => \A w \in cached : Settled(w))
    BY <1>1, <2>2 DEF IInv, Settling
  <2>6. \A w : Settled(w) /\ done[w] => Fresh(w)
    BY <2>2 DEF Settled, Fresh
  <2>7. Quiet
    BY <1>1 DEF IInv, QuietPhases
  <2> QED  BY <2>4, <2>5, <2>6, <2>7 DEF ReadyIsFresh, Quiet
<1>2. IInv => ReadyIsFresh
  BY <1>1 DEF ReadyIsFresh
<1> QED  BY <1>2, Invariance, PTL

(* The set-up and the tear-down actions of a workspace alternate, and none is left
   undone when the job is gone, whatever fails to load, to be set up or to run; but for
   the tear-down of what a failure kept from being set up, which is run at most once
   (setup_teardown_actions.h, variable.h:90-91, workspace.cpp:102-107). *)
THEOREM Balanced == Spec => []ActionsBalanced
<1>1. ASSUME IInv  PROVE ActionsBalanced
  <2> SUFFICES ASSUME NEW w \in Files, NEW i \in Identifiers(w)
               PROVE  /\ active[w][i] \in IF i \in skipped[w] THEN {0, -1} ELSE {0, 1}
                      /\ done[w] /\ w \notin destroyed => active[w][i] = 1
                      /\ phase = "gone" /\ i \notin skipped[w] => active[w][i] = 0
    BY DEF ActionsBalanced
  <2>1. /\ active[w][i] = (IF i \in tearDown[w] THEN 1 ELSE 0) - (IF i \in skipped[w] THEN 1 ELSE 0)
        /\ done[w] => skipped[w] = {}
        /\ done[w] /\ w \notin destroyed => tearDown[w] = Identifiers(w)
    BY <1>1 DEF IInv, Balance, Count
  <2>2. ASSUME phase = "gone"  PROVE tearDown[w] = {}
    <3>1. agenda[Job] = << >>
      BY <1>1, <2>2 DEF IInv, Busy
    <3>2. \A o, y : ~Pending(o, y)
      BY <3>1, NothingLeft
    <3>3. tearDown[Main] = {} /\ cached = {}
      BY <1>1, <2>2, <3>2 DEF IInv, Destroying
    <3>4. w # Main => tearDown[w] = {}
      BY <1>1, <3>3 DEF IInv, Held
    <3> QED  BY <3>3, <3>4
  <2> QED  BY <2>1, <2>2
<1> QED  BY <1>1, Invariance, PTL

(* The workspace of an instruction stays set up from the construction of the job to
   its reset (include_procedure.cpp:71, copy_from_procedure.cpp:59). *)
THEOREM ExecutesSetUp == Spec => []ExecutesInSetupWorkspace
<1>1. ASSUME IInv  PROVE ExecutesInSetupWorkspace
  <2> SUFFICES ASSUME phase \in {"ready", "running", "finished"}, NEW w \in Executing
               PROVE  done[w]
    BY DEF ExecutesInSetupWorkspace
  <2>1. agenda[Job] = << >>
    BY <1>1 DEF IInv, Busy
  <2>2. \A o, y : ~Pending(o, y)
    BY <2>1, NothingLeft
  <2> QED  BY <1>1, <2>2 DEF IInv, Prepared
<1> QED  BY <1>1, Invariance, PTL

=============================================================================
