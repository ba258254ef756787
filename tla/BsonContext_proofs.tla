------------------------- MODULE BsonContext_proofs --------------------------
(***************************************************************************)
(* ObjectIds, for any number of processes and threads, any flags and any   *)
(* start of the counters: no two calls make the same one.                  *)
(***************************************************************************)
EXTENDS BsonContext, FiniteSetTheorems, TLAPS

Places  == {"idle", "init", "sequence", "pid", "seq32", "seq64", "store32", "store64"}
Oid     == [time : Nat, pid : Nat, seq : Nat]
Context == [once : BOOLEAN, seq32 : Nat, seq64 : Nat, pidbe : Nat]

(* The type invariant.                                                     *)
TypeOK == /\ flags \in SUBSET {"THREAD_SAFE", "DISABLE_PID_CACHE"}
          /\ now \in Nat
          /\ running \in [Processes -> SUBSET Threads]
          /\ context \in [Processes -> Context]
          /\ pc \in [Processes -> [Threads -> Places]]
          /\ oid \in [Processes -> [Threads -> Oid]]
          /\ made \in [Processes -> [Threads -> Seq(Oid)]]
          /\ sequence \in [Processes -> [Threads -> Seq(Oid)]]

(* The bound on the calls.                                                 *)
Bounded == \A p \in Processes : IsFiniteSet(Calls(p)) /\ Begun(p) <= MaxOids

(* A process that has not been forked yet has done nothing.                *)
Started ==
    \A p \in Processes, t \in Threads :
        running[p] = {} => pc[p][t] = "idle" /\ made[p][t] = <<>> /\ sequence[p][t] = <<>>

(* Who is past GetContext, or has been, finds the context initialised.     *)
Prepared ==
    \A p \in Processes, t \in Threads :
        \/ pc[p][t] \notin {"idle", "init", "sequence"}
        \/ made[p][t] # <<>> \/ sequence[p][t] # <<>>
        => context[p].once

(* A pid filled in, now or earlier, is that of the process.                *)
PidsRight ==
    /\ "DISABLE_PID_CACHE" \notin flags =>
          \A p \in Processes : context[p].once => context[p].pidbe = Pid[p] % PidRange
    /\ \A p \in Processes, t \in Threads :
          /\ pc[p][t] \in {"seq32", "store32"} => oid[p][t].pid = Pid[p] % PidRange
          /\ \A i \in 1 .. Len(made[p][t]) : made[p][t][i].pid = Pid[p] % PidRange

(* A load and a store happen in a context that one thread uses at a time,  *)
(* so that what was loaded is current.                                     *)
Alone ==
    /\ "THREAD_SAFE" \notin flags =>
          \A p \in Processes, t, u \in Threads :
              pc[p][t] # "idle" /\ pc[p][u] # "idle" => t = u
    /\ \A p \in Processes, t \in Threads :
          pc[p][t] \in {"store32", "store64"} => "THREAD_SAFE" \notin flags
    /\ \A p \in Processes, t \in Threads :
          /\ pc[p][t] = "store32" => oid[p][t].seq = context[p].seq32
          /\ pc[p][t] = "store64" => oid[p][t].seq = context[p].seq64

(* What was drawn from the counter of 32 bits lies as far behind it as     *)
(* there are ObjectIds of the process, at most.  The atomic step draws     *)
(* what it leaves, the load what it finds.                                 *)
Drawn(p) == UNION {{<<t, i>> : i \in 1 .. Len(made[p][t])} : t \in Threads}

Late == IF "THREAD_SAFE" \in flags THEN 0 ELSE 1

Recent ==
    \A p \in Processes, t \in Threads : \A i \in 1 .. Len(made[p][t]) :
        \E k \in Late .. Late + Cardinality(Drawn(p)) - 1 :
            made[p][t][i].seq = (context[p].seq32 - k) % SeqRange

(* Within a process the counter alone tells ObjectIds apart.               *)
Distinct ==
    \A p \in Processes, t, u \in Threads :
        \A i \in 1 .. Len(made[p][t]), j \in 1 .. Len(made[p][u]) :
            made[p][t][i].seq = made[p][u][j].seq => t = u /\ i = j

(* The counter of 64 bits is never behind what was drawn from it.          *)
Behind ==
    \A p \in Processes, t \in Threads : \A i \in 1 .. Len(sequence[p][t]) :
        sequence[p][t][i].seq + Late <= context[p].seq64

(***************************************************************************)
(* The inductive invariant.                                                *)
(***************************************************************************)
IInv == /\ TypeOK /\ Bounded /\ Started /\ Prepared /\ PidsRight /\ Alone
        /\ Recent /\ Distinct /\ Behind /\ SequenceUnique

-----------------------------------------------------------------------------
(* Two numbers less than R apart differ modulo R.                          *)
LEMMA ModApart ==
    ASSUME NEW R \in Nat \ {0}, NEW a \in Int, NEW b \in Int, 1 <= a - b, a - b < R
    PROVE  a % R # b % R
<1> DEFINE p == a \div R
           q == b \div R
           m == a % R
<1>1. p \in Int /\ q \in Int /\ m \in Int
  OBVIOUS
<1>2. a = R * p + (a % R) /\ b = R * q + (b % R)
  OBVIOUS
<1> SUFFICES ASSUME a % R = b % R PROVE FALSE
  OBVIOUS
<1>3. a = R * p + m /\ b = R * q + m
  BY <1>2
<1> HIDE DEF p, q, m
<1>4. a - b = R * (p - q)
  BY <1>1, <1>3
<1>5. CASE p - q <= 0
  BY <1>1, <1>4, <1>5
<1>6. CASE p - q >= 1
  BY <1>1, <1>4, <1>6
<1>7. QED
  BY <1>1, <1>5, <1>6

LEMMA ModType == ASSUME NEW R \in Nat \ {0}, NEW a \in Int PROVE a % R \in Nat
OBVIOUS

(* The sets that are counted, where nothing of a process changes ...       *)
LEMMA CallsSame ==
    ASSUME NEW p \in Processes, made'[p] = made[p], sequence'[p] = sequence[p],
           \A t \in Threads : pc'[p][t] = "idle" <=> pc[p][t] = "idle"
    PROVE  Calls(p)' = Calls(p)
BY ZenonT(30) DEF Calls, Number

LEMMA DrawnSame ==
    ASSUME NEW p \in Processes, made'[p] = made[p]
    PROVE  Drawn(p)' = Drawn(p)
BY DEF Drawn

LEMMA NumberFacts ==
    ASSUME TypeOK, NEW p \in Processes, NEW t \in Threads
    PROVE  /\ Number(p, t) \in Nat
           /\ Len(made[p][t]) \in Nat /\ Len(sequence[p][t]) \in Nat
           /\ Len(made[p][t]) <= Number(p, t)
           /\ pc[p][t] # "idle" => Len(made[p][t]) < Number(p, t)
<1>1. made[p][t] \in Seq(Oid) /\ sequence[p][t] \in Seq(Oid)
  BY DEF TypeOK
<1>2. Len(made[p][t]) \in Nat /\ Len(sequence[p][t]) \in Nat
  BY <1>1
<1> DEFINE m == Len(made[p][t])
           n == Len(sequence[p][t])
<1>3. m \in Nat /\ n \in Nat
  BY <1>2
<1>4. Number(p, t) = m + n + IF pc[p][t] = "idle" THEN 0 ELSE 1
  BY DEF Number
<1> HIDE DEF m, n
<1>5. Number(p, t) \in Nat /\ m <= Number(p, t) /\ (pc[p][t] # "idle" => m < Number(p, t))
  BY <1>3, <1>4
<1>6. QED
  BY <1>3, <1>5 DEF m, n

(* ... and where thread t begins one more call.                            *)
LEMMA CallsBegun ==
    ASSUME TypeOK, NEW p \in Processes, NEW t \in Threads,
           Number(p, t)' = Number(p, t) + 1,
           \A u \in Threads : u # t => Number(p, u)' = Number(p, u)
    PROVE  Calls(p)' = Calls(p) \cup {<<t, Number(p, t) + 1>>}
<1>1. \A c : c \in Calls(p) <=> \E u \in Threads : \E i \in 1 .. Number(p, u) : c = <<u, i>>
  BY DEF Calls
<1>2. \A c : c \in Calls(p)' <=> \E u \in Threads : \E i \in 1 .. Number(p, u)' : c = <<u, i>>
  BY DEF Calls
<1>3. Number(p, t) \in Nat
  BY NumberFacts
<1>4. \A i : i \in 1 .. Number(p, t) + 1 <=> i \in 1 .. Number(p, t) \/ i = Number(p, t) + 1
  BY <1>3
<1>5. ASSUME NEW c \in Calls(p)' PROVE c \in Calls(p) \cup {<<t, Number(p, t) + 1>>}
  BY <1>1, <1>2, <1>4, <1>5
<1>6. ASSUME NEW c \in Calls(p) PROVE c \in Calls(p)'
  BY <1>1, <1>2, <1>4, <1>6
<1>7. <<t, Number(p, t) + 1>> \in Calls(p)'
  BY <1>2, <1>4
<1>8. QED
  BY <1>5, <1>6, <1>7

-----------------------------------------------------------------------------
(* A step of thread t of process p from one place in a call to another.    *)
Inside(p, t, place) ==
    /\ pc[p][t] # "idle" /\ place \in Places \ {"idle"}
    /\ pc' = [pc EXCEPT ![p][t] = place]
    /\ UNCHANGED <<flags, now, running, made, sequence>>

LEMMA PlaceFacts ==
    ASSUME TypeOK, NEW p \in Processes, NEW t \in Threads, NEW place \in Places,
           pc' = [pc EXCEPT ![p][t] = place]
    PROVE  /\ pc' \in [Processes -> [Threads -> Places]]
           /\ pc'[p][t] = place
           /\ \A q \in Processes, u \in Threads :
                 q # p \/ u # t => pc'[q][u] = pc[q][u]
BY DEF TypeOK

(* It makes nothing and begins nothing.                                    *)
LEMMA InsideFacts ==
    ASSUME IInv, NEW p \in Processes, NEW t \in Threads, NEW place, Inside(p, t, place)
    PROVE  /\ Bounded' /\ Started' /\ Distinct' /\ SequenceUnique'
           /\ \A q \in Processes : Drawn(q)' = Drawn(q)
           /\ "THREAD_SAFE" \notin flags =>
                 \A q \in Processes, u, v \in Threads :
                    pc'[q][u] # "idle" /\ pc'[q][v] # "idle" => u = v
<1>1. \A q \in Processes, u \in Threads : pc'[q][u] = "idle" <=> pc[q][u] = "idle"
  BY PlaceFacts DEF Inside, IInv
<1>2. \A q \in Processes : Calls(q)' = Calls(q) /\ Drawn(q)' = Drawn(q)
  BY <1>1, CallsSame, DrawnSame DEF Inside
<1>3. Bounded'
  BY <1>2 DEF IInv, Bounded, Begun
<1>4. Started'
  BY <1>1 DEF IInv, Started, Inside
<1>5. Distinct' /\ SequenceUnique'
  BY SMTT(40) DEF IInv, Distinct, SequenceUnique, Inside
<1>6. QED
  BY <1>1, <1>2, <1>3, <1>4, <1>5 DEF IInv, Alone

LEMMA GetContextStep ==
    ASSUME IInv, NEW p \in Processes, NEW t \in Threads, GetContext(p, t)
    PROVE  IInv'
<1> DEFINE place == IF pc[p][t] = "init" THEN "pid" ELSE "seq64"
<1>1. TypeOK
  BY DEF IInv
<1>2. Inside(p, t, place)
  BY DEF GetContext, Inside, Places
<1>3. /\ Bounded' /\ Started' /\ Distinct' /\ SequenceUnique'
      /\ \A q \in Processes : Drawn(q)' = Drawn(q)
      /\ "THREAD_SAFE" \notin flags =>
            \A q \in Processes, u, v \in Threads :
               pc'[q][u] # "idle" /\ pc'[q][v] # "idle" => u = v
  BY <1>2, InsideFacts
<1>4. /\ pc' \in [Processes -> [Threads -> Places]]
      /\ pc'[p][t] \in {"pid", "seq64"}
      /\ \A q \in Processes, u \in Threads :
            q # p \/ u # t => pc'[q][u] = pc[q][u]
  <2>1. place \in Places /\ place \in {"pid", "seq64"}
    BY DEF Places
  <2>2. pc' = [pc EXCEPT ![p][t] = place]
    BY <1>2 DEF Inside
  <2> HIDE DEF place
  <2>3. QED
    BY ZenonT(30), <1>1, <2>1, <2>2, PlaceFacts
<1>5. /\ context' \in [Processes -> Context]
      /\ context'[p].once
      /\ \A q \in Processes : q # p => context'[q] = context[q]
      /\ context[p].once => context'[p] = context[p]
      /\ ~context[p].once => context'[p].pidbe = Pid[p] % PidRange
  <2>1. CASE context[p].once /\ UNCHANGED context
    BY <1>1, <2>1 DEF TypeOK
  <2>2. CASE ~context[p].once
    <3>1. PICK seed \in Seeds : context' = [context EXCEPT ![p] = Initialised(p, seed)]
      BY <2>2 DEF GetContext
    <3>2. Initialised(p, seed) \in Context
      <4>1. Pid[p] \in Int /\ seed \in Nat
        BY ContextAssumption
      <4>2. (Pid[p] % PidRange) \in Nat
        BY <4>1, ModType, ContextAssumption
      <4>3. QED
        BY <4>1, <4>2 DEF Initialised, Context
    <3>3. QED
      BY <1>1, <2>2, <3>1, <3>2 DEF TypeOK, Initialised
  <2>3. QED
    BY <2>1, <2>2 DEF GetContext
<1>6. UNCHANGED <<flags, now, running, oid, made, sequence>>
  BY DEF GetContext
<1>7. TypeOK'
  BY <1>1, <1>4, <1>5, <1>6 DEF TypeOK
<1>8. ~context[p].once => \A u \in Threads :
          /\ pc[p][u] \in {"idle", "init", "sequence"}
          /\ made[p][u] = <<>> /\ sequence[p][u] = <<>>
  BY <1>1 DEF IInv, Prepared
<1>9. Prepared'
  <2> SUFFICES ASSUME NEW q \in Processes, NEW u \in Threads,
                      \/ pc'[q][u] \notin {"idle", "init", "sequence"}
                      \/ made[q][u] # <<>> \/ sequence[q][u] # <<>>
               PROVE  context'[q].once
    BY <1>6 DEF Prepared
  <2>1. CASE q = p
    BY <1>5, <2>1
  <2>2. CASE q # p
    BY <1>4, <1>5, <2>2 DEF IInv, Prepared
  <2>3. QED
    BY <2>1, <2>2
<1>10. PidsRight'
  <2>1. ASSUME NEW q \in Processes, NEW u \in Threads, pc'[q][u] \in {"seq32", "store32"}
        PROVE  oid'[q][u].pid = Pid[q] % PidRange
    BY <1>4, <1>6, <2>1 DEF IInv, PidsRight
  <2>2. ASSUME NEW q \in Processes, "DISABLE_PID_CACHE" \notin flags, context'[q].once
        PROVE  context'[q].pidbe = Pid[q] % PidRange
    BY <1>5, <2>2 DEF IInv, PidsRight
  <2>3. QED
    BY <1>6, <2>1, <2>2 DEF IInv, PidsRight
<1>11. Alone'
  <2>1. ASSUME NEW q \in Processes, NEW u \in Threads, pc'[q][u] \in {"store32", "store64"}
        PROVE  /\ "THREAD_SAFE" \notin flags
               /\ pc'[q][u] = "store32" => oid'[q][u].seq = context'[q].seq32
               /\ pc'[q][u] = "store64" => oid'[q][u].seq = context'[q].seq64
    <3>1. pc'[q][u] = pc[q][u]
      BY <1>4, <2>1
    <3>2. context'[q] = context[q]
      BY <1>5, <1>8, <2>1, <3>1
    <3>3. QED
      BY <1>6, <2>1, <3>1, <3>2 DEF IInv, Alone
  <2>2. QED
    BY <1>3, <1>6, <2>1 DEF Alone
<1>12. Recent' /\ Behind'
  <2>1. ASSUME NEW q \in Processes, NEW u \in Threads,
               made[q][u] # <<>> \/ sequence[q][u] # <<>>
        PROVE  context'[q] = context[q]
    BY <1>5, <1>8, <2>1
  <2>2. \A q \in Processes, u \in Threads :
            /\ made[q][u] \in Seq(Oid) /\ sequence[q][u] \in Seq(Oid)
    BY <1>1 DEF TypeOK
  <2>3. \A q \in Processes, u \in Threads :
            /\ \A i \in 1 .. Len(made[q][u]) : made[q][u] # <<>>
            /\ \A i \in 1 .. Len(sequence[q][u]) : sequence[q][u] # <<>>
    BY <2>2
  <2>4. Late' = Late
    BY <1>6 DEF Late
  <2>5. Recent'
    BY <1>3, <1>6, <2>1, <2>3, <2>4 DEF IInv, Recent
  <2>6. Behind'
    BY <1>6, <2>1, <2>3, <2>4 DEF IInv, Behind
  <2>7. QED
    BY <2>5, <2>6
<1>13. QED
  BY <1>3, <1>7, <1>9, <1>10, <1>11, <1>12 DEF IInv

LEMMA GetPidStep ==
    ASSUME IInv, NEW p \in Processes, NEW t \in Threads, GetPid(p, t)
    PROVE  IInv'
<1>1. TypeOK
  BY DEF IInv
<1>2. Inside(p, t, "seq32")
  BY DEF GetPid, Inside, Places
<1>3. /\ Bounded' /\ Started' /\ Distinct' /\ SequenceUnique'
      /\ \A q \in Processes : Drawn(q)' = Drawn(q)
      /\ "THREAD_SAFE" \notin flags =>
            \A q \in Processes, u, v \in Threads :
               pc'[q][u] # "idle" /\ pc'[q][v] # "idle" => u = v
  BY <1>2, InsideFacts
<1>4. /\ pc' \in [Processes -> [Threads -> Places]]
      /\ pc'[p][t] = "seq32"
      /\ \A q \in Processes, u \in Threads :
            q # p \/ u # t => pc'[q][u] = pc[q][u]
  BY ZenonT(30), <1>1, <1>2, PlaceFacts DEF Inside
<1>5. UNCHANGED <<flags, now, running, context, made, sequence>>
  BY DEF GetPid
<1>6. context[p].once
  BY DEF IInv, Prepared, GetPid
<1>7. OidPid(p) = Pid[p] % PidRange
  BY <1>6 DEF OidPid, IInv, PidsRight
<1>8. OidPid(p) \in Nat
  <2>1. Pid[p] \in Int
    BY ContextAssumption
  <2>2. QED
    BY <1>7, <2>1, ModType, ContextAssumption
<1>9. /\ oid' \in [Processes -> [Threads -> Oid]]
      /\ oid'[p][t].pid = OidPid(p)
      /\ \A q \in Processes, u \in Threads : q # p \/ u # t => oid'[q][u] = oid[q][u]
  <2>1. oid' = [oid EXCEPT ![p][t] = [oid[p][t] EXCEPT !.pid = OidPid(p)]]
    BY DEF GetPid
  <2>2. oid[p][t] \in Oid
    BY <1>1 DEF TypeOK
  <2>3. [oid[p][t] EXCEPT !.pid = OidPid(p)] \in Oid
    BY <1>8, <2>2 DEF Oid
  <2>4. [oid[p][t] EXCEPT !.pid = OidPid(p)].pid = OidPid(p)
    BY <2>2 DEF Oid
  <2>5. QED
    BY <1>1, <2>1, <2>3, <2>4 DEF TypeOK
<1>10. TypeOK'
  BY <1>1, <1>4, <1>5, <1>9 DEF TypeOK
<1>11. Prepared'
  BY <1>4, <1>5, <1>6 DEF IInv, Prepared
<1>12. PidsRight'
  <2>1. ASSUME NEW q \in Processes, NEW u \in Threads, pc'[q][u] \in {"seq32", "store32"}
        PROVE  oid'[q][u].pid = Pid[q] % PidRange
    <3>1. CASE q = p /\ u = t
      BY <1>7, <1>9, <3>1
    <3>2. CASE q # p \/ u # t
      BY <1>4, <1>9, <2>1, <3>2, SMTT(40) DEF IInv, PidsRight
    <3>3. QED
      BY <3>1, <3>2
  <2>2. QED
    BY <1>5, <2>1 DEF IInv, PidsRight
<1>13. Alone'
  <2>1. ASSUME NEW q \in Processes, NEW u \in Threads, pc'[q][u] \in {"store32", "store64"}
        PROVE  pc[q][u] = pc'[q][u] /\ oid'[q][u] = oid[q][u]
    BY <1>4, <1>9, <2>1
  <2>2. QED
    BY <1>3, <1>5, <2>1 DEF IInv, Alone
<1>14. Recent' /\ Behind'
  BY <1>3, <1>5 DEF IInv, Recent, Behind, Late
<1>15. QED
  BY <1>3, <1>10, <1>11, <1>12, <1>13, <1>14 DEF IInv

LEMMA LoadSeqStep ==
    ASSUME IInv, NEW p \in Processes, NEW t \in Threads, LoadSeq(p, t)
    PROVE  IInv'
<1> DEFINE place == IF pc[p][t] = "seq32" THEN "store32" ELSE "store64"
           n == IF pc[p][t] = "seq32" THEN context[p].seq32 ELSE context[p].seq64
<1>1. TypeOK
  BY DEF IInv
<1>2. /\ place \in Places /\ place \in {"store32", "store64"}
      /\ place = "store32" <=> pc[p][t] = "seq32"
  BY DEF Places
<1>3. Inside(p, t, place)
  BY <1>2 DEF LoadSeq, Inside
<1>4. /\ Bounded' /\ Started' /\ Distinct' /\ SequenceUnique'
      /\ \A q \in Processes : Drawn(q)' = Drawn(q)
      /\ "THREAD_SAFE" \notin flags =>
            \A q \in Processes, u, v \in Threads :
               pc'[q][u] # "idle" /\ pc'[q][v] # "idle" => u = v
  BY <1>3, InsideFacts
<1>5. /\ pc' \in [Processes -> [Threads -> Places]]
      /\ pc'[p][t] = place
      /\ \A q \in Processes, u \in Threads :
            q # p \/ u # t => pc'[q][u] = pc[q][u]
  <2>1. pc' = [pc EXCEPT ![p][t] = place]
    BY <1>3 DEF Inside
  <2> HIDE DEF place
  <2>2. QED
    BY ZenonT(30), <1>1, <1>2, <2>1, PlaceFacts
<1>6. /\ UNCHANGED <<flags, now, running, context, made, sequence>>
      /\ pc[p][t] \in {"seq32", "seq64"} /\ "THREAD_SAFE" \notin flags
  BY DEF LoadSeq
<1>7. n \in Nat
  BY <1>1 DEF TypeOK, Context
<1>8. /\ oid' \in [Processes -> [Threads -> Oid]]
      /\ oid'[p][t].seq = n /\ oid'[p][t].pid = oid[p][t].pid
      /\ \A q \in Processes, u \in Threads : q # p \/ u # t => oid'[q][u] = oid[q][u]
  <2>1. oid' = [oid EXCEPT ![p][t] = [oid[p][t] EXCEPT !.seq = n]]
    BY DEF LoadSeq
  <2>2. oid[p][t] \in Oid
    BY <1>1 DEF TypeOK
  <2> HIDE DEF n
  <2>3. /\ [oid[p][t] EXCEPT !.seq = n] \in Oid
        /\ [oid[p][t] EXCEPT !.seq = n].seq = n
        /\ [oid[p][t] EXCEPT !.seq = n].pid = oid[p][t].pid
    BY <1>7, <2>2 DEF Oid
  <2>4. QED
    BY <1>1, <2>1, <2>3 DEF TypeOK
<1> HIDE DEF place
<1>9. TypeOK'
  BY <1>1, <1>5, <1>6, <1>8 DEF TypeOK
<1>10. Prepared'
  BY <1>2, <1>5, <1>6 DEF IInv, Prepared
<1>11. PidsRight'
  <2>1. ASSUME NEW q \in Processes, NEW u \in Threads, pc'[q][u] \in {"seq32", "store32"}
        PROVE  oid'[q][u].pid = Pid[q] % PidRange
    <3>1. pc[q][u] \in {"seq32", "store32"}
      BY <1>2, <1>5, <2>1
    <3>2. oid'[q][u].pid = oid[q][u].pid
      BY <1>8
    <3>3. QED
      BY <3>1, <3>2 DEF IInv, PidsRight
  <2>2. QED
    BY <1>6, <2>1 DEF IInv, PidsRight
<1>12. Alone'
  <2>1. ASSUME NEW q \in Processes, NEW u \in Threads
        PROVE  /\ pc'[q][u] = "store32" => oid'[q][u].seq = context[q].seq32
               /\ pc'[q][u] = "store64" => oid'[q][u].seq = context[q].seq64
    <3>1. CASE q = p /\ u = t
      BY <1>2, <1>5, <1>6, <1>8, <3>1 DEF n
    <3>2. CASE q # p \/ u # t
      BY SMTT(30), <1>5, <1>8, <3>2 DEF IInv, Alone
    <3>3. QED
      BY <3>1, <3>2
  <2>2. QED
    BY <1>4, <1>6, <2>1 DEF Alone
<1>13. Recent' /\ Behind'
  BY <1>4, <1>6, SMTT(40) DEF IInv, Recent, Behind, Late
<1>14. QED
  BY <1>4, <1>9, <1>10, <1>11, <1>12, <1>13 DEF IInv

-----------------------------------------------------------------------------
LEMMA NothingMade ==
    ASSUME UNCHANGED <<made, sequence>>
    PROVE  /\ Distinct => Distinct'
           /\ SequenceUnique => SequenceUnique'
           /\ UNCHANGED <<flags, context>> /\ Recent => Recent'
           /\ UNCHANGED <<flags, context>> /\ Behind => Behind'
<1>1. made' = made /\ sequence' = sequence
  OBVIOUS
<1>2. Distinct => Distinct'
  BY <1>1 DEF Distinct
<1>3. SequenceUnique => SequenceUnique'
  BY <1>1 DEF SequenceUnique
<1>4. ASSUME UNCHANGED <<flags, context>>, Recent PROVE Recent'
  <2>1. Late' = Late /\ \A p \in Processes : Drawn(p)' = Drawn(p)
    BY <1>1, <1>4, DrawnSame DEF Late
  <2>2. QED
    BY <1>1, <1>4, <2>1 DEF Recent
<1>5. UNCHANGED <<flags, context>> /\ Behind => Behind'
  BY <1>1 DEF Behind, Late
<1>6. QED
  BY <1>2, <1>3, <1>4, <1>5

LEMMA ReadTimeStep ==
    ASSUME IInv, NEW p \in Processes, NEW t \in Threads,
           NEW kind \in {"init", "sequence"}, ReadTime(p, t, kind)
    PROVE  IInv'
<1>1. TypeOK
  BY DEF IInv
<1>2. /\ UNCHANGED <<flags, now, running, context, made, sequence>>
      /\ pc[p][t] = "idle" /\ t \in running[p] /\ Begun(p) < MaxOids
      /\ "THREAD_SAFE" \in flags \/ \A u \in Threads : pc[p][u] = "idle"
  BY DEF ReadTime
<1>3. /\ pc' \in [Processes -> [Threads -> Places]]
      /\ pc'[p][t] = kind
      /\ \A q \in Processes, u \in Threads :
            q # p \/ u # t => pc'[q][u] = pc[q][u]
  <2>1. kind \in Places
    BY DEF Places
  <2>2. pc' = [pc EXCEPT ![p][t] = kind]
    BY DEF ReadTime
  <2>3. QED
    BY ZenonT(30), <1>1, <2>1, <2>2, PlaceFacts
<1>4. /\ oid' \in [Processes -> [Threads -> Oid]]
      /\ \A q \in Processes, u \in Threads : q # p \/ u # t => oid'[q][u] = oid[q][u]
  <2>1. [NoOid EXCEPT !.time = now] \in Oid
    BY <1>1 DEF TypeOK, NoOid, Oid
  <2>2. QED
    BY <1>1, <2>1 DEF TypeOK, ReadTime
<1>5. TypeOK'
  BY <1>1, <1>2, <1>3, <1>4 DEF TypeOK
<1>6. Bounded'
  <2>1. ASSUME NEW q \in Processes, q # p PROVE IsFiniteSet(Calls(q)') /\ Begun(q)' <= MaxOids
    <3>1. Calls(q)' = Calls(q)
      BY <1>2, <1>3, <2>1, CallsSame
    <3>2. QED
      BY <3>1 DEF IInv, Bounded, Begun
  <2>2. Calls(p)' = Calls(p) \cup {<<t, Number(p, t) + 1>>}
    <3>1. Number(p, t)' = Number(p, t) + 1
      <4> DEFINE n == Len(made[p][t]) + Len(sequence[p][t])
      <4>1. n \in Nat
        <5>1. Len(made[p][t]) \in Nat /\ Len(sequence[p][t]) \in Nat
          BY <1>1, NumberFacts
        <5>2. \A x, y \in Nat : x + y \in Nat
          OBVIOUS
        <5>3. QED
          BY <5>1, <5>2, Zenon
      <4>2. Number(p, t) = n + 0 /\ Number(p, t)' = n + 1
        BY <1>2, <1>3 DEF Number
      <4> HIDE DEF n
      <4>3. QED
        BY <4>1, <4>2
    <3>2. \A u \in Threads : u # t => Number(p, u)' = Number(p, u)
      BY <1>2, <1>3 DEF Number
    <3>3. QED
      BY <1>1, <3>1, <3>2, CallsBegun
  <2>3. IsFiniteSet(Calls(p)) /\ Cardinality(Calls(p)) \in Nat /\ MaxOids \in Nat
    BY FS_CardinalityType, ContextAssumption DEF IInv, Bounded
  <2>4. /\ IsFiniteSet(Calls(p)')
        /\ Cardinality(Calls(p)') <= Cardinality(Calls(p)) + 1
    <3> DEFINE S == Calls(p)
               c == <<t, Number(p, t) + 1>>
    <3>1. IsFiniteSet(S) /\ Cardinality(S) \in Nat /\ Calls(p)' = S \cup {c}
      BY <2>2, <2>3
    <3> HIDE DEF S, c
    <3>2. /\ IsFiniteSet(S \cup {c})
          /\ Cardinality(S \cup {c}) = IF c \in S THEN Cardinality(S) ELSE Cardinality(S) + 1
      BY <3>1, FS_AddElement
    <3>3. QED
      BY <3>1, <3>2 DEF S
  <2>5. Cardinality(Calls(p)') \in Nat
    BY <2>4, FS_CardinalityType
  <2>6. Begun(p)' <= MaxOids
    BY <1>2, <2>3, <2>4, <2>5 DEF Begun
  <2>7. QED
    BY <2>1, <2>4, <2>6 DEF Bounded
<1>7. Started'
  BY <1>2, <1>3 DEF IInv, Started
<1>8. Prepared'
  BY <1>2, <1>3 DEF IInv, Prepared
<1>9. PidsRight'
  <2>1. ASSUME NEW q \in Processes, NEW u \in Threads, pc'[q][u] \in {"seq32", "store32"}
        PROVE  oid'[q][u].pid = Pid[q] % PidRange
    <3>1. q # p \/ u # t
      BY <1>3, <2>1
    <3>2. pc[q][u] \in {"seq32", "store32"} /\ oid'[q][u] = oid[q][u]
      BY <1>3, <1>4, <2>1, <3>1
    <3>3. QED
      BY <3>2 DEF IInv, PidsRight
  <2>2. /\ "DISABLE_PID_CACHE" \notin flags' => \A q \in Processes :
               context'[q].once => context'[q].pidbe = Pid[q] % PidRange
        /\ \A q \in Processes, u \in Threads : \A i \in 1 .. Len(made'[q][u]) :
               made'[q][u][i].pid = Pid[q] % PidRange
    BY <1>2 DEF IInv, PidsRight
  <2>3. QED
    BY <2>1, <2>2 DEF PidsRight
<1>10. Alone'
  <2>1. ASSUME "THREAD_SAFE" \notin flags, NEW q \in Processes, NEW u \in Threads,
               NEW v \in Threads, pc'[q][u] # "idle", pc'[q][v] # "idle"
        PROVE  u = v
    BY <1>2, <1>3, <2>1 DEF IInv, Alone
  <2>2. ASSUME NEW q \in Processes, NEW u \in Threads, pc'[q][u] \in {"store32", "store64"}
        PROVE  pc[q][u] = pc'[q][u] /\ oid'[q][u] = oid[q][u]
    BY <1>3, <1>4, <2>2
  <2>3. QED
    BY <1>2, <2>1, <2>2 DEF IInv, Alone
<1>11. Recent' /\ Distinct' /\ Behind' /\ SequenceUnique'
  BY <1>2, NothingMade DEF IInv
<1>12. QED
  BY <1>5, <1>6, <1>7, <1>8, <1>9, <1>10, <1>11 DEF IInv

LEMMA ForkStep ==
    ASSUME IInv, NEW p \in Processes, NEW t \in Threads, NEW q \in Processes,
           Fork(p, t, q)
    PROVE  IInv'
<1>1. TypeOK
  BY DEF IInv
<1>2. /\ UNCHANGED <<flags, now, pc, oid, made, sequence>>
      /\ t \in running[p] /\ running[q] = {} /\ "DISABLE_PID_CACHE" \in flags
      /\ running' = [running EXCEPT ![q] = {t}]
      /\ context' = [context EXCEPT ![q] = context[p]]
  BY DEF Fork
<1>3. \A u \in Threads : pc[q][u] = "idle" /\ made[q][u] = <<>> /\ sequence[q][u] = <<>>
  BY <1>2 DEF IInv, Started
<1>4. /\ running' \in [Processes -> SUBSET Threads]
      /\ context' \in [Processes -> Context]
      /\ \A r \in Processes : r # q => context'[r] = context[r] /\ running'[r] = running[r]
      /\ running'[q] # {}
  BY <1>1, <1>2 DEF TypeOK
<1>5. TypeOK'
  BY <1>1, <1>2, <1>4 DEF TypeOK
<1>6. Bounded'
  BY <1>2, CallsSame DEF IInv, Bounded, Begun, Calls, Number
<1>7. Started'
  BY <1>2, <1>4 DEF IInv, Started
<1>8. Prepared'
  BY <1>2, <1>3, <1>4 DEF IInv, Prepared
<1>9. PidsRight'
  BY <1>2 DEF IInv, PidsRight
<1>10. Alone'
  BY <1>2, <1>3, <1>4 DEF IInv, Alone
<1>11. Recent'
  <2>1. \A i \in 1 .. Len(<<>>) : FALSE
    OBVIOUS
  <2>2. ASSUME NEW r \in Processes, NEW u \in Threads, NEW i \in 1 .. Len(made[r][u])
        PROVE  context'[r] = context[r] /\ Drawn(r)' = Drawn(r)
    <3>1. r # q
      BY <1>3, <2>1, <2>2
    <3>2. QED
      BY <1>2, <1>4, <3>1, DrawnSame
  <2>3. made' = made /\ Late' = Late
    BY <1>2 DEF Late
  <2>4. QED
    BY <2>2, <2>3 DEF IInv, Recent
<1>12. Behind'
  <2>1. Len(<<>>) = 0 /\ 1 .. 0 = {}
    OBVIOUS
  <2>2. QED
    BY <1>2, <1>3, <1>4, <2>1 DEF IInv, Behind, Late
<1>13. Distinct' /\ SequenceUnique'
  BY <1>2, NothingMade DEF IInv
<1>14. QED
  BY <1>5, <1>6, <1>7, <1>8, <1>9, <1>10, <1>11, <1>12, <1>13 DEF IInv

-----------------------------------------------------------------------------
(* The end of a call.                                                      *)
Ended(p, t) ==
    /\ pc[p][t] # "idle"
    /\ pc' = [pc EXCEPT ![p][t] = "idle"]
    /\ oid' = [oid EXCEPT ![p][t] = NoOid]
    /\ UNCHANGED <<flags, now, running>>

LEMMA EndedFacts ==
    ASSUME IInv, NEW p \in Processes, NEW t \in Threads, Ended(p, t)
    PROVE  /\ pc' \in [Processes -> [Threads -> Places]]
           /\ oid' \in [Processes -> [Threads -> Oid]]
           /\ pc'[p][t] = "idle"
           /\ \A q \in Processes, u \in Threads :
                 q # p \/ u # t => pc'[q][u] = pc[q][u] /\ oid'[q][u] = oid[q][u]
           /\ running[p] # {}
           /\ "THREAD_SAFE" \notin flags => \A u \in Threads : pc'[p][u] = "idle"
<1>1. TypeOK
  BY DEF IInv
<1>2. /\ pc' \in [Processes -> [Threads -> Places]]
      /\ pc'[p][t] = "idle"
      /\ \A q \in Processes, u \in Threads : q # p \/ u # t => pc'[q][u] = pc[q][u]
  <2>1. "idle" \in Places
    BY DEF Places
  <2>2. pc' = [pc EXCEPT ![p][t] = "idle"]
    BY DEF Ended
  <2>3. QED
    BY ZenonT(30), <1>1, <2>1, <2>2, PlaceFacts
<1>3. /\ oid' \in [Processes -> [Threads -> Oid]]
      /\ \A q \in Processes, u \in Threads : q # p \/ u # t => oid'[q][u] = oid[q][u]
  <2>1. NoOid \in Oid
    BY DEF NoOid, Oid
  <2>2. QED
    BY <1>1, <2>1 DEF TypeOK, Ended
<1>4. running[p] # {}
  BY DEF IInv, Started, Ended
<1>5. "THREAD_SAFE" \notin flags => \A u \in Threads : pc'[p][u] = "idle"
  BY <1>2 DEF IInv, Alone, Ended
<1>6. QED
  BY <1>2, <1>3, <1>4, <1>5

(* A call of bson_oid_init that ends has drawn its ObjectId o, and has     *)
(* moved the counter from where it was to the next number.                 *)
Draws32(p, t, o) ==
    /\ Ended(p, t)
    /\ pc[p][t] \in {"seq32", "store32"}
    /\ o \in Oid /\ o.pid = oid[p][t].pid
    /\ o.seq = (context[p].seq32 + 1 - Late) % SeqRange
    /\ context' = [context EXCEPT ![p].seq32 = context[p].seq32 + 1]
    /\ made' = [made EXCEPT ![p][t] = Append(made[p][t], o)]
    /\ UNCHANGED sequence

(* One ObjectId more, and there were fewer than the counter has numbers.   *)
LEMMA MadeFacts ==
    ASSUME IInv, NEW p \in Processes, NEW t \in Threads, NEW o, Draws32(p, t, o)
    PROVE  /\ made' \in [Processes -> [Threads -> Seq(Oid)]]
           /\ Len(made'[p][t]) = Len(made[p][t]) + 1
           /\ \A i \in 1 .. Len(made[p][t]) : made'[p][t][i] = made[p][t][i]
           /\ made'[p][t][Len(made[p][t]) + 1] = o
           /\ \A q \in Processes, u \in Threads : q # p \/ u # t => made'[q][u] = made[q][u]
           /\ \A q \in Processes : q # p => made'[q] = made[q]
<1>1. TypeOK /\ o \in Oid
  BY DEF IInv, Draws32
<1>2. made[p][t] \in Seq(Oid)
  BY <1>1 DEF TypeOK
<1> DEFINE s == Append(made[p][t], o)
<1>3. /\ s \in Seq(Oid) /\ Len(s) = Len(made[p][t]) + 1
      /\ \A i \in 1 .. Len(made[p][t]) : s[i] = made[p][t][i]
      /\ s[Len(made[p][t]) + 1] = o
  BY <1>1, <1>2
<1>4. made' = [made EXCEPT ![p][t] = s]
  BY DEF Draws32
<1> HIDE DEF s
<1>5. /\ made' \in [Processes -> [Threads -> Seq(Oid)]] /\ made'[p][t] = s
      /\ \A q \in Processes, u \in Threads : q # p \/ u # t => made'[q][u] = made[q][u]
      /\ \A q \in Processes : q # p => made'[q] = made[q]
  BY <1>1, <1>3, <1>4 DEF TypeOK
<1>6. QED
  BY <1>3, <1>5

LEMMA DrawnFacts ==
    ASSUME IInv, NEW p \in Processes, NEW t \in Threads, NEW o, Draws32(p, t, o)
    PROVE  /\ Cardinality(Drawn(p)) \in Nat /\ Cardinality(Drawn(p)) < MaxOids
           /\ Cardinality(Drawn(p))' = Cardinality(Drawn(p)) + 1
<1>1. TypeOK
  BY DEF IInv
<1> DEFINE n == Len(made[p][t])
           c == <<t, n + 1>>
<1>2. n \in Nat /\ Number(p, t) \in Nat /\ n < Number(p, t)
  BY <1>1, NumberFacts DEF Draws32, Ended
<1>3. \A u \in Threads : Len(made[p][u]) \in Nat /\ Number(p, u) \in Nat
                         /\ Len(made[p][u]) <= Number(p, u)
  BY <1>1, NumberFacts
<1>4. Drawn(p) \subseteq Calls(p) /\ c \in Calls(p) /\ c \notin Drawn(p)
  <2>1. Drawn(p) \subseteq Calls(p)
    <3>1. \A u \in Threads : \A i \in 1 .. Len(made[p][u]) : i \in 1 .. Number(p, u)
      BY <1>3
    <3>2. QED
      BY <3>1 DEF Drawn, Calls
  <2>2. n + 1 \in 1 .. Number(p, t) /\ n + 1 \notin 1 .. Len(made[p][t])
    BY <1>2
  <2> HIDE DEF n
  <2>3. c \in Calls(p)
    BY <2>2 DEF Calls
  <2>4. c \notin Drawn(p)
    BY <2>2 DEF Drawn
  <2>5. QED
    BY <2>1, <2>3, <2>4
<1>5. Drawn(p)' = Drawn(p) \cup {c}
  <2>1. /\ Len(made'[p][t]) = n + 1
        /\ \A u \in Threads : u # t => made'[p][u] = made[p][u]
    BY MadeFacts
  <2>2. \A d : d \in Drawn(p) <=> \E u \in Threads : \E i \in 1 .. Len(made[p][u]) : d = <<u, i>>
    BY DEF Drawn
  <2>3. \A d : d \in Drawn(p)' <=> \E u \in Threads : \E i \in 1 .. Len(made'[p][u]) : d = <<u, i>>
    BY DEF Drawn
  <2>4. \A i : i \in 1 .. n + 1 <=> i \in 1 .. Len(made[p][t]) \/ i = n + 1
    BY <1>2
  <2> HIDE DEF n
  <2>5. ASSUME NEW d \in Drawn(p)' PROVE d \in Drawn(p) \cup {c}
    BY <2>1, <2>2, <2>3, <2>4, <2>5
  <2>6. ASSUME NEW d \in Drawn(p) PROVE d \in Drawn(p)'
    BY <2>1, <2>2, <2>3, <2>4, <2>6
  <2>7. c \in Drawn(p)'
    BY <2>1, <2>3, <2>4
  <2>8. QED
    BY <2>5, <2>6, <2>7
<1> HIDE DEF n, c
<1>6. IsFiniteSet(Calls(p)) /\ Cardinality(Calls(p)) <= MaxOids
  BY DEF IInv, Bounded, Begun
<1>7. /\ IsFiniteSet(Drawn(p)) /\ Cardinality(Drawn(p)) <= Cardinality(Calls(p))
      /\ Cardinality(Drawn(p)) # Cardinality(Calls(p))
  BY <1>4, <1>6, FS_Subset
<1>8. Cardinality(Drawn(p)) \in Nat /\ Cardinality(Calls(p)) \in Nat
  BY <1>6, <1>7, FS_CardinalityType
<1>9. Cardinality(Drawn(p) \cup {c}) = Cardinality(Drawn(p)) + 1
  BY <1>4, <1>7, FS_AddElement
<1>10. MaxOids \in Nat
  BY ContextAssumption
<1>11. QED
  BY <1>5, <1>6, <1>7, <1>8, <1>9, <1>10

(* What both kinds of calls leave when they end: one more in the history   *)
(* of thread t, and the counters of process p moved.                       *)
LEMMA CallEnds ==
    ASSUME IInv, NEW p \in Processes, NEW t \in Threads, Ended(p, t),
           pc[p][t] \notin {"init", "sequence"},
           Len(made'[p][t]) \in Nat, Len(sequence'[p][t]) \in Nat,
           Len(made'[p][t]) + Len(sequence'[p][t]) = Len(made[p][t]) + Len(sequence[p][t]) + 1,
           \A q \in Processes, u \in Threads : q # p \/ u # t =>
                 made'[q][u] = made[q][u] /\ sequence'[q][u] = sequence[q][u],
           context' \in [Processes -> Context],
           context'[p].once = context[p].once, context'[p].pidbe = context[p].pidbe,
           \A q \in Processes : q # p => context'[q] = context[q]
    PROVE  Bounded' /\ Started' /\ Prepared' /\ Alone'
<1>1. TypeOK
  BY DEF IInv
<1>2. /\ pc'[p][t] = "idle"
      /\ \A q \in Processes, u \in Threads :
            q # p \/ u # t => pc'[q][u] = pc[q][u] /\ oid'[q][u] = oid[q][u]
      /\ running[p] # {}
      /\ "THREAD_SAFE" \notin flags => \A u \in Threads : pc'[p][u] = "idle"
  BY EndedFacts
<1>3. UNCHANGED <<flags, running>> /\ pc[p][t] # "idle"
  BY DEF Ended
<1>4. Bounded'
  <2>1. Number(p, t)' = Number(p, t)
    <3> DEFINE m == Len(made[p][t])
               n == Len(sequence[p][t])
               a == Len(made'[p][t])
               b == Len(sequence'[p][t])
    <3>1. m \in Nat /\ n \in Nat /\ a \in Nat /\ b \in Nat
      BY <1>1, NumberFacts
    <3>2. Number(p, t) = m + n + 1 /\ Number(p, t)' = a + b + 0
      BY <1>2, <1>3 DEF Number
    <3>3. a + b = m + n + 1
      OBVIOUS
    <3> HIDE DEF m, n, a, b
    <3>4. QED
      BY <3>1, <3>2, <3>3
  <2>2. \A q \in Processes, u \in Threads : Number(q, u)' = Number(q, u)
    BY ZenonT(30), <1>2, <2>1 DEF Number
  <2>3. \A q \in Processes : Calls(q)' = Calls(q)
    BY <2>2 DEF Calls
  <2>4. QED
    BY <2>3 DEF IInv, Bounded, Begun
<1>5. Started'
  BY <1>2, <1>3 DEF IInv, Started
<1>6. Prepared'
  <2>1. context[p].once
    BY <1>3 DEF IInv, Prepared
  <2>2. ASSUME NEW q \in Processes, NEW u \in Threads,
               \/ pc'[q][u] \notin {"idle", "init", "sequence"}
               \/ made'[q][u] # <<>> \/ sequence'[q][u] # <<>>
        PROVE  context'[q].once
    <3>1. CASE q = p
      BY <2>1, <3>1
    <3>2. CASE q # p
      BY <1>2, <2>2, <3>2 DEF IInv, Prepared
    <3>3. QED
      BY <3>1, <3>2
  <2>3. QED
    BY <2>2 DEF Prepared
<1>7. Alone'
  <2>1. ASSUME "THREAD_SAFE" \notin flags, NEW q \in Processes, NEW u \in Threads,
               NEW v \in Threads, pc'[q][u] # "idle", pc'[q][v] # "idle"
        PROVE  u = v
    BY <1>2, <2>1 DEF IInv, Alone
  <2>2. ASSUME NEW q \in Processes, NEW u \in Threads, pc'[q][u] \in {"store32", "store64"}
        PROVE  /\ pc[q][u] = pc'[q][u] /\ oid'[q][u] = oid[q][u]
               /\ context'[q] = context[q] /\ "THREAD_SAFE" \notin flags
    <3>1. pc[q][u] = pc'[q][u] /\ oid'[q][u] = oid[q][u]
      BY <1>2, <2>2
    <3>2. "THREAD_SAFE" \notin flags
      BY <2>2, <3>1 DEF IInv, Alone
    <3>3. QED
      BY <1>2, <2>2, <3>1, <3>2
  <2>3. QED
    BY <1>3, <2>1, <2>2 DEF IInv, Alone
<1>8. QED
  BY <1>4, <1>5, <1>6, <1>7

LEMMA Draws32Step ==
    ASSUME IInv, NEW p \in Processes, NEW t \in Threads, NEW o, Draws32(p, t, o)
    PROVE  IInv'
<1>1. TypeOK
  BY DEF IInv
<1> DEFINE n == Len(made[p][t])
           S == context[p].seq32
           d == Cardinality(Drawn(p))
<1>2. /\ made' \in [Processes -> [Threads -> Seq(Oid)]]
      /\ Len(made'[p][t]) = n + 1
      /\ \A i \in 1 .. n : made'[p][t][i] = made[p][t][i]
      /\ made'[p][t][n + 1] = o
      /\ \A q \in Processes, u \in Threads : q # p \/ u # t => made'[q][u] = made[q][u]
  BY MadeFacts
<1>3. n \in Nat /\ Len(sequence[p][t]) \in Nat
  BY <1>1, NumberFacts
<1>4. S \in Nat /\ context[p] \in Context
  BY <1>1 DEF TypeOK, Context
<1>5. /\ UNCHANGED <<flags, now, running, sequence>> /\ Late' = Late
      /\ Ended(p, t) /\ pc[p][t] \in {"seq32", "store32"}
      /\ o \in Oid /\ o.pid = oid[p][t].pid /\ o.seq = (S + 1 - Late) % SeqRange
  BY DEF Draws32, Ended, Late
<1>6. /\ context' \in [Processes -> Context]
      /\ context'[p].seq32 = S + 1 /\ context'[p].seq64 = context[p].seq64
      /\ context'[p].once = context[p].once /\ context'[p].pidbe = context[p].pidbe
      /\ \A q \in Processes : q # p => context'[q] = context[q]
  <2> DEFINE c == [context[p] EXCEPT !.seq32 = S + 1]
  <2>1. context' = [context EXCEPT ![p] = c]
    BY DEF Draws32
  <2>2. /\ c \in Context /\ c.seq32 = S + 1 /\ c.seq64 = context[p].seq64
        /\ c.once = context[p].once /\ c.pidbe = context[p].pidbe
    BY <1>4 DEF Context
  <2> HIDE DEF c
  <2>3. QED
    BY <1>1, <2>1, <2>2 DEF TypeOK
<1>7. d \in Nat /\ d < MaxOids /\ Cardinality(Drawn(p))' = d + 1
  BY DrawnFacts
<1>8. Late \in {0, 1} /\ SeqRange \in Nat \ {0} /\ MaxOids \in Nat /\ MaxOids <= SeqRange
  BY ContextAssumption, OidsAssumption DEF Late
<1>9. \A i : i \in 1 .. n + 1 <=> i \in 1 .. n \/ i = n + 1
  BY <1>3
<1>10. TypeOK'
  BY <1>1, <1>2, <1>5, <1>6, EndedFacts DEF TypeOK
<1>11. Bounded' /\ Started' /\ Prepared' /\ Alone'
  <2>1. n + 1 + Len(sequence[p][t]) = n + Len(sequence[p][t]) + 1
    <3> DEFINE l == Len(sequence[p][t])
    <3>1. l \in Nat
      BY <1>3
    <3> HIDE DEF n, l
    <3>2. n + 1 + l = n + l + 1
      BY <1>3, <3>1
    <3>3. QED
      BY <3>2 DEF l
  <2>2. Len(made'[p][t]) \in Nat /\ Len(sequence'[p][t]) \in Nat
    BY <1>2, <1>3, <1>5
  <2>3. Len(made'[p][t]) + Len(sequence'[p][t]) = n + Len(sequence[p][t]) + 1
    BY <1>2, <1>5, <2>1
  <2>4. \A q \in Processes, u \in Threads : q # p \/ u # t =>
            made'[q][u] = made[q][u] /\ sequence'[q][u] = sequence[q][u]
    BY <1>2, <1>5
  <2>5. QED
    BY <1>5, <1>6, <2>2, <2>3, <2>4, CallEnds
<1>12. PidsRight'
  <2>1. o.pid = Pid[p] % PidRange
    BY <1>5 DEF IInv, PidsRight
  <2>2. ASSUME NEW q \in Processes, NEW u \in Threads, NEW i \in 1 .. Len(made'[q][u])
        PROVE  made'[q][u][i].pid = Pid[q] % PidRange
    <3>1. CASE q = p /\ u = t /\ i = n + 1
      BY <1>2, <2>1, <3>1
    <3>2. CASE ~(q = p /\ u = t /\ i = n + 1)
      <4>1. i \in 1 .. Len(made[q][u]) /\ made'[q][u][i] = made[q][u][i]
        BY <1>2, <1>9, <2>2, <3>2
      <4>2. QED
        BY <4>1 DEF IInv, PidsRight
    <3>3. QED
      BY <3>1, <3>2
  <2>3. ASSUME NEW q \in Processes, NEW u \in Threads, pc'[q][u] \in {"seq32", "store32"}
        PROVE  oid'[q][u].pid = Pid[q] % PidRange
    <3>1. pc[q][u] = pc'[q][u] /\ oid'[q][u] = oid[q][u]
      BY <1>5, <2>3, EndedFacts
    <3>2. QED
      BY <2>3, <3>1 DEF IInv, PidsRight
  <2>4. ASSUME NEW q \in Processes, "DISABLE_PID_CACHE" \notin flags, context'[q].once
        PROVE  context'[q].pidbe = Pid[q] % PidRange
    BY <1>6, <2>4 DEF IInv, PidsRight
  <2>5. QED
    BY <1>5, <2>2, <2>3, <2>4 DEF PidsRight
<1> HIDE DEF n, S, d
<1>13. \A u \in Threads : \A i \in 1 .. Len(made[p][u]) :
           \E k \in Late .. Late + d - 1 : made[p][u][i].seq = (S - k) % SeqRange
  BY DEF IInv, Recent, S, d
<1>14. o.seq = (S + 1 - Late) % SeqRange
  BY <1>5
<1>15. Recent'
  <2>1. ASSUME NEW u \in Threads, NEW i \in 1 .. Len(made'[p][u])
        PROVE  \E k \in Late .. Late + (d + 1) - 1 :
                  made'[p][u][i].seq = (S + 1 - k) % SeqRange
    <3>1. CASE u = t /\ i = n + 1
      <4>1. Late \in Late .. Late + (d + 1) - 1
        BY <1>7, <1>8
      <4>2. QED
        BY <1>2, <1>14, <3>1, <4>1
    <3>2. CASE ~(u = t /\ i = n + 1)
      <4>1. i \in 1 .. Len(made[p][u]) /\ made'[p][u][i] = made[p][u][i]
        BY <1>2, <1>9, <2>1, <3>2 DEF n
      <4>2. PICK k \in Late .. Late + d - 1 : made[p][u][i].seq = (S - k) % SeqRange
        BY <1>13, <4>1
      <4>3. k + 1 \in Late .. Late + (d + 1) - 1 /\ S - k = S + 1 - (k + 1)
        BY <1>4, <1>7, <1>8
      <4>4. QED
        BY <4>1, <4>2, <4>3
    <3>3. QED
      BY <3>1, <3>2
  <2>2. \A q \in Processes : q # p => Drawn(q)' = Drawn(q)
    BY MadeFacts, DrawnSame
  <2>3. ASSUME NEW q \in Processes, q # p, NEW u \in Threads, NEW i \in 1 .. Len(made'[q][u])
        PROVE  \E k \in Late .. Late + Cardinality(Drawn(q))' - 1 :
                  made'[q][u][i].seq = (context'[q].seq32 - k) % SeqRange
    BY <1>2, <1>6, <2>2, <2>3 DEF IInv, Recent
  <2>4. ASSUME NEW u \in Threads, NEW i \in 1 .. Len(made'[p][u])
        PROVE  \E k \in Late .. Late + Cardinality(Drawn(p))' - 1 :
                  made'[p][u][i].seq = (context'[p].seq32 - k) % SeqRange
    <3>1. Cardinality(Drawn(p))' = d + 1 /\ context'[p].seq32 = S + 1
      BY <1>6, <1>7
    <3>2. PICK k \in Late .. Late + (d + 1) - 1 : made'[p][u][i].seq = (S + 1 - k) % SeqRange
      BY <2>1, <2>4
    <3>3. k \in Late .. Late + Cardinality(Drawn(p))' - 1
      BY <3>1, <3>2
    <3>4. made'[p][u][i].seq = (context'[p].seq32 - k) % SeqRange
      BY <1>4, <1>7, <1>8, <3>1, <3>2
    <3> WITNESS k \in Late .. Late + Cardinality(Drawn(p))' - 1
    <3>5. QED
      BY <3>4
  <2>5. QED
    BY <1>5, <2>3, <2>4 DEF Recent
<1>16. Distinct'
  <2>1. \A u \in Threads : \A i \in 1 .. Len(made[p][u]) : made[p][u][i].seq # o.seq
    <3> SUFFICES ASSUME NEW u \in Threads, NEW i \in 1 .. Len(made[p][u])
                 PROVE  made[p][u][i].seq # o.seq
      OBVIOUS
    <3>1. PICK k \in Late .. Late + d - 1 : made[p][u][i].seq = (S - k) % SeqRange
      BY <1>13
    <3>2. /\ S + 1 - Late \in Int /\ S - k \in Int
          /\ 1 <= (S + 1 - Late) - (S - k) /\ (S + 1 - Late) - (S - k) < SeqRange
      BY <1>4, <1>7, <1>8
    <3>3. (S + 1 - Late) % SeqRange # (S - k) % SeqRange
      BY <1>8, <3>2, ModApart
    <3>4. QED
      BY <1>14, <3>1, <3>3
  <2>2. ASSUME NEW q \in Processes, NEW u \in Threads, NEW v \in Threads,
               NEW i \in 1 .. Len(made'[q][u]), NEW j \in 1 .. Len(made'[q][v]),
               made'[q][u][i].seq = made'[q][v][j].seq
        PROVE  u = v /\ i = j
    <3>1. CASE q # p
      <4>1. made'[q][u] = made[q][u] /\ made'[q][v] = made[q][v]
        BY <1>2, <3>1
      <4>2. QED
        BY <2>2, <4>1 DEF IInv, Distinct
    <3>2. CASE q = p
      <4>1. \A w \in Threads : \A k \in 1 .. Len(made'[p][w]) :
                \/ w = t /\ k = n + 1 /\ made'[p][w][k] = o
                \/ k \in 1 .. Len(made[p][w]) /\ made'[p][w][k] = made[p][w][k]
        BY <1>2, <1>9 DEF n
      <4>2. CASE u = t /\ i = n + 1 /\ made'[p][u][i] = o
        BY <2>1, <2>2, <3>2, <4>1, <4>2, SMTT(40)
      <4>3. CASE v = t /\ j = n + 1 /\ made'[p][v][j] = o
        BY SMTT(30), <2>1, <2>2, <3>2, <4>1, <4>3
      <4>4. CASE /\ i \in 1 .. Len(made[p][u]) /\ made'[p][u][i] = made[p][u][i]
                 /\ j \in 1 .. Len(made[p][v]) /\ made'[p][v][j] = made[p][v][j]
        BY <2>2, <3>2, <4>4 DEF IInv, Distinct
      <4>5. QED
        BY <3>2, <4>1, <4>2, <4>3, <4>4
    <3>3. QED
      BY <3>1, <3>2
  <2>3. QED
    BY <2>2 DEF Distinct
<1>17. Behind' /\ SequenceUnique'
  BY <1>5, <1>6 DEF IInv, Behind, SequenceUnique
<1>18. QED
  BY <1>10, <1>11, <1>12, <1>15, <1>16, <1>17 DEF IInv

(* A call of bson_oid_init_sequence that ends.                             *)
Draws64(p, t, o) ==
    /\ Ended(p, t)
    /\ pc[p][t] \in {"seq64", "store64"}
    /\ o \in Oid
    /\ o.seq = context[p].seq64 + 1 - Late
    /\ context' = [context EXCEPT ![p].seq64 = context[p].seq64 + 1]
    /\ sequence' = [sequence EXCEPT ![p][t] = Append(sequence[p][t], o)]
    /\ UNCHANGED made

LEMMA Draws64Step ==
    ASSUME IInv, NEW p \in Processes, NEW t \in Threads, NEW o, Draws64(p, t, o)
    PROVE  IInv'
<1>1. TypeOK
  BY DEF IInv
<1> DEFINE n == Len(sequence[p][t])
           S == context[p].seq64
<1>2. n \in Nat /\ Len(made[p][t]) \in Nat
  BY <1>1, NumberFacts
<1>3. /\ sequence' \in [Processes -> [Threads -> Seq(Oid)]]
      /\ Len(sequence'[p][t]) = n + 1
      /\ \A i \in 1 .. n : sequence'[p][t][i] = sequence[p][t][i]
      /\ sequence'[p][t][n + 1] = o
      /\ \A q \in Processes, u \in Threads : q # p \/ u # t => sequence'[q][u] = sequence[q][u]
  <2> DEFINE s == Append(sequence[p][t], o)
  <2>1. sequence[p][t] \in Seq(Oid) /\ o \in Oid
    BY <1>1 DEF TypeOK, Draws64
  <2>2. /\ s \in Seq(Oid) /\ Len(s) = n + 1 /\ s[n + 1] = o
        /\ \A i \in 1 .. n : s[i] = sequence[p][t][i]
    BY <2>1
  <2>3. sequence' = [sequence EXCEPT ![p][t] = s]
    BY DEF Draws64
  <2> HIDE DEF s
  <2>4. /\ sequence' \in [Processes -> [Threads -> Seq(Oid)]] /\ sequence'[p][t] = s
        /\ \A q \in Processes, u \in Threads : q # p \/ u # t => sequence'[q][u] = sequence[q][u]
    BY <1>1, <2>2, <2>3 DEF TypeOK
  <2>5. QED
    BY <2>2, <2>4
<1>4. S \in Nat /\ context[p] \in Context
  BY <1>1 DEF TypeOK, Context
<1>5. /\ UNCHANGED <<flags, now, running, made>> /\ Late' = Late
      /\ Ended(p, t) /\ pc[p][t] \in {"seq64", "store64"}
      /\ o.seq = S + 1 - Late
  BY DEF Draws64, Ended, Late
<1>6. /\ context' \in [Processes -> Context]
      /\ context'[p].seq64 = S + 1 /\ context'[p].seq32 = context[p].seq32
      /\ context'[p].once = context[p].once /\ context'[p].pidbe = context[p].pidbe
      /\ \A q \in Processes : q # p => context'[q] = context[q]
  <2> DEFINE c == [context[p] EXCEPT !.seq64 = S + 1]
  <2>1. context' = [context EXCEPT ![p] = c]
    BY DEF Draws64
  <2>2. /\ c \in Context /\ c.seq64 = S + 1 /\ c.seq32 = context[p].seq32
        /\ c.once = context[p].once /\ c.pidbe = context[p].pidbe
    BY <1>4 DEF Context
  <2> HIDE DEF c
  <2>3. QED
    BY <1>1, <2>1, <2>2 DEF TypeOK
<1>7. Late \in {0, 1}
  BY DEF Late
<1>8. \A i : i \in 1 .. n + 1 <=> i \in 1 .. n \/ i = n + 1
  BY <1>2
<1>9. TypeOK'
  BY <1>1, <1>3, <1>5, <1>6, EndedFacts DEF TypeOK
<1>10. Bounded' /\ Started' /\ Prepared' /\ Alone'
  <2> DEFINE m == Len(made[p][t])
  <2>1. m \in Nat
    BY <1>2
  <2>2. Len(made'[p][t]) \in Nat /\ Len(sequence'[p][t]) \in Nat
    BY <1>2, <1>3, <1>5
  <2>3. Len(made'[p][t]) + Len(sequence'[p][t]) = m + (n + 1)
    BY <1>3, <1>5
  <2>4. Len(made'[p][t]) + Len(sequence'[p][t]) = m + n + 1
    <3> HIDE DEF m, n
    <3>1. m + (n + 1) = m + n + 1
      BY <1>2, <2>1
    <3>2. QED
      BY <2>3, <3>1
  <2>5. \A q \in Processes, u \in Threads : q # p \/ u # t =>
            made'[q][u] = made[q][u] /\ sequence'[q][u] = sequence[q][u]
    BY <1>3, <1>5
  <2>6. pc[p][t] \notin {"init", "sequence"}
    BY <1>5
  <2>7. QED
    BY <1>5, <1>6, <2>2, <2>4, <2>5, <2>6, CallEnds
<1>11. PidsRight'
  <2>1. ASSUME NEW q \in Processes, NEW u \in Threads, pc'[q][u] \in {"seq32", "store32"}
        PROVE  oid'[q][u].pid = Pid[q] % PidRange
    <3>1. pc[q][u] = pc'[q][u] /\ oid'[q][u] = oid[q][u]
      BY <1>5, <2>1, EndedFacts
    <3>2. QED
      BY <2>1, <3>1 DEF IInv, PidsRight
  <2>2. ASSUME NEW q \in Processes, "DISABLE_PID_CACHE" \notin flags, context'[q].once
        PROVE  context'[q].pidbe = Pid[q] % PidRange
    BY <1>6, <2>2 DEF IInv, PidsRight
  <2>3. QED
    BY <1>5, <2>1, <2>2 DEF IInv, PidsRight
<1>12. Recent' /\ Distinct'
  <2>1. \A q \in Processes : context'[q].seq32 = context[q].seq32 /\ Drawn(q)' = Drawn(q)
    BY <1>5, <1>6, DrawnSame
  <2>2. Recent'
    BY <1>5, <2>1 DEF IInv, Recent
  <2>3. Distinct'
    BY <1>5 DEF IInv, Distinct
  <2>4. QED
    BY <2>2, <2>3
<1> HIDE DEF n, S
<1>13. \A u \in Threads : \A i \in 1 .. Len(sequence'[p][u]) :
           \/ u = t /\ i = n + 1 /\ sequence'[p][u][i] = o
           \/ i \in 1 .. Len(sequence[p][u]) /\ sequence'[p][u][i] = sequence[p][u][i]
  BY <1>3, <1>8 DEF n
<1>14. \A u \in Threads : \A i \in 1 .. Len(sequence[p][u]) :
           sequence[p][u][i].seq \in Nat /\ sequence[p][u][i].seq + Late <= S
  <2> SUFFICES ASSUME NEW u \in Threads, NEW i \in 1 .. Len(sequence[p][u])
               PROVE  sequence[p][u][i].seq \in Nat /\ sequence[p][u][i].seq + Late <= S
    OBVIOUS
  <2>1. sequence[p][u] \in Seq(Oid)
    BY <1>1 DEF TypeOK
  <2>2. sequence[p][u][i] \in Oid
    BY <2>1
  <2>3. QED
    BY <2>2 DEF Oid, IInv, Behind, S
<1>15. o.seq = S + 1 - Late
  BY <1>5
<1>16. Behind'
  <2>1. ASSUME NEW u \in Threads, NEW i \in 1 .. Len(sequence'[p][u])
        PROVE  sequence'[p][u][i].seq + Late <= S + 1
    <3>1. CASE sequence'[p][u][i] = o
      BY <1>4, <1>7, <1>15, <3>1
    <3>2. CASE i \in 1 .. Len(sequence[p][u]) /\ sequence'[p][u][i] = sequence[p][u][i]
      BY <1>4, <1>7, <1>14, <3>2
    <3>3. QED
      BY <1>13, <2>1, <3>1, <3>2
  <2>2. ASSUME NEW q \in Processes, NEW u \in Threads, NEW i \in 1 .. Len(sequence'[q][u])
        PROVE  sequence'[q][u][i].seq + Late <= context'[q].seq64
    <3>1. CASE q = p
      BY <1>6, <2>1, <2>2, <3>1
    <3>2. CASE q # p
      <4>1. sequence'[q][u] = sequence[q][u] /\ context'[q] = context[q]
        BY <1>3, <1>6, <3>2
      <4>2. QED
        BY <2>2, <4>1 DEF IInv, Behind
    <3>3. QED
      BY <3>1, <3>2
  <2>3. QED
    BY <1>5, <2>2 DEF Behind
<1>17. SequenceUnique'
  <2>1. \A u \in Threads : \A i \in 1 .. Len(sequence[p][u]) : sequence[p][u][i].seq # o.seq
    BY <1>4, <1>7, <1>14, <1>15
  <2>2. ASSUME NEW q \in Processes, NEW u \in Threads, NEW v \in Threads,
               NEW i \in 1 .. Len(sequence'[q][u]), NEW j \in 1 .. Len(sequence'[q][v]),
               sequence'[q][u][i].seq = sequence'[q][v][j].seq
        PROVE  <<u, i>> = <<v, j>>
    <3>1. CASE q # p
      <4>1. sequence'[q][u] = sequence[q][u] /\ sequence'[q][v] = sequence[q][v]
        BY <1>3, <3>1
      <4>2. QED
        BY <2>2, <4>1 DEF IInv, SequenceUnique
    <3>2. CASE q = p
      <4>1. CASE u = t /\ i = n + 1 /\ sequence'[p][u][i] = o
        BY <1>13, <2>1, <2>2, <3>2, <4>1
      <4>2. CASE v = t /\ j = n + 1 /\ sequence'[p][v][j] = o
        BY <1>13, <2>1, <2>2, <3>2, <4>2, SMTT(40)
      <4>3. CASE /\ i \in 1 .. Len(sequence[p][u]) /\ sequence'[p][u][i] = sequence[p][u][i]
                 /\ j \in 1 .. Len(sequence[p][v]) /\ sequence'[p][v][j] = sequence[p][v][j]
        BY <2>2, <3>2, <4>3 DEF IInv, SequenceUnique
      <4>4. QED
        BY <1>13, <3>2, <4>1, <4>2, <4>3
    <3>3. QED
      BY <3>1, <3>2
  <2>3. QED
    BY <2>2 DEF SequenceUnique
<1>18. QED
  BY <1>9, <1>10, <1>11, <1>12, <1>16, <1>17 DEF IInv

-----------------------------------------------------------------------------
(* The atomic step and the store are such ends.                            *)
LEMMA AddSeqStep ==
    ASSUME IInv, NEW p \in Processes, NEW t \in Threads, AddSeq32(p, t) \/ AddSeq64(p, t)
    PROVE  IInv'
<1>1. oid[p][t] \in Oid /\ context[p] \in Context
  BY DEF IInv, TypeOK
<1>2. context[p].seq32 \in Nat /\ context[p].seq64 \in Nat
  BY <1>1 DEF Context
<1>3. SeqRange \in Nat \ {0}
  BY ContextAssumption
<1>4. Late = 0
  BY DEF AddSeq32, AddSeq64, Late
<1>5. CASE AddSeq32(p, t)
  <2> DEFINE n == (context[p].seq32 + 1) % SeqRange
             o == [oid[p][t] EXCEPT !.seq = n]
  <2>1. n \in Nat /\ n = (context[p].seq32 + 1 - Late) % SeqRange
    BY <1>2, <1>3, <1>4, ModType
  <2>2. made' = [made EXCEPT ![p][t] = Append(made[p][t], o)]
    BY <1>5 DEF AddSeq32, Finish
  <2> HIDE DEF n
  <2>3. o \in Oid /\ o.pid = oid[p][t].pid /\ o.seq = n
    BY <1>1, <2>1 DEF Oid
  <2> HIDE DEF o
  <2>4. Draws32(p, t, o)
    BY <1>5, <2>1, <2>2, <2>3 DEF AddSeq32, Finish, Draws32, Ended
  <2>5. QED
    BY <2>4, Draws32Step
<1>6. CASE AddSeq64(p, t)
  <2> DEFINE n == context[p].seq64 + 1
             o == [oid[p][t] EXCEPT !.seq = n]
  <2>1. n \in Nat /\ n = context[p].seq64 + 1 - Late
    BY <1>2, <1>4
  <2>2. sequence' = [sequence EXCEPT ![p][t] = Append(sequence[p][t], o)]
    BY <1>6 DEF AddSeq64, FinishSequence
  <2> HIDE DEF n
  <2>3. o \in Oid /\ o.seq = n
    BY <1>1, <2>1 DEF Oid
  <2> HIDE DEF o
  <2>4. Draws64(p, t, o)
    BY <1>6, <2>1, <2>2, <2>3 DEF AddSeq64, FinishSequence, Draws64, Ended
  <2>5. QED
    BY <2>4, Draws64Step
<1>7. QED
  BY <1>5, <1>6

LEMMA StoreSeqStep ==
    ASSUME IInv, NEW p \in Processes, NEW t \in Threads, StoreSeq(p, t)
    PROVE  IInv'
<1>1. oid[p][t] \in Oid /\ context[p] \in Context
  BY DEF IInv, TypeOK
<1>2. context[p].seq32 \in Nat /\ context[p].seq64 \in Nat
  BY <1>1 DEF Context
<1>3. SeqRange \in Nat \ {0}
  BY ContextAssumption
<1>4. Late = 1
  BY DEF StoreSeq, Late, IInv, Alone
<1>5. CASE pc[p][t] = "store32"
  <2> DEFINE n == context[p].seq32 % SeqRange
             o == [oid[p][t] EXCEPT !.seq = n]
  <2>1. oid[p][t].seq = context[p].seq32
    BY <1>5 DEF IInv, Alone
  <2>2. n \in Nat /\ n = (context[p].seq32 + 1 - Late) % SeqRange
    <3>1. context[p].seq32 + 1 - 1 = context[p].seq32
      BY <1>2
    <3>2. QED
      BY <1>2, <1>3, <1>4, <3>1, ModType
  <2>3. /\ made' = [made EXCEPT ![p][t] = Append(made[p][t], o)]
        /\ context' = [context EXCEPT ![p].seq32 = context[p].seq32 + 1]
    BY <1>5, <2>1 DEF StoreSeq, Finish
  <2> HIDE DEF n
  <2>4. o \in Oid /\ o.pid = oid[p][t].pid /\ o.seq = n
    BY <1>1, <2>2 DEF Oid
  <2> HIDE DEF o
  <2>5. Draws32(p, t, o)
    BY <1>5, <2>2, <2>3, <2>4 DEF StoreSeq, Finish, Draws32, Ended
  <2>6. QED
    BY <2>5, Draws32Step
<1>6. CASE pc[p][t] = "store64"
  <2> DEFINE n == context[p].seq64
             o == [oid[p][t] EXCEPT !.seq = n]
  <2>1. oid[p][t].seq = n
    BY <1>6 DEF IInv, Alone
  <2>2. n \in Nat /\ n = context[p].seq64 + 1 - Late
    BY <1>2, <1>4
  <2>3. /\ sequence' = [sequence EXCEPT ![p][t] = Append(sequence[p][t], o)]
        /\ context' = [context EXCEPT ![p].seq64 = context[p].seq64 + 1]
    BY <1>6, <2>1 DEF StoreSeq, FinishSequence
  <2> HIDE DEF n
  <2>4. o \in Oid /\ o.seq = n
    BY <1>1, <2>2 DEF Oid
  <2> HIDE DEF o
  <2>5. Draws64(p, t, o)
    BY <1>6, <2>2, <2>3, <2>4 DEF StoreSeq, FinishSequence, Draws64, Ended
  <2>6. QED
    BY <2>5, Draws64Step
<1>7. QED
  BY <1>5, <1>6 DEF StoreSeq

-----------------------------------------------------------------------------
LEMMA InitIInv == Init => IInv
<1> SUFFICES ASSUME Init PROVE IInv
  OBVIOUS
<1>1. \A p \in Processes, t \in Threads :
          pc[p][t] = "idle" /\ made[p][t] = <<>> /\ sequence[p][t] = <<>>
  BY DEF Init
<1>2. \A i \in 1 .. Len(<<>>) : FALSE
  OBVIOUS
<1>3. TypeOK
  <2>1. NoContext \in Context /\ NoOid \in Oid /\ "idle" \in Places /\ <<>> \in Seq(Oid)
    BY DEF NoContext, Context, NoOid, Oid, Places
  <2>2. flags \in SUBSET {"THREAD_SAFE", "DISABLE_PID_CACHE"}
    BY ContextAssumption DEF Init
  <2>3. QED
    BY <2>1, <2>2 DEF Init, TypeOK
<1>4. Bounded
  <2> SUFFICES ASSUME NEW p \in Processes
               PROVE  IsFiniteSet(Calls(p)) /\ Begun(p) <= MaxOids
    BY DEF Bounded
  <2>1. \A t \in Threads : \A i \in 1 .. Number(p, t) : FALSE
    <3> SUFFICES ASSUME NEW t \in Threads PROVE \A i \in 1 .. Number(p, t) : FALSE
      OBVIOUS
    <3>1. Len(made[p][t]) = 0 /\ Len(sequence[p][t]) = 0
      BY <1>1
    <3>2. Number(p, t) = 0 + 0 + 0
      BY <1>1, <3>1 DEF Number
    <3>3. Number(p, t) = 0
      BY <3>2
    <3>4. QED
      BY <3>3
  <2>2. Calls(p) = {}
    BY <2>1 DEF Calls
  <2>3. QED
    BY <2>2, FS_EmptySet, ContextAssumption DEF Begun
<1>5. Started
  BY <1>1 DEF Started
<1>6. Prepared
  BY <1>1 DEF Prepared
<1>7. PidsRight
  BY <1>1, <1>2 DEF PidsRight, Init, NoContext
<1>8. Alone
  BY <1>1 DEF Alone
<1>9. Recent /\ Distinct /\ Behind /\ SequenceUnique
  BY <1>1, <1>2 DEF Recent, Distinct, Behind, SequenceUnique
<1>10. QED
  BY <1>3, <1>4, <1>5, <1>6, <1>7, <1>8, <1>9 DEF IInv

(* Only the clock, or nothing at all, changes.                             *)
LEMMA TickStep ==
    ASSUME IInv, UNCHANGED <<flags, running, context, pc, oid, made, sequence>>, now' \in Nat
    PROVE  IInv'
<1>1. TypeOK'
  BY DEF IInv, TypeOK
<1>2. Bounded'
  BY CallsSame DEF IInv, Bounded, Begun
<1>3. Started' /\ Prepared'
  BY DEF IInv, Started, Prepared
<1>4. PidsRight' /\ Alone'
  BY DEF IInv, PidsRight, Alone
<1>5. Recent' /\ Distinct' /\ Behind' /\ SequenceUnique'
  BY NothingMade DEF IInv
<1>6. QED
  BY <1>1, <1>2, <1>3, <1>4, <1>5 DEF IInv

LEMMA NextIInv == IInv /\ [Next]_vars => IInv'
<1> SUFFICES ASSUME IInv, [Next]_vars PROVE IInv'
  OBVIOUS
<1>1. CASE Tick
  <2>1. now' \in Nat
    BY <1>1 DEF Tick, IInv, TypeOK
  <2>2. QED
    BY <1>1, <2>1, TickStep DEF Tick
<1>2. CASE UNCHANGED vars
  BY <1>2, TickStep DEF vars, IInv, TypeOK
<1>3. ASSUME NEW p \in Processes, NEW t \in Threads, Step(p, t) PROVE IInv'
  <2>1. CASE \E kind \in {"init", "sequence"} : ReadTime(p, t, kind)
    BY <2>1, ReadTimeStep
  <2>2. CASE GetContext(p, t)
    BY <2>2, GetContextStep
  <2>3. CASE GetPid(p, t)
    BY <2>3, GetPidStep
  <2>4. CASE AddSeq32(p, t) \/ AddSeq64(p, t)
    BY <2>4, AddSeqStep
  <2>5. CASE LoadSeq(p, t)
    BY <2>5, LoadSeqStep
  <2>6. CASE StoreSeq(p, t)
    BY <2>6, StoreSeqStep
  <2>7. CASE \E q \in Processes : Fork(p, t, q)
    BY <2>7, ForkStep
  <2>8. QED
    BY <1>3, <2>1, <2>2, <2>3, <2>4, <2>5, <2>6, <2>7 DEF Step
<1>4. QED
  BY <1>1, <1>2, <1>3 DEF Next

(***************************************************************************)
(* The invariant holds in every state of the threads calling               *)
(* bson_oid_init and bson_oid_init_sequence and of processes forking.      *)
(***************************************************************************)
THEOREM Invariance == Spec => []IInv
BY InitIInv, NextIInv, PTL DEF Spec

(* In a process the last three bytes tell two ObjectIds apart, between     *)
(* processes the pid does.                                                 *)
LEMMA IInvUnique == IInv => OidsUnique
<1> SUFFICES ASSUME IInv,
                    NEW p \in Processes, NEW q \in Processes, NEW t \in Threads, NEW u \in Threads,
                    NEW i \in 1 .. Len(made[p][t]), NEW j \in 1 .. Len(made[q][u]),
                    made[p][t][i] = made[q][u][j]
             PROVE  <<p, t, i>> = <<q, u, j>>
  BY DEF OidsUnique
<1>1. p = q
  BY PidsAssumption DEF IInv, PidsRight
<1>2. t = u /\ i = j
  BY <1>1 DEF IInv, Distinct
<1>3. QED
  BY <1>1, <1>2

(* No two calls of bson_oid_init, by any threads of any processes that     *)
(* forked from one another, give equal ObjectIds.                          *)
THEOREM OidsAreUnique == Spec => []OidsUnique
BY Invariance, IInvUnique, PTL

(* No two calls of bson_oid_init_sequence in one process draw the same     *)
(* number.                                                                 *)
THEOREM SequenceIsUnique == Spec => []SequenceUnique
<1>1. IInv => SequenceUnique
  BY DEF IInv
<1>2. QED
  BY <1>1, Invariance, PTL

(* The fields, the pid of the bytes included, are what the C types hold.   *)
THEOREM TypeCorrect == Spec => []TypeOK
<1>1. IInv => TypeOK
  BY DEF IInv
<1>2. QED
  BY <1>1, Invariance, PTL

=============================================================================
