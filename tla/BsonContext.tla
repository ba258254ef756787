---------------------------- MODULE BsonContext -----------------------------
(***************************************************************************)
(* ObjectId generation: src/bson/bson-context.c and bson_oid_init and      *)
(* bson_oid_init_sequence of src/bson/bson-oid.c, called by the threads of *)
(* the processes that fork from one another.  The context is the default   *)
(* one (THREAD_SAFE, DISABLE_PID_CACHE) or one of the caller with other    *)
(* flags, which binds the caller: without THREAD_SAFE one thread uses it   *)
(* at a time, with the pid cached the process does not fork.               *)
(*                                                                         *)
(* The machine bytes of an ObjectId are the same everywhere and left out.  *)
(* The counter is 32 (64) bits wide of which an ObjectId has the last 24   *)
(* (all); it is an integer here, reduced where it is written to the        *)
(* ObjectId.                                                               *)
(***************************************************************************)
EXTENDS Integers, Sequences, FiniteSets

CONSTANTS Processes, Root,  \* the processes, and the one that runs first
          Pid,              \* the pid of each process
          PidRange,         \* an ObjectId has 16 bits for the pid
          Threads,
          FlagSets,         \* the flags a context may have
          Seeds,            \* where seq32 may start: 0 .. 0x7FFFF0
          SeqRange,         \* 2^24
          MaxOids,          \* bound: ObjectIds made by each process
          MaxTime           \* bound: the last second of the clock

ASSUME ContextAssumption ==
    /\ Root \in Processes /\ Pid \in [Processes -> Nat]
    /\ PidRange \in Nat \ {0} /\ SeqRange \in Nat \ {0}
    /\ FlagSets \subseteq SUBSET {"THREAD_SAFE", "DISABLE_PID_CACHE"}
    /\ Seeds \subseteq Nat /\ MaxOids \in Nat /\ MaxTime \in Nat

(* Two processes alive together differ in the 16 bits that are kept.       *)
ASSUME PidsAssumption ==
    \A p, q \in Processes : p # q => Pid[p] % PidRange # Pid[q] % PidRange

(* The counter does not come round.                                        *)
ASSUME OidsAssumption == MaxOids <= SeqRange

VARIABLES
    flags,      \* the flags of the context
    now,        \* time (NULL)
    running,    \* the threads of each process that exist
    context,    \* the context of each process, in its own memory
    pc,         \* where each thread is in bson_oid_init
    oid,        \* the ObjectId it is filling
    made,       \* history: the ObjectIds of bson_oid_init, by thread
    sequence    \* history: those of bson_oid_init_sequence

vars == <<flags, now, running, context, pc, oid, made, sequence>>

NoContext == [once |-> FALSE, seq32 |-> 0, seq64 |-> 0, pidbe |-> 0]
NoOid     == [time |-> 0, pid |-> 0, seq |-> 0]

(* The ObjectIds process p has begun to make: the i-th of each thread.     *)
Number(p, t) == Len(made[p][t]) + Len(sequence[p][t])
                    + IF pc[p][t] = "idle" THEN 0 ELSE 1
Calls(p) == UNION {{<<t, i>> : i \in 1 .. Number(p, t)} : t \in Threads}

Begun(p) == Cardinality(Calls(p))

-----------------------------------------------------------------------------
Init == /\ flags \in FlagSets
        /\ now = 0
        /\ running = [p \in Processes |-> IF p = Root THEN Threads ELSE {}]
        /\ context = [p \in Processes |-> NoContext]
        /\ pc = [p \in Processes |-> [t \in Threads |-> "idle"]]
        /\ oid = [p \in Processes |-> [t \in Threads |-> NoOid]]
        /\ made = [p \in Processes |-> [t \in Threads |-> <<>>]]
        /\ sequence = [p \in Processes |-> [t \in Threads |-> <<>>]]

Tick == /\ now < MaxTime
        /\ now' = now + 1
        /\ UNCHANGED <<flags, running, context, pc, oid, made, sequence>>

(* bson_oid_init, bson_oid_init_sequence: the time is read first ...       *)
ReadTime(p, t, kind) ==
    /\ t \in running[p] /\ pc[p][t] = "idle" /\ Begun(p) < MaxOids
    /\ "THREAD_SAFE" \in flags \/ \A u \in Threads : pc[p][u] = "idle"
    /\ pc' = [pc EXCEPT ![p][t] = kind]
    /\ oid' = [oid EXCEPT ![p][t] = [NoOid EXCEPT !.time = now]]
    /\ UNCHANGED <<flags, now, running, context, made, sequence>>

(* ... then the context is looked up, and initialised by the first thread  *)
(* of the process to do so: pthread_once holds up the others.  The variant *)
(* initialises it every time.                                              *)
Initialised(p, seed) == [once |-> TRUE, seq32 |-> seed, seq64 |-> 0,
                         pidbe |-> Pid[p] % PidRange]

GetContext_Always(p, t) ==
    /\ pc[p][t] \in {"init", "sequence"}
    /\ \E seed \in Seeds : context' = [context EXCEPT ![p] = Initialised(p, seed)]
    /\ pc' = [pc EXCEPT ![p][t] = IF @ = "init" THEN "pid" ELSE "seq64"]
    /\ UNCHANGED <<flags, now, running, oid, made, sequence>>

GetContext(p, t) ==
    /\ pc[p][t] \in {"init", "sequence"}
    /\ \/ context[p].once /\ UNCHANGED context
       \/ /\ ~context[p].once
          /\ \E seed \in Seeds :
                context' = [context EXCEPT ![p] = Initialised(p, seed)]
    /\ pc' = [pc EXCEPT ![p][t] = IF @ = "init" THEN "pid" ELSE "seq64"]
    /\ UNCHANGED <<flags, now, running, oid, made, sequence>>

(* ... then the pid is filled in, the cached one or getpid ().             *)
OidPid_Cached(p) == context[p].pidbe
OidPid(p) == IF "DISABLE_PID_CACHE" \in flags THEN Pid[p] % PidRange
                                              ELSE context[p].pidbe

GetPid(p, t) ==
    /\ pc[p][t] = "pid"
    /\ oid' = [oid EXCEPT ![p][t].pid = OidPid(p)]
    /\ pc' = [pc EXCEPT ![p][t] = "seq32"]
    /\ UNCHANGED <<flags, now, running, context, made, sequence>>

(* ... and last the counter: one atomic step of a context that is          *)
(* THREAD_SAFE.                                                            *)
Finish(p, t, seq) ==
    /\ made' = [made EXCEPT ![p][t] = Append(@, [oid[p][t] EXCEPT
                                                    !.seq = seq % SeqRange])]
    /\ pc' = [pc EXCEPT ![p][t] = "idle"]
    /\ oid' = [oid EXCEPT ![p][t] = NoOid]
    /\ UNCHANGED <<flags, now, running, sequence>>

FinishSequence(p, t, seq) ==
    /\ sequence' = [sequence EXCEPT ![p][t] = Append(@, [oid[p][t] EXCEPT
                                                            !.seq = seq])]
    /\ pc' = [pc EXCEPT ![p][t] = "idle"]
    /\ oid' = [oid EXCEPT ![p][t] = NoOid]
    /\ UNCHANGED <<flags, now, running, made>>

AddSeq32(p, t) ==
    /\ pc[p][t] = "seq32" /\ "THREAD_SAFE" \in flags
    /\ context' = [context EXCEPT ![p].seq32 = @ + 1]
    /\ Finish(p, t, context[p].seq32 + 1)

AddSeq64(p, t) ==
    /\ pc[p][t] = "seq64" /\ "THREAD_SAFE" \in flags
    /\ context' = [context EXCEPT ![p].seq64 = @ + 1]
    /\ FinishSequence(p, t, context[p].seq64 + 1)

(* Otherwise seq++, a load and a store.                                    *)
LoadSeq(p, t) ==
    /\ pc[p][t] \in {"seq32", "seq64"} /\ "THREAD_SAFE" \notin flags
    /\ oid' = [oid EXCEPT ![p][t].seq = IF pc[p][t] = "seq32"
                                        THEN context[p].seq32
                                        ELSE context[p].seq64]
    /\ pc' = [pc EXCEPT ![p][t] = IF @ = "seq32" THEN "store32" ELSE "store64"]
    /\ UNCHANGED <<flags, now, running, context, made, sequence>>

StoreSeq(p, t) ==
    \/ /\ pc[p][t] = "store32"
       /\ context' = [context EXCEPT ![p].seq32 = oid[p][t].seq + 1]
       /\ Finish(p, t, oid[p][t].seq)
    \/ /\ pc[p][t] = "store64"
       /\ context' = [context EXCEPT ![p].seq64 = oid[p][t].seq + 1]
       /\ FinishSequence(p, t, oid[p][t].seq)

(* fork, between two calls: the child has the memory of the parent and the *)
(* thread that forked.                                                     *)
Fork(p, t, q) ==
    /\ t \in running[p] /\ pc[p][t] = "idle" /\ running[q] = {}
    /\ "DISABLE_PID_CACHE" \in flags
    /\ running' = [running EXCEPT ![q] = {t}]
    /\ context' = [context EXCEPT ![q] = context[p]]
    /\ UNCHANGED <<flags, now, pc, oid, made, sequence>>

Step(p, t) == \/ \E kind \in {"init", "sequence"} : ReadTime(p, t, kind)
              \/ GetContext(p, t)
              \/ GetPid(p, t)
              \/ AddSeq32(p, t)
              \/ AddSeq64(p, t)
              \/ LoadSeq(p, t)
              \/ StoreSeq(p, t)
              \/ \E q \in Processes : Fork(p, t, q)

Next == Tick \/ \E p \in Processes, t \in Threads : Step(p, t)

Spec == Init /\ [][Next]_vars

-----------------------------------------------------------------------------
(* No two calls of bson_oid_init, in whichever threads and processes, make *)
(* the same ObjectId: not when threads share the context, not when a       *)
(* process forked with a counter in the middle.                            *)
OidsUnique ==
    \A p, q \in Processes, t, u \in Threads :
        \A i \in 1 .. Len(made[p][t]), j \in 1 .. Len(made[q][u]) :
            made[p][t][i] = made[q][u][j] => <<p, t, i>> = <<q, u, j>>

(* The 64 bit sequence of a process is drawn by one call at a time: no two *)
(* calls of bson_oid_init_sequence in a process get the same number.       *)
SequenceUnique ==
    \A p \in Processes, t, u \in Threads :
        \A i \in 1 .. Len(sequence[p][t]), j \in 1 .. Len(sequence[p][u]) :
            sequence[p][t][i].seq = sequence[p][u][j].seq => <<t, i>> = <<u, j>>

=============================================================================
