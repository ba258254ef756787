------------------------------ MODULE BsonStore ------------------------------
(***************************************************************************)
(* What a program may expect of its bson_t variables, its byte buffer and  *)
(* its bson_value_t: each holds contents of its own, which only a call on  *)
(* it changes; a copy is equal and independent, and what is stolen moves.  *)
(* One operator for what each kind of call does, to every state.           *)
(***************************************************************************)
EXTENDS Sequences

CONSTANTS Slots,  \* the bson_t variables
          Nothing    \* no contents

VARIABLES contents,  \* the elements of each bson_t, or Nothing
          buffer,    \* those in the caller's buffer, or Nothing
          held       \* the value of the caller, or Nothing

store == <<contents, buffer, held>>

Begins == /\ contents = [h \in Slots |-> Nothing]
          /\ buffer = Nothing /\ held = Nothing

Becomes(h, c) == contents' = [contents EXCEPT ![h] = c]

Make(h, c)    == Becomes(h, c) /\ UNCHANGED <<buffer, held>>
Extend(h, c)  == Make(h, contents[h] \o c)
Drop(h)       == Make(h, Nothing)
Move(g, h)    == /\ contents' = [contents EXCEPT ![h] = contents[g], ![g] = Nothing]
                 /\ UNCHANGED <<buffer, held>>
ToBuffer(h)   == Becomes(h, Nothing) /\ buffer' = contents[h] /\ UNCHANGED held
FromBuffer(h) == /\ Becomes(h, IF buffer = Nothing THEN <<>> ELSE buffer)
                 /\ buffer' = Nothing /\ UNCHANGED held
LoseBuffer    == buffer' = Nothing /\ UNCHANGED <<contents, held>>
Hold(v)       == held' = v /\ UNCHANGED <<contents, buffer>>

Without(c, keys) == SelectSeq(c, LAMBDA e : e.key \notin keys)

=============================================================================
