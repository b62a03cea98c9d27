------------------------- MODULE ConfluentRegistry -------------------------
(***************************************************************************)
(* src/src/storage/confluent.rs and the AvroEncoder over it                *)
(* (src/src/serialize/avro.rs): an event is encoded under the schema id of *)
(* its table's subject.  register_schema looks the subject up under one    *)
(* lock and, on a miss, assigns an id under another without looking again, *)
(* so threads that miss together assign several.                           *)
(*                                                                         *)
(* A frame is a sequence of bytes: 0, the id in four bytes, and the event  *)
(* as JSON, of which only the length matters; one that was cut short does  *)
(* not parse.                                                              *)
(***************************************************************************)
EXTENDS Naturals, Sequences, FiniteSets

CONSTANTS
  Encoders,      \* threads that call encode_event
  Subjects,      \* "<table>-value", one per table
  FirstId,       \* the first schema id, 100 in the code
  NoId,
  PayloadSize,   \* bytes of an event's JSON
  MaxFrames      \* bound: frames encoded

VARIABLES
  next_schema_id,
  schema_cache,   \* subject -> NoId, or its id
  missed,         \* encoder -> NoId, or the subject it did not find
  owner,          \* id -> subject it was assigned to; grows with the ids
  frames          \* <<bytes, subject>> of the frames encoded, in order

registryVars == <<next_schema_id, schema_cache, missed, owner, frames>>

Init ==
  /\ next_schema_id = FirstId
  /\ schema_cache = [s \in Subjects |-> NoId]
  /\ missed = [c \in Encoders |-> NoId]
  /\ owner = <<>>
  /\ frames = <<>>

-----------------------------------------------------------------------------
Payload == [i \in 1..PayloadSize |-> 123]

\* Mutant: the id is narrowed to a byte.
ToBytesNarrow(id) == <<0, 0, 0, id % 256>>

\* u32::to_be_bytes
ToBytes(id) == <<id \div 16777216, (id \div 65536) % 256, (id \div 256) % 256, id % 256>>

\* encode_wire_format
Encode(id) == <<0>> \o ToBytes(id) \o Payload

\* decode_wire_format and decode_event on what arrived of a frame: an id, or
\* NoId for any of the errors.
Decode(bytes) ==
  IF Len(bytes) >= 5 /\ bytes[1] = 0 /\ SubSeq(bytes, 6, Len(bytes)) = Payload
  THEN bytes[2] * 16777216 + bytes[3] * 65536 + bytes[4] * 256 + bytes[5]
  ELSE NoId

-----------------------------------------------------------------------------
\* register_schema: the subject is in the cache; the event is encoded.
Hit(c, s) ==
  /\ missed[c] = NoId /\ Len(frames) < MaxFrames
  /\ schema_cache[s] # NoId
  /\ frames' = Append(frames, <<Encode(schema_cache[s]), s>>)
  /\ UNCHANGED <<next_schema_id, schema_cache, missed, owner>>

\* register_schema: the subject is not in the cache.
Miss(c, s) ==
  /\ missed[c] = NoId /\ Len(frames) < MaxFrames
  /\ schema_cache[s] = NoId
  /\ missed' = [missed EXCEPT ![c] = s]
  /\ UNCHANGED <<next_schema_id, schema_cache, owner, frames>>

\* Mutant: the id is not cached.
AssignUncached(c) ==
  /\ missed[c] # NoId
  /\ next_schema_id' = next_schema_id + 1
  /\ owner' = Append(owner, missed[c])
  /\ frames' = Append(frames, <<Encode(next_schema_id), missed[c]>>)
  /\ missed' = [missed EXCEPT ![c] = NoId]
  /\ UNCHANGED schema_cache

\* Mutant: the counter is not advanced.
AssignSameId(c) ==
  /\ missed[c] # NoId
  /\ owner' = Append(owner, missed[c])
  /\ schema_cache' = [schema_cache EXCEPT ![missed[c]] = next_schema_id]
  /\ frames' = Append(frames, <<Encode(next_schema_id), missed[c]>>)
  /\ missed' = [missed EXCEPT ![c] = NoId]
  /\ UNCHANGED next_schema_id

\* register_schema: an id is assigned and cached, with the lock of the counter
\* held to the end; the event is encoded.
Assign(c) ==
  /\ missed[c] # NoId
  /\ next_schema_id' = next_schema_id + 1
  /\ owner' = Append(owner, missed[c])
  /\ schema_cache' = [schema_cache EXCEPT ![missed[c]] = next_schema_id]
  /\ frames' = Append(frames, <<Encode(next_schema_id), missed[c]>>)
  /\ missed' = [missed EXCEPT ![c] = NoId]

Next == \E c \in Encoders : Assign(c) \/ \E s \in Subjects : Hit(c, s) \/ Miss(c, s)

Spec == Init /\ [][Next]_registryVars

-----------------------------------------------------------------------------
Owns(s, id) == id - FirstId + 1 \in DOMAIN owner /\ owner[id - FirstId + 1] = s

\* A frame is decoded to the id of its event's own subject, whichever threads
\* raced to register it, and what arrives cut short is refused.
FramesDecode ==
  \A i \in DOMAIN frames : \A n \in 0..Len(frames[i][1]) :
    LET id == Decode(SubSeq(frames[i][1], 1, n))
    IN  IF n < Len(frames[i][1]) THEN id = NoId
        ELSE id # NoId /\ Owns(frames[i][2], id)

\* What the race costs: a subject never gets more ids than there are threads,
\* since none misses a subject twice.
IdsBounded ==
  \A s \in Subjects :
    Cardinality({i \in DOMAIN owner : owner[i] = s}) <= Cardinality(Encoders)

\* The cache is a map that only fills up, with ids that are given out once.
Registry == INSTANCE IdRegistry WITH given <- owner, current <- schema_cache
RefinesRegistry == Registry!Spec
=============================================================================
