--------------------------- MODULE SchemaRegistry ---------------------------
(***************************************************************************)
(* src/src/storage/schema.rs: register_schema reads the stored schema,     *)
(* checks the new one against it and saves it, three calls with no lock    *)
(* over them; validate_event decides which events the engine lets through. *)
(*                                                                         *)
(* A schema gives some of the fields a type.  A payload gives each field a *)
(* kind of JSON value, or nothing.                                         *)
(***************************************************************************)
EXTENDS Naturals, Sequences

CONSTANTS
  Registrants,   \* threads that call register_schema
  Fields,        \* field names
  Types,         \* type names schemas use, among DOMAIN Accepts
  Modes,         \* compatibility modes in use, among AllModes
  MaxSaves       \* bound: schemas saved

AllModes == {"None", "Backward", "Forward", "Full"}

\* The kinds of value each type name accepts; any other name accepts none.
Accepts == [integer |-> {"whole"}, float |-> {"whole", "fraction"},
            string |-> {"text"}, boolean |-> {"truth"}, other |-> {}]

Kinds == {"whole", "fraction", "text", "truth"}

\* Absent: the schema has no such field, the payload no such value.
Schemas  == [Fields -> Types \cup {"absent"}]
Payloads == [Fields -> Kinds \cup {"absent"}]

Has(schema) == {f \in Fields : schema[f] # "absent"}

Malformed == <<>>   \* a JSON value without a "fields" object

VARIABLES
  store,     \* what the state store holds: <<>>, or <<schema>>
  pending,   \* per registrant: <<>>, or the <<schema, mode>> that passed
  saved      \* the <<schema, mode>> saved so far, in order

vars == <<store, pending, saved>>

Init ==
  /\ store = <<>>
  /\ pending = [r \in Registrants |-> <<>>]
  /\ saved = <<>>

-----------------------------------------------------------------------------
\* Mutant: types are not compared.
CompatibleNames(old, new, mode) ==
  \/ mode = "None"
  \/ /\ old # Malformed /\ new # Malformed
     /\ mode \in {"Backward", "Full"} => Has(old) \subseteq Has(new)
     /\ mode \in {"Forward", "Full"} => Has(new) \subseteq Has(old)

\* check_compatibility: common fields keep their types, Backward deletes no
\* field, Forward adds none, Full neither.
Compatible(old, new, mode) ==
  \/ mode = "None"
  \/ /\ old # Malformed /\ new # Malformed
     /\ \A f \in Has(old) \cap Has(new) : old[f] = new[f]
     /\ mode \in {"Backward", "Full"} => Has(old) \subseteq Has(new)
     /\ mode \in {"Forward", "Full"} => Has(new) \subseteq Has(old)

\* validate_event when the store holds `stored`, on an event of kind op with the
\* row `after`: a payload, or <<>> when it is missing or not an object.
Validates(stored, op, after) ==
  stored # <<>> =>
    /\ stored[1] # Malformed
    /\ op \in {"Create", "Update"} =>
         /\ after # <<>>
         /\ \A f \in Has(stored[1]) : after[f] \in Accepts[stored[1][f]]

-----------------------------------------------------------------------------
\* register_schema: the stored schema is read and the new one passes the check
\* (or there was none).  When it does not, the call fails and changes nothing.
Check(r, new, mode) ==
  /\ pending[r] = <<>> /\ Len(saved) < MaxSaves
  /\ store # <<>> => Compatible(store[1], new, mode)
  /\ pending' = [pending EXCEPT ![r] = <<new, mode>>]
  /\ UNCHANGED <<store, saved>>

\* register_schema: the new schema is saved.
Save(r) ==
  /\ pending[r] # <<>>
  /\ store' = <<pending[r][1]>>
  /\ saved' = Append(saved, pending[r])
  /\ pending' = [pending EXCEPT ![r] = <<>>]

Next == \E r \in Registrants :
          \/ \E new \in Schemas \cup {Malformed}, mode \in Modes : Check(r, new, mode)
          \/ Save(r)

Spec == Init /\ [][Next]_vars

-----------------------------------------------------------------------------
\* Every event that passes validate_event under schema a does so under b.
Readable(a, b) ==
  \A op \in {"Create", "Update", "Delete", "Commit"}, p \in Payloads \cup {<<>>} :
    Validates(<<a>>, op, p) => Validates(<<b>>, op, p)

\* Saved schemas i to j were all registered in this mode, but for the first.
Under(mode, i, j) == \A k \in (i + 1)..j : saved[k][2] = mode

\* What the modes give the readers of events, over any number of schemas that
\* one registrant registers in turn: under Backward what the latest schema lets
\* through is valid under every earlier one, under Forward what an earlier one
\* let through is valid under the latest, under Full both.
EvolutionSafe ==
  \A i, j \in DOMAIN saved : i < j =>
    /\ Under("Backward", i, j) => Readable(saved[j][1], saved[i][1])
    /\ Under("Forward", i, j) => Readable(saved[i][1], saved[j][1])
    /\ Under("Full", i, j) => /\ Readable(saved[i][1], saved[j][1])
                              /\ Readable(saved[j][1], saved[i][1])

\* "Backward: New schema must be able to read old data", "Forward: Old schema
\* must be able to read new data": an event let through under the one is valid
\* under the other.
ReadsAsDocumented ==
  \A i \in 1..(Len(saved) - 1) :
    /\ saved[i + 1][2] = "Backward" => Readable(saved[i][1], saved[i + 1][1])
    /\ saved[i + 1][2] = "Forward" => Readable(saved[i + 1][1], saved[i][1])

=============================================================================
