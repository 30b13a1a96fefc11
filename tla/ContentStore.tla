---------------------------- MODULE ContentStore ----------------------------
(***************************************************************************)
(* Authored content: the item database (store/content.cpp, schema.cpp) and *)
(* the blob baked from it (sim/content_blob.cpp), as values.  A database   *)
(* is its schema version, its items and the ids that were retired; a blob  *)
(* is the registry it holds, or not one.                                   *)
(*                                                                         *)
(* A row is ItemForm's record; its name is for people and tools only.      *)
(***************************************************************************)
EXTENDS Integers, FiniteSets

CONSTANTS
    Bands,                 \* [category -> [first, last]]: the ids of each
    Defaults,              \* [id -> row]: the built-in catalogue, named
    Reserved               \* the id of the actor, which is no item

SchemaVersion == 1         \* kContentSchemaVersion

ASSUME ContentStoreAssumption ==
    /\ Bands \in [DOMAIN Bands -> [first : Nat \ {0}, last : Nat]]
    /\ {"ground", "object", "equipment"} \subseteq DOMAIN Bands
    /\ DOMAIN Defaults \subseteq Nat \ {0}
    /\ Reserved \in Nat \ {0}

NoRows == [id \in {} |-> 0]

Fresh == [version |-> 0, items |-> NoRows, retired |-> {}]

Live(db) == DOMAIN db.items

Spoken(db) == Live(db) \cup db.retired

(* apply_content_migrations: an older file gets the tables, a newer one is *)
(* left alone by whoever cannot read it. *)
Readable(db) == db.version <= SchemaVersion

Migrated(db) == [db EXCEPT !.version = SchemaVersion]

(* seed_default_items: a catalogue without items is the built-in one. *)
Seeded(db) ==
    IF Live(db) # {} THEN db
    ELSE [db EXCEPT !.items = Defaults, !.retired = @ \cup {Reserved}]

(* open_content_db: each of its two transactions happens or does not. *)
Opened(db) == Seeded(Migrated(db))

Unfinished(db) == {db, Migrated(db)}

(* save_item, for a row the table's CHECKs let in *)
Accepted(row) == row.id > 0 /\ row.number["MaxStack"] >= 1 /\ row.number["AttackRange"] >= 1

SaveItem(db, row) ==
    [db EXCEPT !.items = [i \in DOMAIN @ \cup {row.id} |-> IF i = row.id THEN row ELSE @[i]]]

RetireItem(db, id) ==
    [db EXCEPT !.items = [i \in DOMAIN @ \ {id} |-> @[i]], !.retired = @ \cup {id}]

(* next_free_item_id, if it finds one: the first of a band nobody has used, *)
(* or one more than the last that was.                                      *)
After(used, band) ==
    {n \in band.first .. band.last :
        IF used = {} THEN n = band.first ELSE n - 1 \in used /\ \A u \in used : u < n}

(* Faulty: only the items there are count. *)
NextFreeLive(db, category) ==
    LET band == Bands[category] IN After(Live(db) \cap (band.first .. band.last), band)

NextFree(db, category) ==
    LET band == Bands[category] IN After(Spoken(db) \cap (band.first .. band.last), band)

----------------------------------------------------------------------------
(* Registries: what the simulation knows of the items. *)

(* Everything but the name. *)
Rules(row) == [f \in DOMAIN row \ {"name"} |-> row[f]]

Registry(db) == [id \in Live(db) |-> Rules(db.items[id])]

BuiltIn == [id \in DOMAIN Defaults |-> Rules(Defaults[id])]

(* A file that is not there, and one that is cut short: the magic, the     *)
(* version or the last record's bits are missing from it. *)
NoBlob == [there |-> FALSE, whole |-> FALSE]
TornBlob == [there |-> TRUE, whole |-> FALSE]
Blob(registry) == [there |-> TRUE, whole |-> TRUE, holds |-> registry]

(* load_item_catalogue: either way without a whole blob it is the built-in. *)
Catalogue(blob) == IF blob.whole THEN blob.holds ELSE BuiltIn

(* Faulty: the rules a type has are not part of it. *)
FingerprintOfIds(registry) == DOMAIN registry

(* content_hash: of the serialised form, so equal exactly for equal rules. *)
Fingerprint(registry) == registry
=============================================================================
