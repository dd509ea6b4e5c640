----------------------------- MODULE Ingestion -----------------------------
(***************************************************************************)
(* From a source file to the rows that the domain models are built from:   *)
(* the header row, the columns that headers name, and the conversion of    *)
(* the cells of every row.  One fault refuses the whole file.              *)
(*                                                                         *)
(* A header is the key that it is compared by.  A cell is empty, blank     *)
(* (spaces), fits the type of its column's field or does not; an object in *)
(* JSON is a type like the others.  A row says which invoice it belongs to.*)
(***************************************************************************)
EXTENDS Integers, Sequences, Functions

CONSTANTS
    Fields,         \* Fields[source]: the fields of a source's records
    LineFields,     \* those of them that an invoice line has
    Required,       \* Required[source]: those without a default
    Names,          \* Names[header]: the field that has this name or this alias
    NoHeader        \* a blank header

ASSUME FieldsAssumption ==
    /\ \A source \in DOMAIN Fields : Required[source] \subseteq Fields[source]
    /\ LineFields \subseteq Fields["erp"]

Absent(file) == file.format = "absent"

\* The file can be opened and its header row tells its columns apart.
Reads(file) ==
    /\ file.format \in {"csv", "xlsx"}
    /\ file.headers # <<>>
    /\ NoHeader \notin Range(file.headers)
    /\ IsInjective(file.headers)

\* Rows without a value are dropped.
Rows(file) ==
    {i \in DOMAIN file.rows : \E h \in Range(file.headers) : file.rows[i].cells[h] # "empty"}

\* The columns that are read: the mapping goes before names and aliases.
Columns(source, mapping, file) ==
    {h \in Range(file.headers) :
        h \in DOMAIN mapping \/ (h \in DOMAIN Names /\ Names[h] \in Fields[source])}
Resolved(source, mapping, file) ==
    [h \in Columns(source, mapping, file) |->
        IF h \in DOMAIN mapping THEN mapping[h] ELSE Names[h]]

Maps(source, mapping, file) ==
    LET resolved == Resolved(source, mapping, file) IN
    /\ Range(mapping) \subseteq Fields[source]
    /\ IsInjective(resolved)
    /\ Required[source] \subseteq Range(resolved)

Filled(cell) == cell \notin {"empty", "blank"}
Converted(cell) == cell # "unfit"

\* A field that is not given takes its default, if it has one.
Converts(source, mapping, file, i, fields) ==
    \A h \in Columns(source, mapping, file) :
        LET field == Resolved(source, mapping, file)[h]
            cell == file.rows[i].cells[h]
        IN  field \in fields => Converted(cell) /\ (field \in Required[source] => Filled(cell))

\* The fields of an invoice are taken from the first of its lines.
FirstLines(file) ==
    {i \in Rows(file) : \A j \in Rows(file) :
        file.rows[j].invoice = file.rows[i].invoice => i <= j}
ConvertsInvoices(mapping, file) ==
    /\ \A i \in Rows(file) : Converts("erp", mapping, file, i, LineFields)
    /\ \A i \in FirstLines(file) :
          Converts("erp", mapping, file, i, Fields["erp"] \ LineFields)

Loads(source, mapping, file) ==
    /\ Reads(file) /\ Maps(source, mapping, file)
    /\ IF source = "erp"
       THEN ConvertsInvoices(mapping, file)
       ELSE \A i \in Rows(file) : Converts(source, mapping, file, i, Fields[source])
=============================================================================
