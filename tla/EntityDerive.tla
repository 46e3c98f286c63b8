----------------------------- MODULE EntityDerive -----------------------------
(***************************************************************************)
(* What #[derive(EntityType)] makes of a struct: the columns of the table, *)
(* the metadata of its navigations, and the conversions between a row,     *)
(* which has positions, and an entity, which has fields.                   *)
(*                                                                         *)
(* A struct is [table, fields]; a field is [name, is, column, pk, type,    *)
(* join], where "is" tells a scalar from the four kinds of navigation and  *)
(* "type" is the target of a foreign key or the related type.  Positions   *)
(* count from 1.                                                           *)
(***************************************************************************)
EXTENDS Integers, SequencesExt

CONSTANTS
    Null,        \* the SQL NULL
    Nothing      \* no type, no column, no context

Scalar(name, column, pk, type) ==
    [name |-> name, is |-> "scalar", column |-> column, pk |-> pk, type |-> type, join |-> Nothing]

Navigation(name, kind, type, join) ==
    [name |-> name, is |-> kind, column |-> Nothing, pk |-> FALSE, type |-> type, join |-> join]

Kinds == {"BelongsTo", "HasOne", "HasMany", "ManyToMany"}

-----------------------------------------------------------------------------
(* Scalar fields.                                                           *)

ScalarsIn(fields) == SelectSeq(fields, LAMBDA f : f.is = "scalar")

Scalars(S) == ScalarsIn(S.fields)

Columns(S) == [k \in DOMAIN Scalars(S) |-> Scalars(S)[k].column]

FieldNames(S) == {Scalars(S)[k].name : k \in DOMAIN Scalars(S)}

Keys(fields) == SelectSeq(ScalarsIn(fields), LAMBDA f : f.pk)

\* primary_keys holds field names, the names of key_values().
primary_keys(S) == [k \in DOMAIN Keys(S.fields) |-> Keys(S.fields)[k].name]

\* The last key field wins.
pk_column_name(S) == IF Keys(S.fields) = <<>> THEN "id" ELSE Last(Keys(S.fields)).column

pk_column_index(S) == Max({1} \cup {k \in DOMAIN Scalars(S) : Scalars(S)[k].pk})

\* The arms of fk_column_index and fk_column_for: foreign keys with a target.
\* A second key to the same target is a duplicate constant.
fk_column_index(S, col) ==
    SelectInSeq(Scalars(S), LAMBDA f : f.type # Nothing /\ f.column = col)

Position(found) == IF found = 0 THEN 1 ELSE found

fk_index_of(S, target) == Position(SelectInSeq(Scalars(S), LAMBDA f : f.type = target))

fk_column_for(S, target) ==
    LET at == SelectInSeq(Scalars(S), LAMBDA f : f.type = target)
    IN  IF at = 0 THEN Nothing ELSE Scalars(S)[at].column

-----------------------------------------------------------------------------
(* NavigationMeta of the field at position at of type T.  Of the struct     *)
(* that owns it the macro has read the fields before it.                    *)

FirstColumn(fields) == IF fields = <<>> THEN "id" ELSE Head(fields).column

nav_meta(model, T, at) ==
    LET f       == model[T].fields[at]
        before  == SubSeq(model[T].fields, 1, at - 1)
        related == model[f.type]
        join    == model[f.join]
        fk      == FirstColumn(SelectSeq(ScalarsIn(before), LAMBDA g : g.type # Nothing))
        plain   == [name |-> f.name, kind |-> f.is, type |-> f.type, join |-> f.join,
                    pk_row_index |-> pk_column_index(related)]
    IN  plain @@
        CASE f.is = "HasMany" ->
               [fk_column |-> fk_column_for(related, T), ref_column |-> FirstColumn(Keys(before)),
                fk_row_index |-> fk_index_of(related, T)]
          [] f.is = "ManyToMany" ->
               [ref_column        |-> pk_column_name(related),
                through_parent_fk |-> fk_column_for(join, T),
                parent_index      |-> Position(fk_column_index(join, fk_column_for(join, T))),
                related_fk        |-> fk_column_for(join, f.type),
                related_index     |-> Position(fk_column_index(join, fk_column_for(join, f.type)))]
          [] OTHER ->
               [fk_column |-> fk, ref_column |-> pk_column_name(related),
                fk_row_index |-> Position(fk_column_index(model[T], fk))]

NavPositions(S) == {k \in DOMAIN S.fields : S.fields[k].is \in Kinds}

NavNames(S) == {S.fields[k].name : k \in NavPositions(S)}

find_navigation(model, T, name) ==
    nav_meta(model, T, CHOOSE k \in NavPositions(model[T]) : model[T].fields[k].name = name)

-----------------------------------------------------------------------------
(* Rows and entities.                                                       *)

\* The fields take the values of the row by position, whatever its columns are.
from_row(S, values) ==
    [name \in FieldNames(S) |->
        values[SelectInSeq(Scalars(S), LAMBDA f : f.name = name)]]

\* snapshot() and key_values(), both by field name.
snapshot(e) == e.values

key_values(S, e) == [name \in Range(primary_keys(S)) |-> e.values[name]]

\* The value of a name in a snapshot, if it has one.
Get(snap, name) == IF name \in DOMAIN snap THEN <<snap[name]>> ELSE <<>>
=============================================================================
