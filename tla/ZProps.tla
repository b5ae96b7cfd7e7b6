------------------------------- MODULE ZProps -------------------------------
(***************************************************************************)
(* The property dialog of the file system tab (dialogfsprop.cpp): a list of  *)
(* properties and a list of rows, tied together by names that can be edited, *)
(* and what fsEditProps sends to zfs when the dialog is accepted.            *)
(***************************************************************************)
EXTENDS Integers, Sequences, FiniteSets, SequencesExt

CONSTANTS Known,        \* AllProperties as InitAllProperties makes it: <<[Name, Flags, ValidOptions], ...>>
          DataSets,     \* datasets: functions from the names of their properties to values
          UserNames,    \* the names that contain a colon
          TypedNames, TypedValues,
          MaxEdits      \* bound of the model

VARIABLES fsprops,      \* the dataset's properties
          props,        \* AllProperties: sequence of [Name, Flags, ValidOptions]
          rows,         \* propList: sequence of [name, value, role, mark, editable]
          current,      \* the current item, 0 if none
          buttons,      \* which of the buttons Remove, Inherit and Revert are enabled
          renamed,      \* a name was refused, or the name of a property that was added was edited again
          crashed,      \* a NULL property was used
          edits
pvars == <<fsprops, props, rows, current, buttons, renamed, crashed, edits>>

-----------------------------------------------------------------------------
(* Lookups. *)

FirstOf(S) == IF S = {} THEN 0 ELSE CHOOSE i \in S : \A j \in S : i <= j
\* Position of the property of that name, 0 for NULL.
getFSBaseProperty(ps, name) == FirstOf({i \in DOMAIN ps : ps[i].Name = name})
getFSProperty(name) == IF name \in DOMAIN fsprops THEN fsprops[name] ELSE ""
\* A combo shows nothing if the value is none of its options.
ShownValue(p) == IF "ISOPTION" \in p.Flags /\ getFSProperty(p.Name) \notin p.ValidOptions THEN "" ELSE getFSProperty(p.Name)

\* refreshList: the known properties the dataset has, then those of it that are not known.
AllProps ==
    SelectSeq(Known, LAMBDA p : p.Name \in DOMAIN fsprops)
    \o SetToSeq({[Name |-> n, ValidOptions |-> {}, Flags |-> {"ISSTRING"} \union (IF n \in UserNames THEN {"ISUSER"} ELSE {})] :
                 n \in {x \in DOMAIN fsprops : getFSBaseProperty(Known, x) = 0}})
Row(p) == [name |-> p.Name, value |-> ShownValue(p), role |-> p.Name, mark |-> "",
           editable |-> p.Flags \intersect {"READONLY", "ISOPTION"} = {}]
refreshList == /\ props = AllProps
               /\ rows = [i \in DOMAIN AllProps |-> Row(AllProps[i])]
Buttons == {"remove", "inherit", "revert"}
PropsInit == /\ fsprops \in DataSets /\ refreshList
             /\ current = 0 /\ buttons = Buttons /\ renamed = FALSE /\ crashed = FALSE /\ edits = 0

-----------------------------------------------------------------------------
(* on_propList_itemChanged, with the text of the item already changed: rs are *)
(* the rows, r the one that changed.                                         *)

Invalid(rs, r, role) == [rs EXCEPT ![r].mark = "Invalid", ![r].role = role]
Mark(p) == IF "INHERIT" \in p.Flags THEN "Inherit" ELSE IF "CREATE" \in p.Flags THEN "Added" ELSE "Changed"
Result(ps, rs) == [props |-> ps, rows |-> rs]
itemChanged(ps, rs, r, column) ==
    LET i == getFSBaseProperty(ps, rs[r].role)
        text == rs[r].name
        changed == [ps EXCEPT ![i].Flags = @ \union {"CHANGED"}] IN
    IF i # 0
    THEN IF column = 0 /\ "CREATE" \notin ps[i].Flags THEN Result(ps, [rs EXCEPT ![r].name = ps[i].Name])
         ELSE IF column = 0 /\ (text \notin UserNames \/ getFSBaseProperty(ps, text) # 0) THEN Result(ps, Invalid(rs, r, ""))
         \* the item keeps the old name as its data
         ELSE Result(IF column = 0 THEN [changed EXCEPT ![i].Name = text] ELSE changed, [rs EXCEPT ![r].mark = Mark(changed[i])])
    ELSE IF column # 0 THEN Result(ps, rs)
    ELSE IF text \notin UserNames THEN Result(ps, Invalid(rs, r, rs[r].role))
    ELSE IF getFSBaseProperty(ps, text) # 0 THEN Result(ps, Invalid(rs, r, ""))
    ELSE Result(Append(ps, [Name |-> text, ValidOptions |-> {}, Flags |-> {"ISSTRING", "ISUSER", "CREATE", "CHANGED"}]),
                [rs EXCEPT ![r].mark = "Added", ![r].role = text])
Becomes(res) == props' = res.props /\ rows' = res.rows

-----------------------------------------------------------------------------
(* What the user does. *)

Edit == edits < MaxEdits /\ edits' = edits + 1 /\ ~crashed /\ UNCHANGED fsprops
PropOf(r) == getFSBaseProperty(props, rows[r].name)
HasFlag(r, f) == PropOf(r) # 0 /\ f \in props[PropOf(r)].Flags
\* What may be done with a property.
Offered(p) ==
    {b \in Buttons : CASE b = "remove" -> {"ISUSER", "CREATE"} \subseteq p.Flags
                       [] b = "inherit" -> p.Flags \intersect {"READONLY", "INHERIT"} = {}
                       [] b = "revert" -> "CHANGED" \in p.Flags}
\* on_propList_currentItemChanged: the buttons after row r became current.  They stay as
\* they are (old) if its text is the name of no property.
ButtonsFor(ps, rs, r, old) ==
    IF r = 0 THEN {}
    ELSE LET i == getFSBaseProperty(ps, rs[r].name) IN IF i = 0 THEN old ELSE Offered(ps[i])
\* A click on a row makes it current before anything else is done with it.
Click(r) == current' = r /\ buttons' = IF r = current THEN buttons ELSE ButtonsFor(props, rows, r, buttons)

on_propList_currentItemChanged == \E r \in DOMAIN rows \ {current} :
    ~crashed /\ Click(r) /\ UNCHANGED <<fsprops, props, rows, renamed, crashed, edits>>
editValue == \E r \in DOMAIN rows, v \in TypedValues :
    /\ Edit /\ rows[r].editable /\ v # rows[r].value
    /\ Becomes(itemChanged(props, [rows EXCEPT ![r].value = v], r, 1))
    /\ Click(r) /\ UNCHANGED <<renamed, crashed>>
\* A combo knows the name of its property and looks for an item with that text; inherited
\* ones are empty.  Its row need not become current.
on_propList_comboChanged == \E r \in DOMAIN rows :
    LET i == getFSBaseProperty(props, rows[r].role) IN
    /\ Edit /\ i # 0 /\ "ISOPTION" \in props[i].Flags /\ "INHERIT" \notin props[i].Flags
    /\ \E v \in props[i].ValidOptions \ {rows[r].value} :
          LET rs == [rows EXCEPT ![r].value = v] IN
          Becomes(itemChanged(props, rs, FirstOf({q \in DOMAIN rs : rs[q].name = props[i].Name}), 1))
    /\ UNCHANGED <<current, buttons, renamed, crashed>>
editName == \E r \in DOMAIN rows, n \in TypedNames :
    /\ Edit /\ rows[r].editable /\ n # rows[r].name
    /\ rows[r].role = "" \/ rows[r].name \in UserNames
    /\ Becomes(itemChanged(props, [rows EXCEPT ![r].name = n], r, 0))
    /\ renamed' = (renamed \/ HasFlag(r, "CREATE") \/ rows'[r].mark = "Invalid")
    /\ Click(r) /\ UNCHANGED crashed
\* The new row becomes current with signals blocked: the buttons are those of the row before.
itemNewProperty ==
    /\ Edit
    /\ rows' = Append(rows, [name |-> "", value |-> "", role |-> "", mark |-> "Added", editable |-> TRUE])
    /\ current' = Len(rows) + 1 /\ UNCHANGED <<props, buttons, renamed, crashed>>

\* Row r is acted upon by a button, on the property its data names, or from the menu, on
\* the property its text names.
Pressed(b, r, menu) ==
    IF menu THEN r \in DOMAIN rows /\ PropOf(r) # 0 /\ b \in Offered(props[PropOf(r)])
    ELSE r = current /\ current # 0 /\ b \in buttons
Target(r, menu) == IF menu THEN PropOf(r) ELSE getFSBaseProperty(props, rows[r].role)
Crash == crashed' = TRUE /\ UNCHANGED <<props, rows, current, buttons>>
itemRemoveProperty == \E r \in DOMAIN rows, menu \in BOOLEAN :
    LET i == getFSBaseProperty(props, rows[r].role) IN
    /\ Edit /\ Pressed("remove", r, menu)
    /\ rows' = RemoveAt(rows, r)
    /\ props' = IF i = 0 THEN props ELSE RemoveAt(props, i)
    /\ current' \in 0 .. Len(rows) - 1
    /\ buttons' = ButtonsFor(props', rows', current', ButtonsFor(props, rows', current', buttons))
    /\ UNCHANGED <<renamed, crashed>>
itemInherit == \E r \in DOMAIN rows, menu \in BOOLEAN :
    LET i == Target(r, menu) IN
    /\ Edit /\ Pressed("inherit", r, menu)
    /\ \/ i = 0 /\ Crash
       \/ /\ i # 0
          /\ Becomes(itemChanged([props EXCEPT ![i].Flags = @ \union {"CHANGED", "INHERIT"}],
                                 [rows EXCEPT ![r].value = "", ![r].editable = FALSE], r, 1))
          /\ current' = r /\ buttons' = ButtonsFor(props', rows', r, buttons) /\ UNCHANGED crashed
    /\ UNCHANGED renamed
itemRevertChanges == \E r \in DOMAIN rows, menu \in BOOLEAN :
    LET i == Target(r, menu) IN
    /\ Edit /\ Pressed("revert", r, menu)
    /\ \/ i = 0 /\ Crash
       \/ /\ i # 0
          /\ props' = [props EXCEPT ![i].Flags = @ \ {"CHANGED", "INHERIT"}]
          /\ rows' = [rows EXCEPT ![r].value = ShownValue(props[i]), ![r].mark = "", ![r].editable = "ISOPTION" \notin props[i].Flags]
          /\ current' = r /\ buttons' = ButtonsFor(props', rows', r, buttons) /\ UNCHANGED crashed
    /\ UNCHANGED renamed

PropsNext == on_propList_currentItemChanged \/ editValue \/ on_propList_comboChanged \/ editName \/ itemNewProperty \/ itemRemoveProperty
             \/ itemInherit \/ itemRevertChanges
PropsSpec == PropsInit /\ [][PropsNext]_pvars

-----------------------------------------------------------------------------
(* Accepting the dialog. *)

Pending == SelectSeq(props, LAMBDA p : "READONLY" \notin p.Flags /\ p.Flags \intersect {"CHANGED", "CREATE", "INHERIT"} # {})
getAllChangedProps == [i \in DOMAIN Pending |-> Pending[i].Name]
getAllChangedFlags == [i \in DOMAIN Pending |-> Pending[i].Flags]
\* Mutant of getAllChangedValues: what is inherited has no value.
getAllSetValues ==
    FlattenSeq([i \in DOMAIN Pending |->
        LET same == SelectSeq(rows, LAMBDA r : r.name = Pending[i].Name /\ "INHERIT" \notin Pending[i].Flags) IN
        [j \in DOMAIN same |-> same[j].value]])
\* The values of all items that have the name of a pending property.
getAllChangedValues ==
    FlattenSeq([i \in DOMAIN Pending |->
        LET same == SelectSeq(rows, LAMBDA r : r.name = Pending[i].Name) IN [j \in DOMAIN same |-> same[j].value]])
\* fsEditProps walks the three lists in step until one of them ends.
Sent ==
    {[name |-> getAllChangedProps[i], inherit |-> "INHERIT" \in getAllChangedFlags[i],
      value |-> IF "INHERIT" \in getAllChangedFlags[i] THEN "" ELSE getAllChangedValues[i]] :
     i \in DOMAIN getAllChangedProps \intersect DOMAIN getAllChangedValues}

-----------------------------------------------------------------------------
(* Properties. *)

\* The rows that are marked, and those that were added, are what the user asks for.
Asked == {[name |-> rows[r].name, inherit |-> rows[r].mark = "Inherit", value |-> rows[r].value] :
          r \in {q \in DOMAIN rows : (rows[q].mark # "" /\ rows[q].name # "") \/ HasFlag(q, "CREATE")}}
\* getAllChangedProps, getAllChangedFlags and getAllChangedValues give three lists that fsEditProps pairs by
\* position: each name meets its own value, whatever was edited, inherited, reverted, added and removed before.
\* (Not so once a name was refused, or the name of an added property was edited again.)
AsksRight == ~renamed => Sent = Asked
\* The buttons act on a property that exists, under the same conditions; except on a row that
\* was added and has no accepted name yet, while they are enabled for the row before it.
NoNull == crashed => renamed \/ rows[current].role = ""
\* No row is lost: every property of the list has exactly one row.
OneRowEach == ~renamed =>
    \A i \in DOMAIN props : Cardinality({r \in DOMAIN rows : rows[r].name = props[i].Name}) = 1
DialogSafe == AsksRight /\ NoNull /\ OneRowEach
=============================================================================
