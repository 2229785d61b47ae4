---------------------------- MODULE MCBackOffice ----------------------------
(***************************************************************************)
(* The stock room, the invoice numbers, the cash drawer, the tables, the   *)
(* attendance, the settings and the change feed of a branch, for TLC.      *)
(* They share no state, so one behaviour moves one of them; the others     *)
(* stay as they began.                                                     *)
(***************************************************************************)
EXTENDS StockRoom, InvoiceSerials, ShiftDrawer, DiningFloor, Attendance, Settings,
        ChangeFeed, TLC

CONSTANTS
    Foci,                       \* the components a run looks at
    r1, r2, c1, n1, bean, milk        \* two receipts, a return, a count, two items

\* Two receipts of one line each, a return and a count.
MCItemsOf == (r1 :> <<bean>>) @@ (r2 :> <<milk>>) @@ (c1 :> <<milk>>) @@ (n1 :> <<bean>>)
MCSold    == {<<bean, milk>>, <<milk, bean>>}

\* A branch, alone and within its organization.
MCContexts == {{"ORGANIZATION"}, {"BRANCH", "ORGANIZATION"}}

VARIABLE focus

mcVars == <<focus, stockVars, serialVars, drawerVars, floorVars, attendanceVars,
            settingsVars, vars>>

MCInit ==
    /\ focus \in Foci
    /\ StockInit /\ SerialsInit /\ DrawerInit /\ FloorInit
    /\ AttendanceInit /\ SettingsInit /\ Init

MCNext ==
    \/ /\ focus = "stock" /\ StockNext
       /\ UNCHANGED <<focus, serialVars, drawerVars, floorVars, attendanceVars, settingsVars, vars>>
    \/ /\ focus = "serials" /\ SerialsNext
       /\ UNCHANGED <<focus, stockVars, drawerVars, floorVars, attendanceVars, settingsVars, vars>>
    \/ /\ focus = "drawer" /\ DrawerNext
       /\ UNCHANGED <<focus, stockVars, serialVars, floorVars, attendanceVars, settingsVars, vars>>
    \/ /\ focus = "floor" /\ FloorNext
       /\ UNCHANGED <<focus, stockVars, serialVars, drawerVars, attendanceVars, settingsVars, vars>>
    \/ /\ focus = "attendance" /\ AttendanceNext
       /\ UNCHANGED <<focus, stockVars, serialVars, drawerVars, floorVars, settingsVars, vars>>
    \/ /\ focus = "settings" /\ SettingsNext
       /\ UNCHANGED <<focus, stockVars, serialVars, drawerVars, floorVars, attendanceVars, vars>>
    \/ /\ focus = "feed" /\ Next
       /\ UNCHANGED <<focus, stockVars, serialVars, drawerVars, floorVars, attendanceVars, settingsVars>>

MCSpec == MCInit /\ [][MCNext]_mcVars

\* The components share the names of their workers, so that one permutation
\* serves whichever of them moves; the others hold no name in their state.
Symmetry == Permutations(Workers) \cup Permutations(ShiftIds) \cup Permutations(Entities)

-----------------------------------------------------------------------------

\* The types of the components: rows, work in progress and reports keep the
\* shape the services give them.
TypesOK ==
    /\ StockTypeOK /\ SerialsTypeOK /\ DrawerTypeOK /\ FloorTypeOK
    /\ AttendanceTypeOK /\ SettingsTypeOK /\ TypeOK
=============================================================================
