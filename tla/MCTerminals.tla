---------------------------- MODULE MCTerminals ----------------------------
(***************************************************************************)
(* What runs beside the counter, for TLC: the play area and its prices,    *)
(* orders taken offline, the drawer of a terminal, the licence it starts   *)
(* on, and two jobs of the server, alerts and backups.                     *)
(* They share no state, so one behaviour moves one of them; the others     *)
(* stay as they began.                                                     *)
(***************************************************************************)
EXTENDS PlayArea, PlayPricing, OfflineTill, TillDrawer, Licence, Alerts, Backups, TLC

CONSTANT Foci                   \* the components a run looks at

\* Every mode, with and without blocks, grace and cap.
MCCards == [mode : {"TIMED", "PACKAGE", "OPEN_DAY"}, entry_fee : {3},
            included_minutes : {0, 2}, package_minutes : {3}, block_minutes : {0, 3, 4},
            block_rate : {0, 5}, grace_minutes : {0, 1}, daily_cap : {0, 9}]

VARIABLE focus

mcVars == <<focus, playVars, meterVars, tillVars, tillDrawerVars, licenceVars, alertVars, backupVars>>

\* One card is enough where the meter does not run.
MCInit ==
    /\ focus \in Foci
    /\ PlayInit /\ TillInit /\ TillDrawerInit /\ LicenceInit /\ AlertsInit /\ BackupsInit
    /\ MeterInit
    /\ focus # "meter" => card = CHOOSE c \in MCCards : TRUE
    /\ focus # "meter" => rounding = "up_to_block"

MCNext ==
    \/ /\ focus = "play" /\ PlayNext
       /\ UNCHANGED <<focus, meterVars, tillVars, tillDrawerVars, licenceVars, alertVars, backupVars>>
    \/ /\ focus = "meter" /\ MinutePasses
       /\ UNCHANGED <<focus, playVars, tillVars, tillDrawerVars, licenceVars, alertVars, backupVars>>
    \/ /\ focus = "till" /\ TillNext
       /\ UNCHANGED <<focus, playVars, meterVars, tillDrawerVars, licenceVars, alertVars, backupVars>>
    \/ /\ focus = "drawer" /\ TillDrawerNext
       /\ UNCHANGED <<focus, playVars, meterVars, tillVars, licenceVars, alertVars, backupVars>>
    \/ /\ focus = "licence" /\ LicenceNext
       /\ UNCHANGED <<focus, playVars, meterVars, tillVars, tillDrawerVars, alertVars, backupVars>>
    \/ /\ focus = "alerts" /\ AlertsNext
       /\ UNCHANGED <<focus, playVars, meterVars, tillVars, tillDrawerVars, licenceVars, backupVars>>
    \/ /\ focus = "backups" /\ BackupsNext
       /\ UNCHANGED <<focus, playVars, meterVars, tillVars, tillDrawerVars, licenceVars, alertVars>>

MCSpec == MCInit /\ [][MCNext]_mcVars

Symmetry == Permutations(Visits) \cup Permutations(DeviceNames)

-----------------------------------------------------------------------------

\* The types of the components: sessions, events, tokens, sweeps and runs
\* keep the shape the programs give them.
TypesOK ==
    /\ PlayTypeOK /\ TillTypeOK /\ TillDrawerTypeOK
    /\ LicenceTypeOK /\ AlertsTypeOK /\ BackupsTypeOK
=============================================================================
