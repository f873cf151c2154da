---------------------------- MODULE DriveRefresh ----------------------------
(***************************************************************************)
(* The drive refresh cache of crates/gregg-host/src/slow_probe.rs: one         *)
(* worker thread reads the drives, at a request or when its wait is over, and *)
(* hands the list over through a channel of one; the sampler polls without    *)
(* blocking.  What the drives are is a version that grows.  While the drives   *)
(* are sick a native call may hang; the length of a wait is not modelled.     *)
(***************************************************************************)
EXTENDS Integers

CONSTANT MaxDriveVersions  \* bound on changes of the drives
ASSUME DriveVersionsAssumption == MaxDriveVersions \in Nat

VARIABLES
    drives,     \* the drives' version
    sick,       \* a native call may not return
    refresher,  \* the worker: "waiting", "collecting", "sending", "ended"
    dueNow,  \* a request is in its channel
    parcel,     \* what the worker sends
    handed,     \* the result channel: a parcel, or Empty
    latest,     \* DriveRefreshCache::latest, Empty before the first
    dropped     \* the cache is gone

driveVars == <<drives, sick, refresher, dueNow, parcel, handed, latest, dropped>>

Empty == -1
Error == -2
DriveLists == 0..MaxDriveVersions

-----------------------------------------------------------------------------
(* The drives.                                                               *)
DrivesChange ==
    /\ drives < MaxDriveVersions /\ drives' = drives + 1
    /\ UNCHANGED <<sick, refresher, dueNow, parcel, handed, latest, dropped>>

DrivesSicken ==
    /\ sick' = ~sick
    /\ UNCHANGED <<drives, refresher, dueNow, parcel, handed, latest, dropped>>

-----------------------------------------------------------------------------
(* The worker.  recv_timeout: a request or the end of the wait, and only an      *)
(* empty channel tells that the cache is gone.                                *)
RefreshDue ==
    /\ refresher = "waiting" /\ (dueNow \/ ~dropped)
    /\ refresher' = "collecting" /\ dueNow' = FALSE
    /\ UNCHANGED <<drives, sick, parcel, handed, latest, dropped>>

RefresherEnds ==
    /\ refresher = "waiting" /\ dropped /\ ~dueNow
    /\ refresher' = "ended"
    /\ UNCHANGED <<drives, sick, dueNow, parcel, handed, latest, dropped>>

Collected(result) ==
    /\ refresher = "collecting"
    /\ refresher' = "sending" /\ parcel' = result
    /\ UNCHANGED <<drives, sick, dueNow, handed, latest, dropped>>

CollectDrives == Collected(drives) \/ Collected(Error)

(* Variant: a panic ends the thread.                                          *)
PanicEnds ==
    /\ refresher = "collecting"
    /\ refresher' = "ended"
    /\ UNCHANGED <<drives, sick, dueNow, parcel, handed, latest, dropped>>
(* catch_unwind: a panic is an error like another.                             *)
CollectPanics == Collected(Error)

HandsOver ==
    /\ refresher = "sending" /\ handed = Empty /\ ~dropped
    /\ handed' = parcel /\ refresher' = "waiting"
    /\ UNCHANGED <<drives, sick, dueNow, parcel, latest, dropped>>

(* The receiver is gone: send fails, also one that was blocked.                 *)
SendFails ==
    /\ refresher = "sending" /\ dropped
    /\ refresher' = "ended"
    /\ UNCHANGED <<drives, sick, dueNow, parcel, handed, latest, dropped>>

-----------------------------------------------------------------------------
(* The sampler.                                                              *)
PollDrives ==
    /\ ~dropped
    /\ handed' = Empty
    /\ latest' = IF handed \in DriveLists THEN handed ELSE latest
    /\ UNCHANGED <<drives, sick, refresher, dueNow, parcel, dropped>>

DropCache ==
    /\ ~dropped
    /\ dropped' = TRUE
    /\ UNCHANGED <<drives, sick, refresher, dueNow, parcel, handed, latest>>

-----------------------------------------------------------------------------
(* DriveRefreshCache::new: the first request is made at once; a thread that      *)
(* cannot be started leaves a cache without a worker.                         *)
DriveInit ==
    /\ drives = 0 /\ sick \in BOOLEAN
    /\ refresher \in {"waiting", "ended"} /\ dueNow = (refresher = "waiting")
    /\ parcel = Error /\ handed = Empty /\ latest = Empty /\ dropped = FALSE

DriveNext ==
    \/ DrivesChange \/ DrivesSicken
    \/ RefreshDue \/ RefresherEnds \/ CollectDrives \/ CollectPanics \/ HandsOver \/ SendFails
    \/ PollDrives \/ DropCache

(* The thread is scheduled and its waits end; a call on drives that stay well    *)
(* returns, and not always with an error; the sampler polls every cycle.      *)
DriveFairness ==
    /\ WF_driveVars(RefreshDue \/ RefresherEnds \/ HandsOver \/ SendFails)
    /\ SF_driveVars(~sick /\ Collected(drives))
    /\ WF_driveVars(~sick /\ (CollectDrives \/ CollectPanics))
    /\ WF_driveVars(PollDrives)

DriveSpec == DriveInit /\ [][DriveNext]_driveVars /\ DriveFairness

-----------------------------------------------------------------------------
(* "last-good retention": the list served never goes back, whatever fails.      *)
NeverGoesBack ==
    [][ latest' >= latest ]_driveVars

(* "panic containment/backoff", "immediate first request": once the drives are    *)
(* well for good, a cache that has a worker comes to serve them as they are,   *)
(* however many readings failed, panicked or hung for a while before, and even *)
(* if the worker waited with an old list.                                      *)
DrivesCatchUp == <>[](~sick /\ ~dropped /\ refresher # "ended") => <>[](latest = drives)
WorkerStays == [][ refresher' = "ended" => refresher = "ended" \/ dropped ]_driveVars

(* "drop that never joins a worker": the worker of a dropped cache ends by itself   *)
(* when its call returns.                                                     *)
WorkerEnds == <>[](dropped /\ ~sick) => <>(refresher = "ended")

DriveSound == NeverGoesBack /\ DrivesCatchUp /\ WorkerStays /\ WorkerEnds
=============================================================================
