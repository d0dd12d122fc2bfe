----------------------------- MODULE Migrations -----------------------------
(***************************************************************************)
(* Schema migrations, backup and restore. Every server and every command   *)
(* of every release migrates the database when it starts: it reads the     *)
(* version and then runs, one transaction each, the scripts that its       *)
(* release ships beyond it. Several may start at once on one file. The     *)
(* operator backs the file up and restores a copy, with a tool of his own  *)
(* release; any process may die between two steps.                         *)
(*                                                                         *)
(* A file is the scripts that ran on it, in order (a script runs once or   *)
(* the schema is not the one the code expects), and the versions that its  *)
(* schema_migrations lists. A script commits with the row that lists it.   *)
(***************************************************************************)
EXTENDS Integers, Sequences, FiniteSets, FiniteSetsExt

CONSTANTS Openers,        \* processes that open the database
          LatestOf,       \* by opener: latest_version() of its release
          ToolReleases    \* and of the tools that back up and restore

ASSUME MigrationAssumption ==
    /\ LatestOf \in [Openers -> Nat \ {0}] /\ ToolReleases \subseteq Nat \ {0}

VARIABLES disk,      \* "live", "backup", "restored": [ran, listed, state]
          opener,     \* by process: [stage, version], version: as it read and left it
          copier,     \* backup_to_path or restore_from_backup: [does, latest]
          restorer    \* the migration of restore_from_backup: [stage, version]

migrationVars == <<disk, opener, copier, restorer>>

FileNames == {"live", "backup", "restored"}
EmptyFile == [ran |-> <<>>, listed |-> {}, state |-> "whole"]
NoFile == [EmptyFile EXCEPT !.state = "absent"]
Torn == [EmptyFile EXCEPT !.state = "torn"]
Closed == [stage |-> "closed", version |-> 0]
NoTool == [does |-> "nothing", latest |-> 0]

(* current_version: MAX over schema_migrations, 0 when there is none.      *)
VersionOf(file) == Max({0} \cup file.listed)

MigrationInit ==
    /\ disk = [f \in FileNames |-> IF f = "live" THEN EmptyFile ELSE NoFile]
    /\ opener = [p \in Openers |-> Closed]
    /\ copier = NoTool /\ restorer = Closed

(* migrate_to reads the version and refuses a file of a later release.     *)
Begun(file, latest) ==
    IF VersionOf(file) > latest THEN Closed
    ELSE [stage |-> IF VersionOf(file) = latest THEN "migrated" ELSE "migrating",
          version |-> VersionOf(file)]

\* Mutant: the row is written whether or not there is one.
RunsAgain(file, next) == TRUE

(* version is the primary key of schema_migrations: a script whose row is  *)
(* there does not commit.                                                  *)
Commits(file, next) == next \notin file.listed

WithScript(file, next) ==
    [file EXCEPT !.ran = Append(@, next), !.listed = @ \cup {next}]

(* After one transaction; migrate_to goes on with the version it left.     *)
Stepped(handle, file, latest) ==
    IF ~Commits(file, handle.version + 1) THEN Closed
    ELSE [stage |-> IF handle.version + 1 = latest THEN "migrated" ELSE "migrating",
          version |-> handle.version + 1]

Open(p) ==
    /\ opener[p].stage = "closed"
    /\ opener' = [opener EXCEPT ![p] = Begun(disk["live"], LatestOf[p])]
    /\ UNCHANGED <<disk, copier, restorer>>

RunScript(p) ==
    LET next == opener[p].version + 1
    IN  /\ opener[p].stage = "migrating"
        /\ disk' = IF Commits(disk["live"], next)
                    THEN [disk EXCEPT !["live"] = WithScript(@, next)] ELSE disk
        /\ opener' = [opener EXCEPT ![p] = Stepped(@, disk["live"], LatestOf[p])]
        /\ UNCHANGED <<copier, restorer>>

(* readiness_check, before integrity_check, which passes on a whole file;  *)
(* another process may have migrated further in the meantime.              *)
AssertReady(p) ==
    /\ opener[p].stage = "migrated"
    /\ opener' = [opener EXCEPT ![p] = IF VersionOf(disk["live"]) = LatestOf[p]
                                       THEN [@ EXCEPT !.stage = "serving"] ELSE Closed]
    /\ UNCHANGED <<disk, copier, restorer>>

Close(p) ==
    /\ opener[p].stage # "closed" /\ opener' = [opener EXCEPT ![p] = Closed]
    /\ UNCHANGED <<disk, copier, restorer>>

(* backup_to_path opens the new file, and the pages follow. They are those *)
(* of one moment: the copy starts anew when the database is written.       *)
BeginBackup(latest) ==
    /\ copier = NoTool /\ disk["backup"].state = "absent" /\ VersionOf(disk["live"]) = latest
    /\ disk' = [disk EXCEPT !["backup"] = EmptyFile]
    /\ copier' = [does |-> "backup", latest |-> latest]
    /\ UNCHANGED <<opener, restorer>>

EndBackup ==
    /\ copier.does = "backup"
    /\ disk' = [disk EXCEPT !["backup"] = disk["live"]] /\ copier' = NoTool
    /\ UNCHANGED <<opener, restorer>>

(* restore_from_backup verifies the source, copies it, migrates the copy.  *)
BeginRestore(latest) ==
    /\ copier = NoTool
    /\ disk["restored"].state = "absent" /\ disk["backup"].state = "whole"
    /\ disk' = [disk EXCEPT !["restored"] = Torn]
    /\ copier' = [does |-> "copy", latest |-> latest]
    /\ UNCHANGED <<opener, restorer>>

EndCopy ==
    LET begun == Begun(disk["backup"], copier.latest)
    IN  /\ copier.does = "copy"
        /\ disk' = [disk EXCEPT !["restored"] = disk["backup"]]
        /\ restorer' = begun
        /\ copier' = IF begun = Closed THEN NoTool ELSE [copier EXCEPT !.does = "migrate"]
        /\ UNCHANGED opener

RestoreScript ==
    LET next == restorer.version + 1
    IN  /\ copier.does = "migrate" /\ restorer.stage = "migrating"
        /\ disk' = IF Commits(disk["restored"], next)
                    THEN [disk EXCEPT !["restored"] = WithScript(@, next)] ELSE disk
        /\ restorer' = Stepped(restorer, disk["restored"], copier.latest)
        /\ copier' = IF Commits(disk["restored"], next) THEN copier ELSE NoTool
        /\ UNCHANGED opener

(* restore=ok: assert_ready                                                *)
EndRestore ==
    /\ copier.does = "migrate" /\ restorer.stage = "migrated"
    /\ VersionOf(disk["restored"]) = copier.latest
    /\ restorer' = [restorer EXCEPT !.stage = "serving"] /\ copier' = NoTool
    /\ UNCHANGED <<disk, opener>>

(* The tool dies. What a backup has written is rolled back or damaged.     *)
ToolDies ==
    /\ copier # NoTool /\ copier' = NoTool /\ restorer' = Closed
    /\ \/ disk' = disk
       \/ copier.does = "backup" /\ disk' = [disk EXCEPT !["backup"] = Torn]
    /\ UNCHANGED opener

(* The operator removes a file no tool is writing.                         *)
Discard(f) ==
    /\ copier = NoTool /\ f # "live" /\ disk[f].state # "absent"
    /\ disk' = [disk EXCEPT ![f] = NoFile]
    /\ restorer' = IF f = "restored" THEN Closed ELSE restorer
    /\ UNCHANGED <<opener, copier>>

MigrationNext ==
    \/ \E p \in Openers : Open(p) \/ RunScript(p) \/ AssertReady(p) \/ Close(p)
    \/ \E latest \in ToolReleases : BeginBackup(latest) \/ BeginRestore(latest)
    \/ EndBackup \/ EndCopy \/ RestoreScript \/ EndRestore
    \/ ToolDies \/ \E f \in FileNames : Discard(f)

MigrationSpec == MigrationInit /\ [][MigrationNext]_migrationVars

(***************************************************************************)
(* Properties                                                              *)
(***************************************************************************)

MigrationTypeOK ==
    /\ disk \in [FileNames -> [ran : Seq(Nat), listed : SUBSET Nat,
                                state : {"absent", "torn", "whole"}]]
    /\ opener \in [Openers -> [stage : {"closed", "migrating", "migrated", "serving"},
                               version : Nat]]
    /\ copier \in [does : {"nothing", "backup", "copy", "migrate"}, latest : Nat]
    /\ restorer \in [stage : {"closed", "migrating", "migrated", "serving"}, version : Nat]

(* However many processes of however many releases migrate a file at the   *)
(* same time, and whichever of them die, every script up to the version it *)
(* states ran on it once and in order; so it did on every backup and on    *)
(* every restored copy. A server that came up found its own release's      *)
(* schema, and a restored copy is served at the version its tool left.     *)
ScriptsRunOnce ==
    /\ \A f \in FileNames :
         disk[f].ran = [i \in 1..VersionOf(disk[f]) |-> i]
    /\ \A p \in Openers :
         opener[p].stage = "serving" => VersionOf(disk["live"]) >= LatestOf[p]
    /\ restorer.stage = "serving" => VersionOf(disk["restored"]) = restorer.version
=============================================================================
