------------------------- MODULE MCStorageActivity -------------------------
(***************************************************************************)
(* The backend with its threads, the maintenance command line and a        *)
(* command that takes no lock, on one data directory.                      *)
(***************************************************************************)
EXTENDS StorageActivity

CONSTANTS backend, cli, worker, sentiment, retention, download, remove,
          command, importer, import

MCProcs       == {backend, cli, importer}
LockedProcs   == {backend, cli}
MCUnlocked    == {importer}
Nobody        == {}
MCBackground  == {worker, sentiment}
MCRequests    == {download}
MCDeletes     == {remove}
MCCleaners    == {retention, command}
MCMainThreads == {command}
MCCommands    == {import}
MCHome        == [t \in Threads |-> CASE t = command -> cli
                                      [] t = import  -> importer
                                      [] OTHER       -> backend]
=============================================================================
