---------------------------- MODULE MCWorkbench ----------------------------
(* An instance of Workbench for TLC. *)
EXTENDS Workbench

CONSTANTS home, drive, plain, archive, ticket1, ticket2, anna, ben, east, west, north

MCSize == [d \in Folders |-> 2]
MCPlaces == {<<"tapis", "private">>, <<"googledrive", "private">>}

(* What is done on the files page in one go. *)
MCSessions == {
    {"compress", "extract", "downloadMessage", "pushKeys"},
    {"trash", "mkdir", "showpath"}, {"upload", "compress"}, {"link", "preview"},
    {"rename", "makePublic", "download"}, {"move", "copy"}, {"compress", "move"}}

(* A queue of two days and three nodes, one of two and a half hours, and *)
(* one that allows no time.                                               *)
MCQueue ==
    [normal |-> [time |-> <<4, 8, 0, 0, 0, 0>>, nodes |-> 3, processors |-> -1],
     small |-> [time |-> <<0, 2, 3, 0, 0, 0>>, nodes |-> 1, processors |-> 64],
     none |-> [time |-> <<0, 0, 0, 0, 0, 0>>, nodes |-> 1, processors |-> -1]]

(* At the maximum of a queue, just above it, and with a digit too many. *)
MCEntries == {<<0, 2, 3, 0, 0, 0>>, <<0, 2, 3, 0, 0, 1>>, <<1, 4, 8, 0, 0, 0, 0>>}

MCMaxEntries == (ticket1 :> 2) @@ (ticket2 :> 1)

MCEvents == (anna :> 2) @@ (ben :> 0)

(* Values in tenths.  Counts with and without a fraction, a county without   *)
(* a value, and a demographic with more whole numbers than there are colours. *)
MCOffered == (TRUE :> {"abandonment", "neglect", "crowding"})
             @@ (FALSE :> {"abandonment", "crowding", "poverty", "income"})
Row(a, b, c) == (east :> a) @@ (west :> b) @@ (north :> c)
MCMaltreated ==
    [abandonment |-> [y2018 |-> (TRUE :> Row(13, 0, 27)) @@ (FALSE :> Row(30, 0, 70)),
                      y2019 |-> (TRUE :> Row(0, 0, 0)) @@ (FALSE :> Row(20, 20, 20))],
     neglect |-> [y2018 |-> (TRUE :> Row(13, 5, 0)) @@ (FALSE :> Row(15, 0, 0)),
                  y2019 |-> (TRUE :> Row(0, 44, 91)) @@ (FALSE :> Row(10, 0, 40))]]
MCObserved ==
    [crowding |-> (TRUE :> Row(0, 34, 50)) @@ (FALSE :> Row(12, 1030, 571)),
     poverty |-> (TRUE :> ((east :> 5) @@ (west :> 9))) @@ (FALSE :> Row(0, 0, 0)),
     income |-> (TRUE :> (west :> 37)) @@ (FALSE :> Row(20, 60, 90))]

MCFileOf == [demographics |-> "cooks", resources |-> "resources"]

(* An execution system whose files are on the host of the storage system. *)
MCStorageHost == [home |-> "data", compute |-> "data"]
MCLoginHost == [compute |-> "login"]
=============================================================================
