--------------------------- MODULE MCDirectoryScan ---------------------------
(***************************************************************************)
(* Small trees: the root with two entries and one below each of them, a    *)
(* hidden name and a name that is unsupported when it is a file.           *)
(***************************************************************************)
EXTENDS DirectoryScan

MCPaths       == {<<1>>, <<2>>, <<1, 1>>, <<2, 1>>}
MCHidden      == {<<2, 1>>}
MCUnsupported == {<<2>>}

\* All but "broken", whose end is that of an error of the device.
MCKinds       == AllKinds \ {"broken"}
==============================================================================
