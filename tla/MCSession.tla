------------------------------ MODULE MCSession ------------------------------
(***************************************************************************)
(* Values of Session's constants for TLC: those of Downloader.             *)
(***************************************************************************)
EXTENDS MCDownloader, Session

FatalMessages == {Complete, TimedOut, NoMemory}
=============================================================================
