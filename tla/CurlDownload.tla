----------------------------- MODULE CurlDownload -----------------------------
(***************************************************************************)
(* curl::Downloader: a transfer (CurlTransfer) that writes what it gets to *)
(* a temporary file, and moves this file to its place when it is done.     *)
(*                                                                         *)
(* write() runs in libcurl, on any thread that drives it; close() runs at  *)
(* the start of done(), on the worker, if there is still a transfer then.  *)
(* The files outlive the transfer.                                         *)
(***************************************************************************)
EXTENDS CurlTransfer

CONSTANT Downloader      \* the transfers that are downloaders

ASSUME CurlDownloadAssumption == Downloader \subseteq Transfer

VARIABLES
    out,       \* out_: "new", "open", "closed"
    tmp,       \* the temporary file: "none", "whole" (so far), "torn"
    target,    \* the file at file_: "old", "whole", "torn"
    short,     \* write() has returned less than it was given
    blunder    \* history: what went wrong in close(), if anything

files == <<out, tmp, target, short, blunder>>
dvars == <<vars, files>>

\* How the calls of the file system in close() end.  ofstream::close reports a
\* failed flush in the state of the stream, which nobody looks at.
CloseEnd == {"well", "flush fails", "rename fails", "remove fails"}

DInit ==
    /\ Init
    /\ out = [t \in Downloader |-> "new"]
    /\ tmp = [t \in Downloader |-> "none"]
    /\ target = [t \in Downloader |-> "old"]
    /\ short = [t \in Downloader |-> FALSE]
    /\ blunder = [t \in Downloader |-> None]

\* Seeded fault: a write that fails is not reported to libcurl.
BugWrite(t, how) ==
    /\ t \in Downloader /\ life[t] = "alive" /\ ~short[t]
    /\ CallbackBegin(t, FALSE)
    /\ how = "no file" => out[t] = "new"
    /\ IF how = "no file" THEN UNCHANGED <<out, tmp>>
       ELSE /\ out' = [out EXCEPT ![t] = "open"]
            /\ tmp' = [tmp EXCEPT ![t] =
                  IF how = "disk full" THEN "torn" ELSE IF @ = "none" THEN "whole" ELSE @]
    /\ UNCHANGED <<target, short, blunder>>

\* write(): open the temporary file, if it is not open, and append.
Write(t, how) ==
    /\ t \in Downloader /\ life[t] = "alive" /\ ~short[t]
    /\ CallbackBegin(t, FALSE)
    /\ how = "no file" => out[t] = "new"
    /\ short' = [short EXCEPT ![t] = how # "written"]
    /\ IF how = "no file" THEN UNCHANGED <<out, tmp>>
       ELSE /\ out' = [out EXCEPT ![t] = "open"]
            /\ tmp' = [tmp EXCEPT ![t] =
                  IF how = "disk full" THEN "torn" ELSE IF @ = "none" THEN "whole" ELSE @]
    /\ UNCHANGED <<target, blunder>>

\* libcurl does not succeed when write() has returned less than it was given,
\* and a body it could not get whole is an error.
DComplete(t, c) ==
    /\ t \in Downloader /\ short[t] => c # "ok"
    /\ Complete(t, c)
    /\ tmp' = IF t \in Downloader /\ c # "ok" /\ tmp[t] # "none"
              THEN [tmp EXCEPT ![t] = "torn"] ELSE tmp
    /\ UNCHANGED <<out, target, short, blunder>>

\* done() begins with close(error): the file is moved, or removed.  When the
\* rename throws, the handler is told of an error instead (successed: it is told
\* of success).
Close(t, how) ==
    /\ t \in Downloader
    /\ DoneParse(t, how # "rename fails")
    /\ UNCHANGED short
    /\ IF out[t] # "open" THEN how = "well" /\ UNCHANGED <<out, tmp, target, blunder>>
       ELSE /\ how = "rename fails" => code[t] = "ok"
            /\ how = "remove fails" => code[t] # "ok"
            /\ out' = [out EXCEPT ![t] = "closed"]
            /\ blunder' = [blunder EXCEPT ![t] = how]
            /\ tmp' = IF how \in {"rename fails", "remove fails"} THEN tmp
                      ELSE [tmp EXCEPT ![t] = "none"]
            /\ target' = IF code[t] # "ok" \/ how = "rename fails" THEN target
                         ELSE [target EXCEPT ![t] = IF how = "flush fails" THEN "torn" ELSE tmp[t]]

-----------------------------------------------------------------------------
Ends(t) ==
    \/ Progress(t) /\ UNCHANGED files
    \/ \E c \in Code : DComplete(t, c)
    \/ \E how \in CloseEnd : Close(t, how)
    \/ t \notin Downloader /\ \E valid \in BOOLEAN : DoneParse(t, valid) /\ UNCHANGED files

DNext ==
    \E t \in Transfer :
        \/ Ends(t)
        \/ Caprice(t) /\ UNCHANGED files
        \/ \E ref \in BOOLEAN : CallbackBegin(t, ref) /\ UNCHANGED files
        \/ \E how \in {"written", "disk full", "no file"} : Write(t, how)
        \/ CallbackEnd(t) /\ UNCHANGED files

\* Every wait and every transfer times out, a callback returns, and the worker
\* runs what is posted.  Whether the application calls exec() again, lets go,
\* or is woken for no reason is not assumed.
DSpec ==
    /\ DInit /\ [][DNext]_dvars
    /\ \A t \in Transfer :
        WF_dvars(Ends(t)) /\ WF_dvars(CallbackEnd(t) /\ UNCHANGED files)

-----------------------------------------------------------------------------
(* Properties.                                                             *)

\* downloader.cpp:22-97.  Whatever is delivered, fails, is canceled or is let go
\* of: the file at file_ is never replaced by a part of the body, unless the
\* last flush failed unnoticed; a handler that is told of success finds the
\* file (or libcurl had nothing to write), and one that is told of an error
\* finds the old one.  The temporary file is gone once a handler was called,
\* unless the rename or the remove failed; a transfer that is destroyed before
\* leaves it behind.
DownloadExact ==
    \A t \in Downloader :
        /\ target[t] = "torn" => blunder[t] = "flush fails"
        /\ answers[t] = 1 /\ successed[t] => target[t] # "old" \/ out[t] = "new"
        /\ answers[t] = 1 /\ ~successed[t] => target[t] = "old"
        /\ answers[t] = 1 /\ tmp[t] # "none" => blunder[t] \in {"rename fails", "remove fails"}
=============================================================================
