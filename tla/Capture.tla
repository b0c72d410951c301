------------------------------ MODULE Capture ------------------------------
(***************************************************************************)
(* The capture of stdout and stderr by cldm_io.c.  The descriptor of a     *)
(* captured stream is led to a file under /tmp, and a replacement stream   *)
(* to where the descriptor led before; cldm's own output goes to the       *)
(* replacement.  In the end the file is read back, shown, and removed.     *)
(*                                                                         *)
(* The name of the file is the same for every process: another cldm may    *)
(* open, write or remove it at any time.                                   *)
(***************************************************************************)
EXTENDS MainThread, Sequences

CONSTANTS
    MaxPieces,   \* bound: pieces written to one stream
    MaxOthers    \* bound: steps of other processes

ASSUME CaptureAssumption ==
    /\ MaxPieces \in Nat
    /\ MaxOthers \in Nat

VARIABLES
    repl,      \* cldm_stdout and cldm_stderr: "null", "open" or "closed"
    fd,        \* where descriptors 1 and 2 lead: "tty" or a file
    path,      \* the file with the name under /tmp, "none", "mine" or "theirs"
    content,   \* of the files of each stream
    written,   \* history: what the tests wrote
    shown,     \* what has been shown of the captured output
    broken,    \* history: the streams that could not be captured
    kept,      \* history: the streams whose file could not be removed
    misused,   \* history: was a closed stream written to or closed again
    others     \* history: the steps of other processes

captureVars == <<repl, fd, path, content, written, shown, broken, kept, misused, others>>

Files == {"mine", "theirs"}

\* What tests write, as fgets will read it: a line, or text without a line
\* feed, at the end of the file or in a line that is longer than the buffer.
Pieces == {"line", "part"}

CaptureInit ==
    /\ repl = [s \in Streams |-> "null"]
    /\ fd = [s \in Streams |-> "tty"]
    /\ path = [s \in Streams |-> "none"]
    /\ content = [s \in Streams |-> [f \in Files |-> << >>]]
    /\ written = [s \in Streams |-> << >>]
    /\ shown = [s \in Streams |-> << >>]
    /\ broken = {}
    /\ kept = {}
    /\ misused = FALSE
    /\ others = 0

\* fopen(path, "w"): the file that is there is emptied, or a new one made.
Named(s, new) == IF path[s] = "none" THEN new ELSE path[s]
OpenForWriting(s, new) ==
    /\ path' = [path EXCEPT ![s] = Named(s, new)]
    /\ content' = [content EXCEPT ![s][Named(s, new)] = << >>]

\* A message on the stream: on the replacement, if there is one.
Message(s) == misused' = (misused \/ repl[s] = "closed")

-----------------------------------------------------------------------------
\* Slip: the replacement is closed although the capture has succeeded.
Replacement_closed(status) == "closed"

\* What is left of the replacement: it is closed, and not forgotten, after
\* an error.
Replacement(status) == IF status = "error" THEN "closed" ELSE "open"

\* cldm_io_capture_standard and the two versions of cldm_io_redirect, with
\* the message that the caller prints about an error before it goes on.
CaptureStream(s) ==
    /\ \/ /\ Fails                                    \* fopen
          /\ UNCHANGED <<repl, fd, path, content>>
       \/ /\ Fails                                    \* open, or the last dup2
          /\ OpenForWriting(s, "mine")
          /\ repl' = [repl EXCEPT ![s] = Replacement("error")]
          /\ UNCHANGED fd
       \/ /\ Fails                                    \* dup
          /\ OpenForWriting(s, "mine")
          /\ repl' = [repl EXCEPT ![s] = Replacement("error")]
          /\ fd' = [fd EXCEPT ![s] = Named(s, "mine")]
       \/ /\ Fails                                    \* the first dup2: no error
          /\ OpenForWriting(s, "mine")
          /\ repl' = [repl EXCEPT ![s] = Replacement("success")]
          /\ UNCHANGED fd
       \/ /\ Succeeds
          /\ OpenForWriting(s, "mine")
          /\ repl' = [repl EXCEPT ![s] = Replacement("success")]
          /\ fd' = [fd EXCEPT ![s] = Named(s, "mine")]
    /\ broken' = IF failures' = failures THEN broken ELSE broken \cup {s}
    /\ misused' = (misused \/ (broken' # broken /\ repl'["err"] = "closed"))
    /\ UNCHANGED <<written, shown, kept, others>>

\* A test writes to a standard stream.
TestWrites(s, piece) ==
    /\ Len(written[s]) < MaxPieces
    /\ written' = [written EXCEPT ![s] = Append(@, piece)]
    /\ content' = IF fd[s] = "tty" THEN content
                  ELSE [content EXCEPT ![s][fd[s]] = Append(@, piece)]
    /\ UNCHANGED <<repl, fd, path, shown, broken, kept, misused, others>>

\* The loop of fgets drops the last character of what it reads, which is the
\* line feed if there is one.
Dumped(c) == [i \in DOMAIN c |-> IF c[i] = "part" THEN "cut" ELSE c[i]]

\* Slip: what is captured is shown when the tests have written none.
Shows_empty(s) == content[s][path[s]] = << >>

\* Is there anything to show?
Shows(s) == content[s][path[s]] # << >>

\* cldm_io_dump_to_stream, into the redirect file or the replacement.
DumpStream(s, redirected) ==
    /\ \/ /\ Fails \/ (Succeeds /\ path[s] = "none")  \* fopen or fstat
          /\ Message("err")
          /\ UNCHANGED shown
       \/ /\ Succeeds
          /\ path[s] # "none"
          /\ IF Shows(s)
               THEN /\ shown' = [shown EXCEPT ![s] = Dumped(content[s][path[s]])]
                    /\ IF redirected THEN UNCHANGED misused ELSE Message(s)
               ELSE UNCHANGED <<shown, misused>>
    /\ UNCHANGED <<repl, fd, path, content, written, broken, kept, others>>

\* Slip: an empty file is left behind.
Removes_filled(s) == path[s] # "none" /\ content[s][path[s]] # << >>

\* Is the file to be removed?
Removes(s) == path[s] # "none"

\* cldm_io_capture_restore for one stream: the file is removed and the
\* replacement closed (a dup2 that fails there changes nothing else).  The
\* descriptor keeps leading to the file.
RestoreStream(s) ==
    /\ \/ /\ Removes(s) /\ Succeeds
          /\ path' = [path EXCEPT ![s] = "none"]
          /\ UNCHANGED kept
       \/ /\ Removes(s) /\ Fails
          /\ kept' = kept \cup {s}
          /\ UNCHANGED path
       \/ ~Removes(s) /\ Succeeds /\ UNCHANGED <<path, kept>>
    /\ misused' = (misused \/ repl[s] = "closed" \/ (kept' # kept /\ repl["err"] = "closed"))
    /\ repl' = [repl EXCEPT ![s] = "null"]
    /\ UNCHANGED <<fd, content, written, shown, broken, others>>

-----------------------------------------------------------------------------
\* Another cldm process starts capturing, writes a line, or has finished.
OtherProcess(s) ==
    /\ others < MaxOthers
    /\ others' = others + 1
    /\ \/ OpenForWriting(s, "theirs")
       \/ /\ path[s] # "none"
          /\ content' = [content EXCEPT ![s][path[s]] = Append(@, "foreign")]
          /\ UNCHANGED path
       \/ /\ path[s] # "none"
          /\ path' = [path EXCEPT ![s] = "none"]
          /\ UNCHANGED content
    /\ UNCHANGED <<repl, fd, written, shown, broken, kept, misused>>
=============================================================================
