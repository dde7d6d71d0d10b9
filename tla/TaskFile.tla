------------------------------- MODULE TaskFile -------------------------------
(***************************************************************************)
(* The name of one task's file on its way: asked for in the POST, cleaned  *)
(* (task_manager_agent.py), given to aria2 or chosen by the origin server, *)
(* told by tellStatus (download_worker_agent.py), kept in filename and     *)
(* storage_path, put into download_url, taken apart by a client and looked *)
(* up again (tasks.py).  A name is a sequence of the characters below.     *)
(***************************************************************************)
EXTENDS Integers, SequencesExt

CONSTANTS
  MaxName,     \* the length _safe_filename cuts at
  NameMax,     \* the longest name the file system takes
  Requested,   \* bound: the names a POST may ask for
  Offered      \* bound: the names the server may choose

\* "%": an escape, which decodes to the plain "x"
Char == {"x", ".", "/", "\\", "ctl", "_", "#", "?", "%", "unnamed", "download.bin"}

\* aria2 takes directories and control characters out of what a server says.
ASSUME NamesAssumption ==
  /\ MaxName \in Nat \ {0} /\ NameMax \in Nat
  /\ Requested \subseteq Seq(Char)
  /\ Offered \subseteq Seq(Char \ {"/", "ctl"}) \ {<<>>}

VARIABLE file   \* status, filename and storage_path of the row; what became of its download
                \* and the path it has; the download_url of the last GET, without its base
                \* and token, and what following it brought

NoName == <<>>

NoFile == [status |-> "none", name |-> NoName, path |-> NoName, aria |-> "none",
           saved |-> NoName, url |-> NoName, reply |-> "none"]

FileInit == file = NoFile

-----------------------------------------------------------------------------
(* Strings. *)

RStrip(s, c) == SubSeq(s, 1, SelectLastInSeq(s, LAMBDA e : e # c))

LStrip(s, c) ==
  SubSeq(s, Min({i \in 1..Len(s) + 1 : i \in DOMAIN s => s[i] # c}), Len(s))

\* rsplit("/", 1)[-1], os.path.basename
Basename(s) == SubSeq(s, 1 + SelectLastInSeq(s, LAMBDA e : e = "/"), Len(s))

Or(s, default) == IF s = <<>> THEN default ELSE s

Cut(s) == SubSeq(s, 1, IF Len(s) < MaxName THEN Len(s) ELSE MaxName)

\* Mutant: leading dots go before the directories do.
SafeFilenameDotsFirst(name) ==
  LET base == Basename(RStrip(LStrip(ReplaceAll(name, "\\", "/"), "."), "/"))
  IN  Cut(ReplaceAll(Or(base, <<"unnamed">>), "ctl", "_"))

SafeFilename(name) ==
  LET base == Basename(RStrip(ReplaceAll(name, "\\", "/"), "/"))
  IN  Cut(ReplaceAll(Or(LStrip(base, "."), <<"unnamed">>), "ctl", "_"))

-----------------------------------------------------------------------------
(* The row and the download. *)

CreateFile(requested) ==
  /\ file.status = "none"
  /\ file' = [file EXCEPT !.status = "queued",
                          !.name = IF requested = NoName THEN NoName ELSE SafeFilename(requested)]

\* Without `out' aria2 has no path until the server answers.
StartFile ==
  /\ file.status = "queued"
  /\ file' = [file EXCEPT !.status = "downloading", !.aria = "active", !.saved = file.name]

\* The server answers, and aria2 opens the file.
ServerAnswers(offered) ==
  /\ file.aria = "active"
  /\ LET saved == Or(file.saved, offered)
     IN  file' = [file EXCEPT !.saved = saved,
                              !.aria = IF Len(saved) <= NameMax THEN "opened" ELSE "error"]

DownloadEnds ==
  /\ file.aria = "opened"
  /\ \E end \in {"complete", "error"} : file' = [file EXCEPT !.aria = end]

\* Mutant: the name that tellStatus has just told is not used.
FinalNameAsLoaded(known, told) == Or(known, <<"download.bin">>)

FinalName(known, told) == Or(Or(known, told), <<"download.bin">>)

\* _parse_status: the last part of the path of the first file
Told == Basename(file.saved)

\* A sync that finds the row: filename is set once, storage_path when it ends.
PollFile ==
  /\ file.status = "downloading"
  /\ file' = [file EXCEPT
       !.name = Or(@, Told),
       !.path = IF file.aria = "complete" THEN FinalName(file.name, Told) ELSE @,
       !.status = CASE file.aria = "complete" -> "completed"
                    [] file.aria = "error" -> "failed"
                    [] OTHER -> @]

\* DELETE, or the storage loop
RemoveFile ==
  /\ file.status \in {"queued", "downloading", "completed"}
  /\ file' = [file EXCEPT !.status = IF @ = "completed" THEN "expired" ELSE "failed",
                          !.path = NoName]

-----------------------------------------------------------------------------
(* GET, and what the client does with the answer. *)

\* _task_to_response: the rest of storage_path as it is, without quoting it
DownloadUrl(path) == path

GetFile ==
  /\ file.status # "none"
  /\ file' = [file EXCEPT !.reply = "none",
                          !.url = IF file.status = "completed" /\ file.path # NoName
                                  THEN DownloadUrl(file.path) ELSE NoName]

Special == {"#", "?"}   \* end the path of a URL, and swallow the token

\* The route gets the path decoded; only a completed row has a file to look up.
LinkReply(url) ==
  IF Special \cap Range(url) # {} THEN "TOKEN_MISSING"
  ELSE IF file.status # "completed" THEN "DOWNLOAD_NOT_AVAILABLE"
  ELSE IF ReplaceAll(url, "%", "x") = file.saved THEN "OK" ELSE "FILE_NOT_FOUND"

FollowLink ==
  /\ file.url # NoName
  /\ file' = [file EXCEPT !.url = NoName, !.reply = LinkReply(file.url)]

ForgetFile == file.status \in {"failed", "expired"} /\ file' = NoFile

FileNext ==
  \/ \E requested \in Requested : CreateFile(requested)
  \/ StartFile
  \/ \E offered \in Offered : ServerAnswers(offered)
  \/ DownloadEnds
  \/ PollFile
  \/ RemoveFile
  \/ GetFile
  \/ FollowLink
  \/ ForgetFile

FileSpec == FileInit /\ [][FileNext]_file

-----------------------------------------------------------------------------

\* schemas.py: "only basename, no directory": whatever is asked for, the download is one
\* visible file directly in the directory of its task.
FilesInTaskDir ==
  /\ \A name \in {file.name, file.saved, file.path} : {"/", "ctl"} \cap Range(name) = {}
  /\ file.status = "queued" /\ file.name # NoName => file.name[1] # "."

\* schemas.py: download_url is a link to the file.  Unless the name has a character that
\* means something in a URL, the one shown for a completed task leads to the file that
\* aria2 wrote, whoever chose its name and whenever the node learned it.
UrlLeadsToFile ==
  file.reply \in {"TOKEN_MISSING", "FILE_NOT_FOUND"} =>
    Range(file.saved) \cap (Special \cup {"%"}) # {}

\* ... with any name.
EveryUrlLeadsToFile == file.reply \notin {"TOKEN_MISSING", "FILE_NOT_FOUND"}
=============================================================================
