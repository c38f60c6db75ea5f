----------------------------- MODULE SerialShell -----------------------------
(***************************************************************************)
(* SerialDeviceShell: login on a serial console, commands and the reading  *)
(* of their output, logout.  A read returns what arrived in its time, any  *)
(* part of what the device has written so far, without its last character, *)
(* or raises.  The text is told by pieces: words, and the characters that  *)
(* the patterns and the lost character are about.  The device is external: *)
(* a getty that asks for a name and a password, a shell, or nothing that   *)
(* answers.                                                                *)
(***************************************************************************)
EXTENDS Naturals, Sequences

CONSTANTS
  Outputs,     \* what a command may write: sequences of "hit", "miss" and "eol"
  Banners,     \* what may stand before the prompt for a name
  EmptyReads,  \* empty reads after which login sends a newline
  OddReads,    \* unknown reads after which login gives up
  Tries,       \* login_retries
  MaxSlow,     \* bound: reads that end before the end of the output
  MaxCommands  \* bound: commands executed

ASSUME OutputAssumption == Outputs \subseteq Seq({"hit", "miss", "eol"})
ASSUME BannerAssumption == Banners \subseteq Seq({"text", "angle", "hash", "eol"})
ASSUME LimitAssumption == EmptyReads \in Nat /\ OddReads \in Nat /\ Tries \in Nat \ {0}
ASSUME CommandsAssumption == MaxSlow \in Nat /\ MaxCommands \in Nat

VARIABLES
  pc,        \* the read or the line that is next, idle, or failed
  last,      \* _last_read
  loggedIn,  \* _logged_in
  empties,   \* empty_cntr
  odds,      \* unknown_cntr
  tries,     \* i of _login_with_password
  filter,    \* testcase_filter of the command: "hit" or "" for none
  handed,    \* what exec_command returned, call by call
  device,    \* what the console waits for: name, password or command, or silent
  user,      \* the user typed at the console: "none", "user" or "other"
  free,      \* the user needs no password
  echo,      \* it echoes the commands typed
  stream,    \* what the console wrote that was not read
  written,   \* how many pieces it wrote
  slow,      \* reads that ended too early
  torn,      \* history: one of the command's ended in the marker or right behind it
  fooled,    \* history: a read that ends with no prompt looked like one
  exposed    \* history: the password was typed where none was asked for

counters == <<empties, odds, tries>>
work == <<filter, handed>>
console == <<device, user, free, echo, stream, written, exposed>>
reads == <<slow, torn, fooled>>
shellVars == <<pc, last, loggedIn, counters, work, console, reads>>

(* A piece of output: what it says, the command it answers (0 for none),   *)
(* and its place in everything the console wrote.                          *)
Says(words, of) ==
  /\ stream' = stream \o [i \in DOMAIN words |-> [is |-> words[i], of |-> of, n |-> written + i]]
  /\ written' = written + Len(words)

ShellInit ==
  /\ pc = "knock"
  /\ last = <<>>
  /\ loggedIn = FALSE
  /\ empties = 0 /\ odds = 0 /\ tries = 0
  /\ filter = ""
  /\ handed = <<>>
  /\ device \in {"name", "command", "silent"}
  /\ user = "none"
  /\ free \in BOOLEAN
  /\ echo \in BOOLEAN
  /\ stream = <<>>
  /\ written = 0
  /\ slow = 0
  /\ torn = FALSE
  /\ fooled = FALSE
  /\ exposed = FALSE

-----------------------------------------------------------------------------
(* The console: how it answers a line. *)

(* The line of a command ends in "echo" and the marker. *)
Marker == <<"mark", "er", "eol">>
Echoed == IF echo THEN <<"command">> \o Marker ELSE <<>>

(* It writes some text, and what it asks for next. *)
Asks(text, prompt, of) == Says(text \o <<prompt, "space">>, of)

AtName(line) ==
  \/ /\ line = ""
     /\ \E banner \in Banners : Asks(banner, "login:", 0)
     /\ UNCHANGED <<device, user>>
  \/ /\ line = "user" /\ free
     /\ Asks(<<"Last login:", "eol">>, "prompt", 0)
     /\ device' = "command" /\ user' = "user"
  \/ /\ line # "" /\ ~(line = "user" /\ free)
     /\ Asks(<<>>, "Password:", 0)
     /\ device' = "password" /\ user' = IF line = "user" THEN "user" ELSE "other"

AtPassword(line) ==
  /\ IF user = "user" /\ line = "password"
       THEN Asks(<<"Last login:", "eol">>, "prompt", 0) /\ device' = "command"
       ELSE Asks(<<"Login incorrect", "eol">>, "login:", 0) /\ device' = "name"
  /\ UNCHANGED user

AtCommand(line) ==
  /\ CASE line = "" -> Asks(<<>>, "prompt", 0)
       [] line = "ps" -> \E shell \in {"bash", "sh"} : Asks(<<shell, "eol">>, "prompt", 0)
       [] line = "command" ->
            \E out \in Outputs : Asks(Echoed \o out \o Marker, "prompt", Len(handed) + 1)
       [] line = "logout" -> Asks(<<>>, "login:", 0)
       [] OTHER -> Asks(<<"not found", "eol">>, "prompt", 0)
  /\ device' = IF line = "logout" THEN "name" ELSE "command"
  /\ UNCHANGED user

(* _write_string. *)
Type(line) ==
  /\ \/ device = "name" /\ AtName(line)
     \/ device = "password" /\ AtPassword(line)
     \/ device = "command" /\ AtCommand(line)
     \/ device = "silent" /\ UNCHANGED <<stream, written, device, user>>
  /\ exposed' = (exposed \/ (line = "password" /\ device # "password"))
  /\ UNCHANGED <<free, echo>>

-----------------------------------------------------------------------------
(* The patterns, on the text of a read.  That of the prompt finds "$" or "#"  *)
(* at the end, and ">" anywhere in the last line: in a banner too.          *)
Has(chunk, word) == \E i \in DOMAIN chunk : chunk[i].is = word
IsPasswordPrompt(chunk) == Has(chunk, "Password:")
IsLoginPrompt(chunk) == Has(chunk, "login:") /\ ~Has(chunk, "Last login:")
InLastLine(chunk, i) == \A j \in (i + 1)..(Len(chunk) - 1) : chunk[j].is # "eol"
IsCommandPrompt(chunk) ==
  \/ chunk # <<>> /\ chunk[Len(chunk)].is \in {"prompt", "hash"}
  \/ \E i \in DOMAIN chunk : chunk[i].is = "angle" /\ InLastLine(chunk, i)
IsFailurePrompt(chunk) == Has(chunk, "Login incorrect")
IsDone(chunk) == \E i \in 1..(Len(chunk) - 1) : chunk[i].is = "mark" /\ chunk[i + 1].is = "er"

EndsAtPrompt(chunk) == chunk # <<>> /\ chunk[Len(chunk)].is = "prompt"

-----------------------------------------------------------------------------
(* _read_string: the read ends after k pieces of the stream. *)

(* The text without its last character: that was the whole piece, or the   *)
(* piece is no longer the word it was, but for the date of the last login. *)
Characters == {"angle", "hash", "prompt", "space"}
ButLast(chunk) ==
  IF chunk = <<>> THEN <<>>
  ELSE IF chunk[Len(chunk)].is \in Characters THEN SubSeq(chunk, 1, Len(chunk) - 1)
  ELSE IF chunk[Len(chunk)].is = "Last login:" THEN chunk
  ELSE [chunk EXCEPT ![Len(chunk)].is = "cut"]

Arrived(k) ==
  /\ k \in 0..Len(stream)
  /\ stream' = SubSeq(stream, k + 1, Len(stream))
  /\ UNCHANGED <<device, user, free, echo, written, exposed>>

(* Mutant: what was read is put behind what had been read before. *)
ReadMore(k) ==
  /\ Arrived(k)
  /\ last' = last \o ButLast(SubSeq(stream, 1, k))
  /\ slow' = IF k < Len(stream) THEN slow + 1 ELSE slow
  /\ slow' <= MaxSlow
  /\ torn' = (torn \/ (k > 0 /\ stream[k].is \in {"mark", "er"}))
  /\ fooled' = (fooled \/ (IsCommandPrompt(last') /\ ~EndsAtPrompt(last')))

Read(k) ==
  /\ Arrived(k)
  /\ last' = ButLast(SubSeq(stream, 1, k))
  /\ slow' = IF k < Len(stream) THEN slow + 1 ELSE slow
  /\ slow' <= MaxSlow
  /\ torn' = (torn \/ (k > 0 /\ stream[k].is \in {"mark", "er"}))
  /\ fooled' = (fooled \/ (IsCommandPrompt(last') /\ ~EndsAtPrompt(last')))

(* The step of login that follows: a line, a read, or the result. *)
GoOn(next) == pc' = next /\ UNCHANGED loggedIn
Login(value) == pc' = (IF value THEN "idle" ELSE "failed") /\ loggedIn' = value

Write(at, line, next) ==
  /\ pc = at
  /\ Type(line)
  /\ GoOn(next)
  /\ UNCHANGED <<last, counters, work, reads>>

-----------------------------------------------------------------------------
(* _login. *)

Knock == Write("knock", "", "first")

First(k) ==
  /\ pc = "first"
  /\ Read(k)
  /\ GoOn(IF IsCommandPrompt(last') THEN "validate" ELSE "login")
  /\ UNCHANGED <<counters, work>>

Validate == Write("validate", "ps", "validated")

Validated(k) ==
  /\ pc = "validated"
  /\ Read(k)
  /\ IF Has(last', "bash") THEN Login(TRUE) ELSE GoOn("login")
  /\ UNCHANGED <<counters, work>>

(* Mutant: the counter of empty reads is not reset. *)
EmptyReadNoReset ==
  /\ empties' = empties + 1
  /\ GoOn(IF empties' > EmptyReads THEN "knockAgain" ELSE "login")
  /\ UNCHANGED <<odds, tries>>

EmptyRead ==
  /\ empties' = IF empties + 1 > EmptyReads THEN 0 ELSE empties + 1
  /\ GoOn(IF empties + 1 > EmptyReads THEN "knockAgain" ELSE "login")
  /\ UNCHANGED <<odds, tries>>

OddRead ==
  /\ odds' = odds + 1
  /\ IF odds' > OddReads THEN Login(FALSE) ELSE GoOn("login")
  /\ UNCHANGED <<empties, tries>>

LoginRead(k) ==
  /\ pc = "login"
  /\ Read(k)
  /\ \/ last' = <<>> /\ EmptyRead
     \/ IsCommandPrompt(last') /\ Login(TRUE) /\ UNCHANGED counters
     \/ /\ IsLoginPrompt(last') /\ ~IsCommandPrompt(last')
        /\ GoOn("name")
        /\ tries' = Tries
        /\ UNCHANGED <<empties, odds>>
     \/ /\ last' # <<>> /\ ~IsLoginPrompt(last') /\ ~IsCommandPrompt(last')
        /\ OddRead
  /\ UNCHANGED work

KnockAgain == Write("knockAgain", "", "login")

-----------------------------------------------------------------------------
(* _login_with_password. *)

TypeUser == Write("name", "user", "asked")

(* Mutant: what is not refused is taken for a login. *)
JudgeKindly == Login(~IsFailurePrompt(last')) /\ UNCHANGED counters

(* The end of a round: logged in, refused, or another try. *)
Judge ==
  /\ \/ IsCommandPrompt(last') /\ Login(TRUE) /\ UNCHANGED tries
     \/ ~IsCommandPrompt(last') /\ IsFailurePrompt(last') /\ Login(FALSE) /\ UNCHANGED tries
     \/ /\ ~IsCommandPrompt(last') /\ ~IsFailurePrompt(last')
        /\ tries' = tries - 1
        /\ IF tries' = 0 THEN Login(FALSE) ELSE GoOn("name")
  /\ UNCHANGED <<empties, odds>>

(* Mutant: the password is typed whatever was read. *)
AskedOrNot(k) ==
  /\ pc = "asked"
  /\ Read(k)
  /\ GoOn("password")
  /\ UNCHANGED <<counters, work>>

NameAsked(k) ==
  /\ pc = "asked"
  /\ Read(k)
  /\ IF IsPasswordPrompt(last') THEN GoOn("password") /\ UNCHANGED counters ELSE Judge
  /\ UNCHANGED work

TypePassword == Write("password", "password", "sent")

Sent(k) ==
  /\ pc = "sent"
  /\ Read(k)
  /\ Judge
  /\ UNCHANGED work

-----------------------------------------------------------------------------
(* Commands and teardown. *)

Exec(f) ==
  /\ pc = "idle" /\ loggedIn
  /\ Len(handed) < MaxCommands
  /\ Type("command")
  /\ filter' = f
  /\ handed' = Append(handed, <<>>)
  /\ torn' = FALSE
  /\ GoOn("reading")
  /\ UNCHANGED <<last, counters, slow, fooled>>

(* No session: exec_command returns [''] and writes nothing. *)
ExecRefused ==
  /\ pc = "idle" /\ ~loggedIn
  /\ Len(handed) < MaxCommands
  /\ handed' = Append(handed, <<>>)
  /\ UNCHANGED <<pc, last, loggedIn, counters, filter, console, reads>>

(* The filter is in the chunk; the empty one is in any. *)
Matches(chunk) == filter = "" \/ Has(chunk, filter)

(* Mutant: the loop waits for the filter only. *)
OutputMatchedOnly(k) ==
  /\ pc = "reading"
  /\ Read(k)
  /\ handed' = IF Matches(last') THEN [handed EXCEPT ![Len(handed)] = last'] ELSE handed
  /\ GoOn(IF Matches(last') THEN "idle" ELSE "reading")
  /\ UNCHANGED <<counters, filter>>

Output(k) ==
  /\ pc = "reading"
  /\ Read(k)
  /\ handed' = IF Matches(last') THEN [handed EXCEPT ![Len(handed)] = last'] ELSE handed
  /\ GoOn(IF Matches(last') \/ IsDone(last') THEN "idle" ELSE "reading")
  /\ UNCHANGED <<counters, filter>>

Logout ==
  /\ pc = "idle" /\ loggedIn
  /\ loggedIn' = FALSE
  /\ Type("logout")
  /\ pc' = "left"
  /\ UNCHANGED <<last, counters, work, reads>>

LoggedOut(k) ==
  /\ pc = "left"
  /\ Read(k)
  /\ GoOn("idle")
  /\ UNCHANGED <<counters, work>>

(* The read raises, or what it read is no UTF-8 and is lost; or the line    *)
(* cannot be written.  An exception of login ends it, and the construction  *)
(* with it; those of a command and of the teardown go to the caller.        *)
Raise(k) ==
  /\ pc \notin {"idle", "failed"}
  /\ k > 0 => pc \in {"first", "validated", "login", "asked", "sent", "reading", "left"}
  /\ Arrived(k)
  /\ slow' = IF k \in 1..(Len(stream) - 1) THEN slow + 1 ELSE slow
  /\ slow' <= MaxSlow
  /\ IF pc \in {"reading", "left"} THEN GoOn("idle") ELSE Login(FALSE)
  /\ UNCHANGED <<last, counters, work, torn, fooled>>

(* logout cannot be written: the session is forgotten all the same. *)
LogoutRaises ==
  /\ pc = "idle" /\ loggedIn
  /\ loggedIn' = FALSE
  /\ UNCHANGED <<pc, last, counters, work, console, reads>>

-----------------------------------------------------------------------------
Step ==
  \/ Knock \/ Validate \/ KnockAgain \/ TypeUser \/ TypePassword
  \/ \E k \in 0..Len(stream) :
       \/ First(k) \/ Validated(k) \/ LoginRead(k) \/ NameAsked(k) \/ Sent(k)
       \/ Output(k) \/ LoggedOut(k)

ShellNext ==
  \/ Step
  \/ \E k \in 0..Len(stream) : Raise(k)
  \/ \E f \in {"", "hit"} : Exec(f)
  \/ ExecRefused \/ Logout \/ LogoutRaises

ShellSpec == ShellInit /\ [][ShellNext]_shellVars

(* The operation under way is executed by its caller's thread until it returns. *)
FairSpec == ShellSpec /\ WF_shellVars(Step)

-----------------------------------------------------------------------------
(* Properties. *)

Words ==
  {"text", "angle", "hash", "eol", "space", "cut", "login:", "Last login:", "Password:",
   "Login incorrect", "prompt", "bash", "sh", "not found", "command", "hit", "miss", "mark", "er"}
Pieces == [is : Words, of : 0..MaxCommands, n : Nat \ {0}]

(* The variables have their types: the state of _login, lines 238-295, and *)
(* of its counters.                                                        *)
ShellTypeOK ==
  /\ pc \in {"knock", "first", "validate", "validated", "login", "knockAgain", "name", "asked",
             "password", "sent", "reading", "left", "idle", "failed"}
  /\ last \in Seq(Pieces) /\ stream \in Seq(Pieces)
  /\ loggedIn \in BOOLEAN
  /\ empties \in 0..EmptyReads /\ odds \in 0..(OddReads + 1) /\ tries \in 0..Tries
  /\ filter \in {"", "hit"}
  /\ handed \in Seq(Seq(Pieces)) /\ Len(handed) <= MaxCommands
  /\ device \in {"name", "password", "command", "silent"}
  /\ user \in {"none", "user", "other"}
  /\ free \in BOOLEAN /\ echo \in BOOLEAN /\ exposed \in BOOLEAN
  /\ torn \in BOOLEAN /\ fooled \in BOOLEAN
  /\ written \in Nat /\ slow \in 0..MaxSlow

(* While _logged_in is set the console is at a shell, whatever the reads of *)
(* login returned and however often it tried (lines 208-224, 257-295),      *)
(* unless the pattern of the prompt took something else for one.            *)
LoggedInMeansShell == loggedIn => device = "command" \/ fooled

(* It does so only where a banner has one of the characters it looks for    *)
(* (lines 110-115), wherever the reads end and what they lose.              *)
OnlyBannersFool ==
  fooled => \E banner \in Banners : \E i \in DOMAIN banner : banner[i] \in {"angle", "hash"}

(* The calls of exec_command together return no piece of the output twice, *)
(* and none before one that was written earlier (lines 165-175).           *)
OutputOnceInOrder ==
  \A c, d \in DOMAIN handed : \A i \in DOMAIN handed[c], j \in DOMAIN handed[d] :
    (c < d \/ (c = d /\ i < j)) => handed[c][i].n < handed[d][j].n

(* The password is only typed at a prompt that asks for it, unless a read  *)
(* ended before the console's answer did: then the next try types the name *)
(* at the password prompt and the password at the name (lines 208-217).    *)
PasswordOnlyWhereAsked == exposed => slow > 0

(* The types of the shell, and what its login knows of the console, as said *)
(* above.                                                                   *)
SessionInv == ShellTypeOK /\ LoggedInMeansShell /\ OnlyBannersFool /\ PasswordOnlyWhereAsked

(* Login returns, with a session or without (lines 257-295), on a console  *)
(* that answers: a newline after some empty reads brings the prompt back.  *)
(* On a silent one it does not (line 290 resets the counter).              *)
LoginEnds == device # "silent" => []<>(pc \in {"idle", "failed", "reading", "left"})

(* exec_command returns, as the filter or the marker is in what it reads   *)
(* (lines 165-175), unless a read ends in the marker or right behind it,   *)
(* where it loses its last character (line 188), or there is no shell.     *)
CommandEnds == pc = "reading" ~> (pc = "idle" \/ torn \/ fooled)

(* The operations return, as said above of each. *)
OperationsEnd == LoginEnds /\ CommandEnds

=============================================================================
