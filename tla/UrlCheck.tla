------------------------------- MODULE UrlCheck -------------------------------
(***************************************************************************)
(* What becomes of the URL of a POST /api/tasks: SecurityAgent.validate_url*)
(* (agents/security_agent.py) checks its syntax, resolves its host, looks  *)
(* at every address, asks the origin for the size with a HEAD request, and *)
(* raises an exception for what it refuses; the route (api/tasks.py) turns *)
(* the exception into an answer.                                           *)
(***************************************************************************)
EXTENDS Integers, Sequences

CONSTANTS
  MaxFileSize,    \* Settings.max_file_size_bytes
  MaxRedirects,   \* redirects an httpx client follows
  Urls,           \* bound: the URLs that are posted
  Lengths         \* bound: the lengths an origin may give

VARIABLE post   \* the request: where it is, its URL, whether an HTTP client is open for it,
                \* the redirects its HEAD has followed, what HEAD brought, and the answer

-----------------------------------------------------------------------------
(* A URL, as far as the checks tell one from another. *)

Syntax == {"good", "malformed", "other scheme", "no host", "bad port"}

\* An address of the host: IPv4, IPv6, an IPv4 one embedded in IPv6, or no address at
\* all.  Its class is the first of ipaddress' predicates that holds for it (for the
\* embedded one, if there is one), or "shared": 100.64/10, for which none does.
IPv4Class == {"global", "shared", "private", "loopback", "link_local", "unspecified",
              "multicast", "reserved"}
IPv6Class == (IPv4Class \ {"shared"}) \cup {"site_local", "documentation"}
Junk == [form |-> "junk", class |-> "none"]
Address == [form : {"v4", "mapped", "nat64"}, class : IPv4Class]
             \cup [form : {"v6"}, class : IPv6Class] \cup {Junk}

\* getaddrinfo resolves, or raises gaierror, or UnicodeError for a label that is no label.
Dns == {"resolves", "gaierror", "UnicodeError"}

\* What HEAD brings: no answer, or one without a length, with one that is no number, or
\* with one.
HeadAnswer == [is : {"none", "fails", "silent", "junk"}, length : {0}]
                \cup [is : {"length"}, length : Lengths]
NoAnswer == [is |-> "none", length |-> 0]
Failure == [is |-> "fails", length |-> 0]

Url == [syntax : Syntax, dns : Dns, addresses : SUBSET Address]

ASSUME UrlAssumption ==
  MaxFileSize \in Nat /\ MaxRedirects \in Nat /\ Urls \subseteq Url /\ Lengths \subseteq Nat

-----------------------------------------------------------------------------
(* validate_url *)

\* The comment lists 100.64/10, which ipaddress does not call private.
IPv4Blocked(class) == class \notin {"global", "shared"}

IPv6Blocked(class) == class \notin {"global", "reserved"}

\* Mutant: addresses that embed an IPv4 one are judged as IPv6 addresses.
IsPrivateNotUnwrapped(a) ==
  \/ a.form = "junk"
  \/ a.form = "v4" /\ IPv4Blocked(a.class)
  \/ a.form = "v6" /\ IPv6Blocked(a.class)

IsPrivate(a) ==
  \/ a.form = "junk"
  \/ a.form \in {"v4", "mapped", "nat64"} /\ IPv4Blocked(a.class)
  \/ a.form = "v6" /\ IPv6Blocked(a.class)

\* Each check that comes before the first await, with the exception it raises.
EarlyChecks(u) == <<
  [fails |-> u.syntax = "malformed",               raises |-> "ValueError"],
  [fails |-> u.syntax \in {"other scheme", "no host"}, raises |-> "InvalidProtocol"],
  [fails |-> u.syntax = "bad port",                raises |-> "ValueError"],
  [fails |-> u.dns = "UnicodeError",               raises |-> "UnicodeError"],
  [fails |-> u.dns = "gaierror",                   raises |-> "UnreachableHost"],
  [fails |-> u.addresses = {},                     raises |-> "UnreachableHost"],
  [fails |-> \E a \in u.addresses : IsPrivate(a),  raises |-> "SSRFBlocked"] >>

\* The first of them that fails, if one does.
FailedChecks(u) ==
  {i \in DOMAIN EarlyChecks(u) : /\ EarlyChecks(u)[i].fails
                                 /\ \A j \in 1..i - 1 : ~EarlyChecks(u)[j].fails}

TooLarge(answer) == answer.is = "length" /\ answer.length > MaxFileSize

-----------------------------------------------------------------------------
(* The route. *)

\* The classes of an exception.
Mro(exc) ==
  {exc} \cup (IF exc \in {"InvalidProtocol", "SSRFBlocked", "FileTooLarge", "UnreachableHost"}
              THEN {"SecurityError"} ELSE {})

\* Mutant: the base class comes first.
ErrorToHttpBaseFirst ==
  << <<"SecurityError",   400, "URL_VALIDATION_FAILED">>,
     <<"InvalidProtocol", 400, "INVALID_PROTOCOL">>,
     <<"SSRFBlocked",     403, "PRIVATE_IP_BLOCKED">>,
     <<"FileTooLarge",    413, "FILE_TOO_LARGE">> >>

\* _SECURITY_ERROR_TO_HTTP; PrivateIP and DNSRebinding come after their base class.
ErrorToHttp ==
  << <<"InvalidProtocol", 400, "INVALID_PROTOCOL">>,
     <<"SSRFBlocked",     403, "PRIVATE_IP_BLOCKED">>,
     <<"FileTooLarge",    413, "FILE_TOO_LARGE">>,
     <<"SecurityError",   400, "URL_VALIDATION_FAILED">>,
     <<"PrivateIP",       403, "PRIVATE_IP_BLOCKED">>,
     <<"DNSRebinding",    403, "DNS_REBINDING_BLOCKED">> >>

Created == <<201, "queued">>
ServerError == <<500, "Internal Server Error">>   \* any other exception

\* The first row of the table with a class of the exception.
Answered(exc) ==
  LET known == {i \in DOMAIN ErrorToHttp : ErrorToHttp[i][1] \in Mro(exc)}
      first == CHOOSE i \in known : \A j \in known : i <= j
  IN  IF known = {} THEN ServerError ELSE <<ErrorToHttp[first][2], ErrorToHttp[first][3]>>

NoPost == [pc |-> "idle", url |-> "none", client |-> FALSE, redirects |-> 0,
           answer |-> NoAnswer, reply |-> Created]

PostInit == post = NoPost

Reply(exc) == [post EXCEPT !.pc = "answered", !.reply = Answered(exc)]

\* Everything up to the HEAD request: the resolver is called without an await.
PostReceive(u) ==
  /\ post.pc = "idle"
  /\ \/ FailedChecks(u) = {} /\ post' = [post EXCEPT !.pc = "head", !.url = u, !.client = TRUE]
     \/ \E i \in FailedChecks(u) :
          post' = [post EXCEPT !.pc = "answered", !.url = u,
                               !.reply = Answered(EarlyChecks(u)[i].raises)]

\* HEAD goes where httpx takes it: the host is resolved a second time, and every redirect
\* may name another one.  The addresses it asks are not kept: nothing relates them to those
\* that were judged.
HeadRedirected ==
  /\ post.pc = "head"
  /\ post.redirects < MaxRedirects
  /\ post' = [post EXCEPT !.redirects = @ + 1]

\* The `return' in the finally block of the HEAD client reads resp, which is not bound
\* when the request failed (one redirect too many is a failure), and hides the exception
\* validate_url expects.
HeadFails ==
  /\ post.pc = "head"
  /\ post' = [Reply("UnboundLocalError") EXCEPT !.answer = Failure]

\* Mutant: the client is only closed when the size is accepted.
HeadTooLargeLeaks ==
  /\ post.pc = "head"
  /\ \E answer \in HeadAnswer :
       TooLarge(answer) /\ post' = [Reply("FileTooLarge") EXCEPT !.answer = answer]

HeadTooLarge ==
  /\ post.pc = "head"
  /\ \E answer \in HeadAnswer :
       /\ TooLarge(answer)
       /\ post' = [Reply("FileTooLarge") EXCEPT !.answer = answer, !.client = FALSE]

HeadAccepts ==
  /\ post.pc = "head"
  /\ \E answer \in HeadAnswer \ {NoAnswer, Failure} :
       /\ ~TooLarge(answer)
       /\ post' = [post EXCEPT !.pc = "enqueue", !.client = FALSE, !.answer = answer]

\* The row is inserted, or the insert raises.
PostEnqueue ==
  /\ post.pc = "enqueue"
  /\ \E reply \in {Created, ServerError} :
       post' = [post EXCEPT !.pc = "answered", !.reply = reply]

PostDone == post.pc = "answered" /\ post' = NoPost

PostNext ==
  \/ \E u \in Urls : PostReceive(u)
  \/ HeadRedirected
  \/ HeadFails
  \/ HeadTooLarge
  \/ HeadAccepts
  \/ PostEnqueue
  \/ PostDone

PostSpec == PostInit /\ [][PostNext]_post

-----------------------------------------------------------------------------

\* What the checks let pass: an address that stands for a global one, or is left alone for
\* the sake of NAT64, or of the shared range.
Admitted(a) == a.class \in {"global", "shared"} \/ a = [form |-> "v6", class |-> "reserved"]

Resolved(u) == u.syntax = "good" /\ u.dns = "resolves" /\ u.addresses # {}

\* All the checks pass.
Passes(u, answer) ==
  /\ Resolved(u) /\ \A a \in u.addresses : Admitted(a)
  /\ answer.is \notin {"none", "fails"} /\ ~TooLarge(answer)

\* The error table of README_NODE.md as far as the code keeps to it: an answer is only
\* given for what its row says, and a task only created from a URL to which none applies,
\* although the answer depends on the order of the checks, the classes of the exceptions
\* and the order in which the route tries them.  Two rows are other than in the table:
\* public and private addresses together are a PRIVATE_IP_BLOCKED, and a host that is not
\* resolved is a URL_VALIDATION_FAILED.
AnswersJustified ==
  post.pc = "answered" =>
    LET u == post.url
        code == post.reply[2]
    IN  CASE code = "INVALID_PROTOCOL" -> u.syntax \in {"other scheme", "no host"}
          [] code = "URL_VALIDATION_FAILED" -> ~Resolved(u) /\ u.syntax = "good"
          [] code = "PRIVATE_IP_BLOCKED" -> Resolved(u) /\ \E a \in u.addresses : ~Admitted(a)
          [] code = "FILE_TOO_LARGE" -> /\ Resolved(u) /\ \A a \in u.addresses : Admitted(a)
                                        /\ TooLarge(post.answer)
          [] code = "queued" -> Passes(u, post.answer)
          [] code = "Internal Server Error" ->
               \/ u.syntax \in {"malformed", "bad port"} \/ u.dns = "UnicodeError"
               \/ post.answer.is = "fails"
               \/ Passes(u, post.answer)   \* the insert failed
          [] OTHER -> FALSE

\* The HTTP client of a request that got an answer from the origin is closed by the time
\* the POST is answered, on the error path too.
ClientsClosed == post.pc = "answered" /\ post.client => post.answer.is = "fails"

\* test_security_ssrf.py: "a HEAD that times out or cannot connect must not be a 500, it
\* is let through like one without a length".
HeadMayFail ==
  post.pc = "answered" /\ post.reply = ServerError => post.answer.is # "fails"
=============================================================================
