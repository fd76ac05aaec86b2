-------------------------------- MODULE Fetch -------------------------------
(***************************************************************************)
(* Fetching the files of one item: request_with_retry and                  *)
(* get_with_fallback (net/http.py), the download of each connector, and    *)
(* the loop of run_ingest_item that calls it, over the tries that the      *)
(* queue gives the item's job.  An answer to a request is                  *)
(*   "file"     bytes that make a valid book,                              *)
(*   "short"    a text too short for a book,                               *)
(*   "invalid"  bytes that validate_book_file refuses,                     *)
(*   "missing"  404 or 410,                                                *)
(*   "refused"  another status that is not retried,                        *)
(*   "odd"      another httpx error (a redirect loop, a bad encoding),     *)
(*   "busy"     a status of RETRY_STATUS or an exception of RETRY_EXC.     *)
(***************************************************************************)
EXTENDS Naturals, Sequences

CONSTANTS
    Plans,          \* the item's files by connector: how many URLs each has
    Attempts,       \* HTTP attempts per URL (http_attempts)
    MaxTries        \* the job's max_attempts

VARIABLES
    source,         \* the item's connector
    pc,             \* "due", "asking", or how the item ended
    tries,          \* tries of the job so far
    at, url,        \* the file and the URL being asked for
    asked,          \* requests sent to that URL
    transient,      \* saw_transient
    saved,          \* some file was saved in this try
    permanent,      \* download_errors holds a PermanentHTTPError
    last            \* history: the last answer of each URL in this try

vars == <<source, pc, tries, at, url, asked, transient, saved, permanent, last>>

Answers == {"file", "short", "invalid", "missing", "refused", "odd", "busy"}
Ends == {"saved", "failed", "gone", "dead"}

Files == DOMAIN Plans[source]
Urls == UNION {{f} \X (1 .. Plans[source][f]) : f \in Files}

TypeOK ==
    /\ source \in DOMAIN Plans
    /\ pc \in {"due", "asking"} \union Ends
    /\ tries \in 0 .. MaxTries
    /\ at \in Files /\ url \in 1 .. Plans[source][at]
    /\ asked \in 0 .. Attempts
    /\ {transient, saved, permanent} \subseteq BOOLEAN
    /\ DOMAIN last \subseteq Urls /\ \A x \in DOMAIN last : last[x] \in Answers

Init ==
    /\ source \in DOMAIN Plans
    /\ pc = "due" /\ tries = 0
    /\ at = 1 /\ url = 1 /\ asked = 0
    /\ transient = FALSE /\ saved = FALSE /\ permanent = FALSE
    /\ last = <<>>
-----------------------------------------------------------------------------
\* A retryable error, or any before the downloads, ends the try; the job is due
\* again or dead.
FailJob == pc' = IF tries' >= MaxTries THEN "dead" ELSE "due"

\* A try of the job: the metadata are fetched, then the first file.
RunIngestItem ==
    /\ pc = "due"
    /\ tries' = tries + 1
    /\ pc' = "asking" \/ FailJob
    /\ at' = 1 /\ url' = 1 /\ asked' = 0
    /\ transient' = FALSE /\ saved' = FALSE /\ permanent' = FALSE
    /\ last' = <<>>
    /\ UNCHANGED source

Falls == source = "openiti"        \* its download goes through get_with_fallback

\* The response, or the exception, that request_with_retry leaves with.
Answer(a) == last' = [x \in DOMAIN last \union {<<at, url>>} |->
                         IF x = <<at, url>> THEN a ELSE last[x]]

LastAttempt == asked + 1 >= Attempts

\* A busy answer before the last attempt: the URL is asked again.
RetryRequest ==
    /\ pc = "asking" /\ ~LastAttempt
    /\ Answer("busy")
    /\ asked' = asked + 1
    /\ UNCHANGED <<source, pc, tries, at, url, transient, saved, permanent>>

\* Mutant of Transient: the answer of the last URL alone decides.
LastIsTransient(a) == a = "busy"

\* saw_transient after the URL's answer.
Transient(a) == transient \/ a = "busy"

\* get_with_fallback goes on to the next URL.
NextUrl ==
    /\ pc = "asking" /\ Falls /\ url < Plans[source][at]
    /\ \E a \in {"missing", "refused", "odd", "busy"} :
        /\ a = "busy" => LastAttempt
        /\ Answer(a)
        /\ transient' = Transient(a)
    /\ url' = url + 1 /\ asked' = 0
    /\ UNCHANGED <<source, pc, tries, at, saved, permanent>>

\* The next file, or the verdict: some file saved, or failed, for good if an
\* error was permanent.
Proceed(isSaved, isPermanent) ==
    /\ saved' = isSaved /\ permanent' = isPermanent
    /\ IF at < Len(Plans[source])
       THEN at' = at + 1 /\ url' = 1 /\ asked' = 0 /\ transient' = FALSE /\ UNCHANGED pc
       ELSE /\ pc' = IF isSaved THEN "saved" ELSE IF isPermanent THEN "gone" ELSE "failed"
            /\ UNCHANGED <<at, url, asked, transient>>
    /\ UNCHANGED <<source, tries>>

\* The download succeeds and the file is valid.
Saved == pc = "asking" /\ Answer("file") /\ Proceed(TRUE, permanent)

Retryable(a) ==
    /\ Answer(a)
    /\ tries' = tries /\ FailJob
    /\ UNCHANGED <<source, at, url, asked, transient, saved, permanent>>

LastUrl == url = Plans[source][at]

\* The answers after which download raises something that is retried.
Raises ==
    /\ pc = "asking"
    /\ \/ Retryable("busy") /\ LastAttempt /\ (~Falls \/ LastUrl)
       \/ Retryable("short") /\ Falls
       \/ \E a \in {"missing", "refused", "odd"} : Retryable(a) /\ Falls /\ LastUrl /\ Transient(a)

\* Every fallback URL was asked and none was transient: PermanentHTTPError.
AllGone ==
    /\ pc = "asking" /\ Falls /\ LastUrl
    /\ \E a \in {"missing", "refused", "odd"} :
        ~Transient(a) /\ Answer(a) /\ Proceed(saved, TRUE)

\* Any other error, or a file that is not valid, costs the file only.
Skipped ==
    /\ pc = "asking"
    /\ \/ Answer("invalid")
       \/ ~Falls /\ \E a \in {"short", "missing", "refused", "odd"} : Answer(a)
    /\ Proceed(saved, permanent)

Next ==
    \/ RunIngestItem
    \/ RetryRequest \/ NextUrl
    \/ Saved \/ Raises \/ AllGone \/ Skipped

Spec == Init /\ [][Next]_vars
-----------------------------------------------------------------------------
(***************************************************************************)
(* Properties.                                                             *)
(***************************************************************************)
\* An item is given up only for what its URLs answered: for good ("gone") only
\* when every one of them refused or missed it in one try, and otherwise never
\* while all that is known of one of its files is that servers were busy; its job
\* dies only after all its tries.
GivenUpLate ==
    /\ pc = "gone" =>
        DOMAIN last = Urls /\ \A x \in Urls : last[x] \in {"missing", "refused", "odd"}
    /\ pc = "failed" =>
        \A f \in Files : \E x \in DOMAIN last : x[1] = f /\ last[x] # "busy"
    /\ pc = "dead" => tries = MaxTries
=============================================================================
