--------------------------- MODULE ErrorTranslation ---------------------------
(***************************************************************************)
(* How the errors of a request become the one status its client gets:      *)
(* package apperror builds and marks them, ErrorResponseInterceptor        *)
(* (package valid) translates the one the handler returns.                 *)
(*                                                                         *)
(* Errors are values: errs holds those built so far, an error refers to    *)
(* the ones it wraps by their place.  The message and the field errors of  *)
(* an error are abstracted to its place: a client message is a sequence of *)
(* places, so that the order and the origin of what is accumulated show.   *)
(***************************************************************************)
EXTENDS Naturals, FiniteSets, Sequences, SequencesExt

CONSTANT MaxErrs   \* bound: errors built in a request

VARIABLES errs,    \* the errors built so far
          answer   \* the status the client gets

vars == <<errs, answer>>

-----------------------------------------------------------------------------
(* Errors *)

\* Errors that come from outside: a done context, PostgreSQL with a constraint
\* of the map databaseConstraint or another error, pgx.ErrNoRows, a gRPC
\* status (CreateLot returns these), anything else.
Causes == {"deadline", "canceled", "known_pg", "other_pg", "no_rows", "status", "plain"}

Plain(kind, kids) == [kind |-> kind, kids |-> kids, code |-> "", says |-> <<>>,
                      fields |-> <<>>, client |-> FALSE, merge |-> FALSE]

App(code, says, fields, kids) ==
  [Plain("app", kids) EXCEPT !.code = code, !.says = says, !.fields = fields]

\* The text "unknown error" stands at no place of errs.
UnknownError == <<0>>

\* The constructors; here is the place of the new error. The layer of
\* fmt.Errorf that they put around the cause shows nothing and is left out.
InvalidArgumentError(here, kids) == App("invalid_argument", <<here>>, <<here>>, kids)
PreconditionFailedError(here, kids) == App("storage_conflict", <<here>>, <<here>>, kids)
NotFoundError(here, kids) == App("not_found", <<here>>, <<>>, kids)
CatchAllUnknownServerError(kids) == App("unknown", UnknownError, <<>>, kids)

\* Neither a code nor a message for the client.
InternalServerError(kids) == App("", <<>>, <<>>, kids)

MarkAsClientErr(e) == [e EXCEPT !.client = TRUE]
RemoveFromClientErr(e) == [e EXCEPT !.client = FALSE]
MarkAsClientErrAndMerge(e) == [e EXCEPT !.client = TRUE, !.merge = TRUE]
UnMerge(e) == [e EXCEPT !.merge = FALSE]

\* The kinds of the errors an error consists of (errors.Is, errors.As).
Kinds(i) ==
  LET kinds[j \in 1..i] ==
        {errs[j].kind} \cup UNION {kinds[errs[j].kids[k]] : k \in DOMAIN errs[j].kids}
  IN kinds[i]

\* The first error of PostgreSQL in it (errors.AsType looks depth first).
isStorageError(i) ==
  LET first[j \in 1..i] ==
        IF errs[j].kind \in {"known_pg", "other_pg"} THEN errs[j].kind
        ELSE LET found == SelectSeq([k \in DOMAIN errs[j].kids |-> first[errs[j].kids[k]]],
                                    LAMBDA kind : kind # "none")
             IN IF found = <<>> THEN "none" ELSE Head(found)
  IN first[i]

\* The constraint is one the service has field errors for.
DeriveIfStorageErrorMessage(i) == isStorageError(i) = "known_pg"

IsRowNotFound(i) == "no_rows" \in Kinds(i)

-----------------------------------------------------------------------------
(* From errors to the message for the client *)

Empty == [says |-> <<>>, fields |-> <<>>]

\* Mutant: the fields of the errors seen so far are not kept.
accumulateLast(acc, e) == [says |-> acc.says \o e.says, fields |-> e.fields]

accumulate(acc, e) == [says   |-> acc.says \o e.says,
                       fields |-> acc.fields \o e.fields]

\* Mutant: every AppError is for the client.
IsClientErrAlways(e) == e.kind = "app"

IsClientErr(e) == e.kind = "app" /\ e.client

\* What a call of generateClientFields adds to the accumulator it is given, and
\* the first error for the client that it finds (0: there is none).
Nothing == [msg |-> Empty, first |-> 0]

\* One more of the branches of a joined error.
Branch(r, b) == [msg   |-> accumulate(r.msg, b.msg),
                 first |-> IF r.first = 0 THEN b.first ELSE r.first]

\* The errors that one wraps, from left to right; a single one stays as it is.
Branches(below) ==
  LET joined[n \in 0..Len(below)] == IF n = 0 THEN Nothing
                                     ELSE Branch(joined[n - 1], below[n])
  IN joined[Len(below)]

\* Mutant: the errors below an error for the client are always merged.
SaidBelow(j, below) ==
  IF IsClientErr(errs[j])
  THEN [msg   |-> accumulate(accumulate(Empty, errs[j]), Branches(below).msg),
        first |-> j]
  ELSE Branches(below)

\* An error for the client hides those below unless it merges.
Said(j, below) ==
  LET own == accumulate(Empty, errs[j]) IN
  IF IsClientErr(errs[j])
  THEN [msg   |-> IF errs[j].merge THEN accumulate(own, Branches(below).msg) ELSE own,
        first |-> j]
  ELSE Branches(below)

\* Down from an error to the first errors for the client.
generateClientFields(i) ==
  LET found[j \in 1..i] ==
        Said(j, [k \in DOMAIN errs[j].kids |-> found[errs[j].kids[k]]])
  IN found[i]

\* CreateClientErr, or an unknown error when there is none for the client.
createErr(i) ==
  LET found == generateClientFields(i) IN
  IF found.first = 0 THEN CatchAllUnknownServerError(<<i>>)
  ELSE [errs[found.first] EXCEPT !.says = found.msg.says, !.fields = found.msg.fields]

-----------------------------------------------------------------------------
(* From errors to a status *)

Status(code, says, fields) == [code |-> code, says |-> says, fields |-> fields]

\* The statuses that carry details; an error without a code of the map is
\* internal, and says nothing.
convertToGRPCErr(e) ==
  CASE e.code = "invalid_argument" -> Status("InvalidArgument", e.says, e.fields)
    [] e.code = "storage_conflict" -> Status("FailedPrecondition", e.says, e.fields)
    [] e.code = "not_found"        -> Status("NotFound", e.says, <<>>)
    [] e.code = "unknown"          -> Status("Unknown", e.says, <<>>)
    [] OTHER                       -> Status("Internal", <<>>, <<>>)

\* A status passes; a done context anywhere inside decides; else what the
\* errors say to the client.
toGRPCError(i) ==
  IF errs[i].kind = "status" THEN Status("as_is", <<i>>, <<>>)
  ELSE IF "deadline" \in Kinds(i) THEN Status("DeadlineExceeded", <<>>, <<>>)
  ELSE IF "canceled" \in Kinds(i) THEN Status("Canceled", <<>>, <<>>)
  ELSE convertToGRPCErr(createErr(i))

-----------------------------------------------------------------------------
(* A request *)

Unanswered == [code |-> "none"]

Init == errs = <<>> /\ answer = Unanswered

Build(e) == /\ answer = Unanswered
            /\ Len(errs) < MaxErrs
            /\ errs' = Append(errs, e)
            /\ UNCHANGED answer

Here == Len(errs) + 1

\* The errors others may wrap: nothing wraps a gRPC status.
Wrappable == {i \in DOMAIN errs : errs[i].kind # "status"}

\* A call fails.
Receive == \E kind \in Causes : Build(Plain(kind, <<>>))

\* fmt.Errorf with one %w, and with several (or errors.Join).
Wrap == \E i \in Wrappable : Build(Plain("wrap", <<i>>))
Join == \E i, j \in Wrappable : i # j /\ Build(Plain("join", <<i, j>>))

\* Most calls of the handlers: an internal error for the client.
FailInternal == \E i \in Wrappable : Build(MarkAsClientErr(InternalServerError(<<i>>)))

\* listNotUploadedParts and makeUUIDText: an internal error to be wrapped again.
FailInside == \E i \in Wrappable : Build(InternalServerError(<<i>>))

\* The three inserts: the constraint decides.
FailInsert == \E i \in Wrappable :
  Build(MarkAsClientErr(IF DeriveIfStorageErrorMessage(i)
                        THEN PreconditionFailedError(Here, <<i>>)
                        ELSE InternalServerError(<<i>>)))

\* GetMultiPartUploadItem: an attempt that is not there is the client's error.
FailRead == \E i \in Wrappable :
  Build(MarkAsClientErr(IF IsRowNotFound(i) THEN NotFoundError(Here, <<i>>)
                        ELSE InternalServerError(<<i>>)))

\* initiateUpload: a lot id that is no UUID.
FailLotId == \E i \in Wrappable :
  Build(MarkAsClientErr(InvalidArgumentError(Here, <<i>>)))

\* completeMultiPartUpload: parts are missing; this error wraps nil.
FailParts == Build(MarkAsClientErr(PreconditionFailedError(Here, <<>>)))

\* The marks of the AppError just built; they return a copy.
Mark == /\ answer = Unanswered
        /\ errs # <<>> /\ Last(errs).kind = "app"
        /\ \E e \in {MarkAsClientErr(Last(errs)), MarkAsClientErrAndMerge(Last(errs)),
                     RemoveFromClientErr(Last(errs)), UnMerge(Last(errs))} :
             errs' = [errs EXCEPT ![Len(errs)] = e]
        /\ UNCHANGED answer

\* ErrorResponseInterceptor: the handler has returned its last error.
Respond == /\ answer = Unanswered /\ errs # <<>>
           /\ answer' = toGRPCError(Len(errs))
           /\ UNCHANGED errs

Next == \/ Receive \/ Wrap \/ Join
        \/ FailInternal \/ FailInside \/ FailInsert \/ FailRead \/ FailLotId \/ FailParts
        \/ Mark \/ Respond

Spec == Init /\ [][Next]_vars

-----------------------------------------------------------------------------
(* Reference: the errors on the paths from the returned error *)

\* The error at the end of a path from an error down, a sequence of choices among
\* the wrapped errors; 0 if the path leaves the error.
From(i, path) ==
  LET at[n \in 0..Len(path)] ==
        IF n = 0 THEN i
        ELSE LET j == at[n - 1] IN
             IF j # 0 /\ path[n] \in DOMAIN errs[j].kids THEN errs[j].kids[path[n]] ELSE 0
  IN at[Len(path)]

At(path) == From(Len(errs), path)

\* Each step of a path is to an error that was there before.
Paths == {p \in UNION {[1..n -> 1..2] : n \in 0..(Len(errs) - 1)} : At(p) # 0}

\* A path comes before another if it ends on it or branches off to the left.
Before(p, q) == \/ IsStrictPrefix(p, q)
                \/ \E n \in DOMAIN p \cap DOMAIN q :
                     /\ \A k \in 1..(n - 1) : p[k] = q[k]
                     /\ p[n] < q[n]

\* The errors for the client that no other hides: everything above them that is
\* for the client merges.
Visible == {p \in Paths :
  /\ errs[At(p)].client
  /\ \A q \in Paths : IsStrictPrefix(q, p) /\ errs[At(q)].client => errs[At(q)].merge}

Translated ==
  LET paths == [n \in 1..Cardinality(Visible) |->
                  CHOOSE p \in Visible :
                    Cardinality({q \in Visible : Before(q, p)}) = n - 1]
      Of(field) == FlattenSeq([n \in DOMAIN paths |-> errs[At(paths[n])][field]])
  IN IF paths = <<>> THEN Status("Unknown", UnknownError, <<>>)
     ELSE convertToGRPCErr([errs[At(paths[1])] EXCEPT !.says = Of("says"),
                                                      !.fields = Of("fields")])

\* The context that ended at the end of some path, if any.
Ended(kind) == \E p \in Paths : errs[At(p)].kind = kind

Expected == CASE Ended("deadline")  -> Status("DeadlineExceeded", <<>>, <<>>)
              [] Ended("canceled") /\ ~Ended("deadline") -> Status("Canceled", <<>>, <<>>)
              [] OTHER              -> Translated

-----------------------------------------------------------------------------
(* Reference: the errors in view of the returned error *)

\* The returned error is in a set, and so is what is wrapped by errors of it that
\* are not opaque.
Closed(S, opaque) ==
  /\ Len(errs) \in S
  /\ \A i \in S \ opaque : \A k \in DOMAIN errs[i].kids : errs[i].kids[k] \in S

\* The least such set.
InView(opaque) == {i \in DOMAIN errs : \A S \in SUBSET DOMAIN errs : Closed(S, opaque) => i \in S}

Hiding == {i \in DOMAIN errs : errs[i].client /\ ~errs[i].merge}

\* The errors for the client that no other hides.
Shown == {i \in InView(Hiding) : errs[i].client}

Causing(kind) == \E i \in InView({}) : errs[i].kind = kind

-----------------------------------------------------------------------------
(* Properties *)

\* Whatever the shape of wrapped, joined and merging errors, the client gets the
\* end of its context if that is anywhere among the causes, so that it may try
\* again; else the code of the first error for it that no other hides, with the
\* messages and fields of all of these, from the outside in and from left to
\* right, once for every way down to each (the accumulator of
\* generateClientFields, toGRPCError).
AnswersWhatIsVisible ==
  answer \notin {Unanswered, Status("as_is", <<Len(errs)>>, <<>>)} => answer = Expected

\* What a client is told is of errors that no other hides, all of what these say
\* and nothing else, under the code of one of them; an internal error tells
\* nothing, and none for the client is an unknown error. An ended context decides
\* before all that (generateClientFields, toGRPCError, convertToGRPCErr).
ShownIsTold ==
  answer # Unanswered /\ Last(errs).kind # "status" =>
    CASE Causing("deadline") -> answer.code = "DeadlineExceeded"
      [] Causing("canceled") /\ ~Causing("deadline") -> answer.code = "Canceled"
      [] ~Causing("deadline") /\ ~Causing("canceled") /\ Shown = {} ->
           answer = Status("Unknown", UnknownError, <<>>)
      [] OTHER ->
           /\ \E i \in Shown : answer.code = convertToGRPCErr(errs[i]).code
           /\ answer.code # "Internal" =>
                Range(answer.says) = UNION {Range(errs[i].says) : i \in Shown}
           /\ answer.code \notin {"Internal", "NotFound"} =>
                Range(answer.fields) = UNION {Range(errs[i].fields) : i \in Shown}

\* What an error that is not marked for the client says stays in the service,
\* however it is wrapped (the isClientErr of AppError).
PrivateStaysPrivate ==
  answer # Unanswered =>
    \A i \in DOMAIN errs :
      i \in Range(answer.says) \cup Range(answer.fields) =>
        errs[i].client \/ errs[i].kind = "status"
=============================================================================
