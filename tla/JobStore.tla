------------------------------ MODULE JobStore ------------------------------
(***************************************************************************)
(* The two job stores.  Both keep the latest record of each job and an     *)
(* index for listings: the in-memory store in the order in which jobs were *)
(* first saved, the Redis store one entry for every save, newest first,    *)
(* trimmed to IndexMax entries.                                            *)
(***************************************************************************)
EXTENDS Naturals, Sequences, SequencesExt

CONSTANTS
    JobIds,     \* job ids
    NoJob,      \* no record under an id
    IndexMax    \* LTRIM of jobs:index (10000 entries)

ASSUME IndexMaxAssumption == IndexMax \in Nat \ {0}

AtMost(n, m) == IF n < m THEN n ELSE m

EmptyStore(kind) ==
    [kind |-> kind, jobs |-> [id \in JobIds |-> NoJob], index |-> <<>>]

\* Mutant of Stored: owns_input_path is not in the dict and reads as True.
StoredWithoutOwnership(job) == [job EXCEPT !.owns = TRUE]

\* Mutant of Stored: child_job_ids is not in the dict and reads as empty.
StoredWithoutChildren(job) == [job EXCEPT !.children = <<>>]

\* job_to_dict followed by job_from_dict, of the fields the jobs are run by.
Stored(job) ==
    [type |-> job.type, status |-> job.status, path |-> job.path, work |-> job.work,
     owns |-> job.owns, children |-> job.children]

InMemorySave(s, id, job) ==
    [s EXCEPT !.jobs[id] = Stored(job),
              !.index = IF Contains(@, id) THEN @ ELSE Append(@, id)]

\* Mutant of RedisSave: the index is not trimmed.
UntrimmedSave(s, id, job) == [s EXCEPT !.jobs[id] = Stored(job), !.index = <<id>> \o @]

RedisSave(s, id, job) ==
    [s EXCEPT !.jobs[id] = Stored(job),
              !.index = SubSeq(<<id>> \o @, 1, AtMost(IndexMax, Len(@) + 1))]

Save(s, id, job) ==
    IF s.kind = "redis" THEN RedisSave(s, id, job) ELSE InMemorySave(s, id, job)

Get(s, id) == s.jobs[id]

\* Mutant of InMemoryListIds: the head of the list instead of its tail.
InMemoryListHead(s, limit) == SubSeq(s.index, 1, AtMost(limit, Len(s.index)))

InMemoryListIds(s, limit) ==
    SubSeq(s.index, 1 + Len(s.index) - AtMost(limit, Len(s.index)), Len(s.index))

AddNew(seen, id) == IF Contains(seen, id) THEN seen ELSE Append(seen, id)

Distinct(ids) == FoldLeft(AddNew, <<>>, ids)

RedisListIds(s, limit) == Distinct(SubSeq(s.index, 1, AtMost(limit, Len(s.index))))

ListIds(s, limit) ==
    IF s.kind = "redis" THEN RedisListIds(s, limit) ELSE InMemoryListIds(s, limit)

\* GET /ingest/jobs: the ids reversed, those without a record left out.
Listing(s, limit) ==
    FoldLeft(LAMBDA found, id : IF Get(s, id) = NoJob THEN found ELSE Append(found, id),
             <<>>, Reverse(ListIds(s, limit)))
=============================================================================
