---------------------------- MODULE RequestProofs -----------------------------
(***************************************************************************)
(* Theorems about the execution of one retrieval: the strict reader takes  *)
(* what the writer persists, outcomes are never revised, and evidence was  *)
(* read from the build it is handed on for.                                *)
(***************************************************************************)
EXTENDS RequestExecution, TLAPS

(* Where a process runs the requests of a row it claimed.                  *)
RunPc == {"open", "request", "surface", "progress", "final", "commit"}
LoopPc == {"open", "request", "surface", "progress"}

(* Where it has not looked at the row's outcomes yet.                      *)
FreshPc == {"execute", "lookup", "claim"}

(* Outcomes of a loop that has met no failure.                             *)
Clean(f) ==
  /\ Len(f) <= requests
  /\ \A i \in 1 .. Len(f) : /\ i \in executable => f[i].status = "succeeded"
                            /\ i \notin executable => f[i] = Rejected

(* Outcomes of a loop that stopped at request k.                           *)
StoppedAt(f, k) ==
  /\ k \in executable /\ Len(f) = requests
  /\ \A i \in 1 .. requests : /\ i \notin executable => f[i] = Rejected
                              /\ i \in executable /\ i < k => f[i].status = "succeeded"

FailedAt(f, k) ==
  /\ StoppedAt(f, k) /\ f[k].status = "failed" /\ f[k].failure = "surface_error"
  /\ \A i \in executable : i > k => /\ f[i].status = "not_executed"
                                    /\ f[i].failure = "prior_request_failed" /\ f[i].after = k

ChangedAt(f, k) ==
  /\ StoppedAt(f, k)
  /\ \A i \in executable : i >= k => /\ f[i].status = "not_executed"
                                     /\ f[i].failure = "package_identity_changed"

Ended(f) == (Clean(f) /\ Len(f) = requests) \/ \E k \in executable : FailedAt(f, k)

Extends(s, t) == Len(s) <= Len(t) /\ \A i \in 1 .. Len(s) : t[i] = s[i]

Runs(p) ==
  /\ pc[p] \in FreshPc => found[p] = << >> /\ opened[p] = None /\ ~broken[p]
  /\ pc[p] \in LoopPc => Clean(found[p]) /\ ~broken[p]
  /\ pc[p] \in RunPc \ {"open"} => opened[p] \in Version
  /\ pc[p] = "surface" => AtRequest(p) \in executable
  /\ pc[p] = "final" => Ended(found[p])
  /\ pc[p] = "commit" => Ended(found[p]) \/ (broken[p] /\ \E k \in executable : ChangedAt(found[p], k))
  /\ pc[p] \in RunPc => /\ row # None /\ row.status = "running" /\ row.pkg = pkg[p]
                        /\ Extends(row.outcomes, found[p])
  /\ pc[p] = "prepare" => row # None

OneRunner == \A p, q \in Proc : pc[p] \in RunPc /\ pc[q] \in RunPc => p = q

RunningIsClean == row # None /\ row.status = "running" => Clean(row.outcomes) /\ ~row.broken

ReqInv == TypeOK /\ OneRunner /\ RunningIsClean /\ ReaderTakesWriter /\ \A p \in Proc : Runs(p)

-------------------------------------------------------------------------------
(* What the loop appends where it stops: one outcome per request left.     *)
LEMMA RestTyped ==
  ASSUME TypeOK, NEW k \in 0 .. requests, NEW failure \in Failure, NEW after \in 0 .. MaxRequests
  PROVE  /\ Rest(k, failure, after) \in Seq(Outcome)
         /\ Len(Rest(k, failure, after)) = requests - k
         /\ \A i \in 1 .. requests - k :
              Rest(k, failure, after)[i] =
                IF k + i \notin executable THEN Rejected
                ELSE [status |-> "not_executed", failure |-> failure, after |-> after, result |-> None]
<1> DEFINE rest == Rest(k, failure, after)  n == requests - k
           skipped == [status |-> "not_executed", failure |-> failure, after |-> after, result |-> None]
<1>1. requests \in Nat /\ n \in Nat
  BY RequestAssumption DEF TypeOK
<1>2. skipped \in Outcome /\ Rejected \in Outcome
  BY RequestAssumption DEF Outcome, Rejected, Failure
<1>3. rest = [i \in 1 .. n |-> IF k + i \notin executable THEN Rejected ELSE skipped]
  BY DEF Rest
<1> HIDE DEF rest, n, skipped
<1>4. rest \in [1 .. n -> Outcome]
  BY <1>2, <1>3
<1>5. rest \in Seq(Outcome) /\ Len(rest) = n
  BY <1>1, <1>4
<1> QED
  BY <1>3, <1>5 DEF rest, n, skipped

LEMMA Concatenated ==
  ASSUME NEW S, NEW s \in Seq(S), NEW t \in Seq(S)
  PROVE  /\ s \o t \in Seq(S) /\ Len(s \o t) = Len(s) + Len(t)
         /\ \A i \in 1 .. Len(s) : (s \o t)[i] = s[i]
         /\ \A i \in 1 .. Len(t) : (s \o t)[Len(s) + i] = t[i]
OBVIOUS

LEMMA Appended ==
  ASSUME NEW S, NEW s \in Seq(S), NEW x \in S
  PROVE  /\ Append(s, x) \in Seq(S) /\ Len(Append(s, x)) = Len(s) + 1
         /\ \A i \in 1 .. Len(s) : Append(s, x)[i] = s[i]
         /\ Append(s, x)[Len(s) + 1] = x
OBVIOUS

(* A clean prefix and what is put behind it.                               *)
LEMMA CleanAppends ==
  ASSUME TypeOK, NEW f \in Seq(Outcome), Clean(f), Len(f) < requests, NEW x \in Outcome,
         Len(f) + 1 \in executable => x.status = "succeeded",
         Len(f) + 1 \notin executable => x = Rejected
  PROVE  Append(f, x) \in Seq(Outcome) /\ Clean(Append(f, x)) /\ Extends(f, Append(f, x))
<1>1. Len(f) \in Nat /\ requests \in Nat
  BY RequestAssumption DEF TypeOK
<1> DEFINE g == Append(f, x)
<1>2. /\ g \in Seq(Outcome) /\ Len(g) = Len(f) + 1 /\ g[Len(f) + 1] = x
      /\ \A i \in 1 .. Len(f) : g[i] = f[i]
  BY Appended
<1> HIDE DEF g
<1>3. ASSUME NEW i \in 1 .. Len(g)
      PROVE  /\ i \in executable => g[i].status = "succeeded"
             /\ i \notin executable => g[i] = Rejected
  <2>1. CASE i \in 1 .. Len(f)
    BY <1>2, <2>1 DEF Clean
  <2>2. CASE i = Len(f) + 1
    BY <1>2, <2>2
  <2> QED
    BY <1>1, <1>2, <2>1, <2>2
<1>4. Clean(g) /\ Extends(f, g)
  BY <1>1, <1>2, <1>3 DEF Clean, Extends
<1> QED
  BY <1>2, <1>4 DEF g

(* The loop stopped by a failed request, and by a changed package.         *)
LEMMA FailureEnds ==
  ASSUME TypeOK, NEW f \in Seq(Outcome), Clean(f), Len(f) + 1 \in executable, NEW x \in Outcome,
         x.status = "failed", x.failure = "surface_error"
  PROVE  LET k == Len(f) + 1
             g == Append(f, x) \o Rest(k, "prior_request_failed", k)
         IN  g \in Seq(Outcome) /\ FailedAt(g, k) /\ Extends(f, g)
<1> DEFINE k == Len(f) + 1
           h == Append(f, x)
           rest == Rest(k, "prior_request_failed", k)
           g == h \o rest
<1>1. Len(f) \in Nat /\ requests \in Nat /\ k \in 1 .. requests /\ k \in 0 .. MaxRequests
      /\ executable \subseteq 1 .. requests /\ k \in 0 .. requests /\ "prior_request_failed" \in Failure
  BY RequestAssumption DEF TypeOK, Failure
<1>2. h \in Seq(Outcome) /\ Len(h) = k /\ h[k] = x /\ \A i \in 1 .. Len(f) : h[i] = f[i]
  BY Appended
<1>3. /\ rest \in Seq(Outcome) /\ Len(rest) = requests - k
      /\ \A i \in 1 .. requests - k :
           rest[i] = IF k + i \notin executable THEN Rejected
                     ELSE [status |-> "not_executed", failure |-> "prior_request_failed",
                           after |-> k, result |-> None]
  <2> HIDE DEF k
  <2> QED
    BY <1>1, RestTyped
<1>4. /\ g \in Seq(Outcome) /\ Len(g) = Len(h) + Len(rest)
      /\ \A i \in 1 .. Len(h) : g[i] = h[i]
      /\ \A i \in 1 .. Len(rest) : g[Len(h) + i] = rest[i]
  BY <1>2, <1>3, Concatenated
<1> HIDE DEF g, h, rest
<1>5. Len(g) = requests /\ g[k] = x /\ \A i \in 1 .. Len(f) : g[i] = f[i]
  BY <1>1, <1>2, <1>3, <1>4
<1>6. ASSUME NEW i \in 1 .. requests, i > k
      PROVE  g[i] = IF i \notin executable THEN Rejected
                    ELSE [status |-> "not_executed", failure |-> "prior_request_failed",
                          after |-> k, result |-> None]
  <2>1. i - k \in 1 .. requests - k /\ i = k + (i - k)
    BY <1>1, <1>6
  <2>2. g[k + (i - k)] = rest[i - k]
    BY <1>2, <1>3, <1>4, <2>1
  <2> QED
    BY <1>3, <2>1, <2>2
<1>7. \A i \in 1 .. requests : /\ i \notin executable => g[i] = Rejected
                               /\ i \in executable /\ i < k => g[i].status = "succeeded"
  <2> SUFFICES ASSUME NEW i \in 1 .. requests
               PROVE  /\ i \notin executable => g[i] = Rejected
                      /\ i \in executable /\ i < k => g[i].status = "succeeded"
    OBVIOUS
  <2>1. CASE i < k
    BY <1>1, <1>5, <2>1 DEF Clean
  <2>2. CASE i = k
    BY <1>1, <2>2
  <2>3. CASE i > k
    BY <1>1, <1>6, <2>3
  <2> QED
    BY <1>1, <2>1, <2>2, <2>3
<1>8. FailedAt(g, k)
  <2>1. ASSUME NEW i \in executable, i > k
        PROVE  /\ g[i].status = "not_executed" /\ g[i].failure = "prior_request_failed"
               /\ g[i].after = k
    <3>1. i \in 1 .. requests /\ i > k
      BY <1>1, <2>1
    <3>2. g[i] = [status |-> "not_executed", failure |-> "prior_request_failed",
                  after |-> k, result |-> None]
      BY <1>6, <2>1, <3>1
    <3> QED
      BY <3>2
  <2>2. g[k].status = "failed" /\ g[k].failure = "surface_error"
    BY <1>5
  <2>3. StoppedAt(g, k)
    BY <1>5, <1>7 DEF StoppedAt
  <2> QED
    BY <2>1, <2>2, <2>3 DEF FailedAt
<1>9. Extends(f, g)
  BY <1>1, <1>5 DEF Extends
<1> QED
  BY <1>4, <1>8, <1>9 DEF g, h, rest

LEMMA ChangeEnds ==
  ASSUME TypeOK, NEW f \in Seq(Outcome), Clean(f), Len(f) + 1 \in executable
  PROVE  LET g == f \o Rest(Len(f), "package_identity_changed", 0)
         IN  g \in Seq(Outcome) /\ ChangedAt(g, Len(f) + 1) /\ Extends(f, g)
<1> DEFINE n == Len(f)
           rest == Rest(n, "package_identity_changed", 0)
           g == f \o rest
<1>1. n \in Nat /\ requests \in Nat /\ n + 1 \in 1 .. requests /\ n \in 0 .. requests
      /\ 0 \in 0 .. MaxRequests /\ executable \subseteq 1 .. requests
  BY RequestAssumption DEF TypeOK
<1>2. /\ rest \in Seq(Outcome) /\ Len(rest) = requests - n
      /\ \A i \in 1 .. requests - n :
           rest[i] = IF n + i \notin executable THEN Rejected
                     ELSE [status |-> "not_executed", failure |-> "package_identity_changed",
                           after |-> 0, result |-> None]
  BY <1>1, RestTyped DEF Failure
<1>3. /\ g \in Seq(Outcome) /\ Len(g) = n + Len(rest)
      /\ \A i \in 1 .. n : g[i] = f[i]
      /\ \A i \in 1 .. Len(rest) : g[n + i] = rest[i]
  BY <1>2, Concatenated
<1> HIDE DEF g, rest
<1>4. ASSUME NEW i \in 1 .. requests, i > n
      PROVE  g[i] = IF i \notin executable THEN Rejected
                    ELSE [status |-> "not_executed", failure |-> "package_identity_changed",
                          after |-> 0, result |-> None]
  <2>1. i - n \in 1 .. requests - n /\ i = n + (i - n)
    BY <1>1, <1>4
  <2>2. g[n + (i - n)] = rest[i - n]
    BY <1>2, <1>3, <2>1
  <2> QED
    BY <1>2, <2>1, <2>2
<1>5. \A i \in 1 .. requests : /\ i \notin executable => g[i] = Rejected
                               /\ i \in executable /\ i < n + 1 => g[i].status = "succeeded"
  <2> SUFFICES ASSUME NEW i \in 1 .. requests
               PROVE  /\ i \notin executable => g[i] = Rejected
                      /\ i \in executable /\ i < n + 1 => g[i].status = "succeeded"
    OBVIOUS
  <2>1. CASE i <= n
    BY <1>1, <1>3, <2>1 DEF Clean
  <2>2. CASE i > n
    BY <1>1, <1>4, <2>2
  <2> QED
    BY <1>1, <2>1, <2>2
<1>6. Len(g) = requests
  BY <1>1, <1>2, <1>3
<1>7. ChangedAt(g, n + 1)
  <2>1. ASSUME NEW i \in executable, i >= n + 1
        PROVE  g[i].status = "not_executed" /\ g[i].failure = "package_identity_changed"
    <3>1. i \in 1 .. requests /\ i > n
      BY <1>1, <2>1
    <3>2. g[i] = [status |-> "not_executed", failure |-> "package_identity_changed",
                  after |-> 0, result |-> None]
      BY <1>4, <2>1, <3>1
    <3> QED
      BY <3>2
  <2>2. StoppedAt(g, n + 1)
    BY <1>5, <1>6 DEF StoppedAt
  <2> QED
    BY <2>1, <2>2 DEF ChangedAt
<1>8. Extends(f, g)
  BY <1>1, <1>2, <1>3, <1>6 DEF Extends
<1> QED
  BY <1>3, <1>7, <1>8 DEF g, rest

-------------------------------------------------------------------------------
(* What the reader asks of a row holds of each of the four ways the loop   *)
(* can end.                                                                *)
LEMMA CleanReads ==
  ASSUME TypeOK, NEW f \in Seq(Outcome), Clean(f)
  PROVE  Dispositions(f) /\ AllSucceed(f) /\ ~AnyFailed(f)
<1>1. Len(f) \in Nat /\ executable \subseteq 1 .. requests /\ requests \in Nat
  BY RequestAssumption DEF TypeOK
<1>2. \A i \in 1 .. Len(f) : f[i].status = "succeeded" => f[i] # Rejected
  BY DEF Rejected
<1>3. Dispositions(f)
  <2>1. \A i \in 1 .. Len(f) : (i \in executable) <=> (f[i] # Rejected)
    BY <1>2 DEF Clean
  <2> QED
    BY <2>1 DEF Dispositions, Clean
<1>4. AllSucceed(f)
  <2> SUFFICES ASSUME NEW i \in executable, i <= Len(f) PROVE f[i].status = "succeeded"
    BY DEF AllSucceed
  <2>1. i \in 1 .. Len(f)
    BY <1>1
  <2> QED
    BY <2>1 DEF Clean
<1>5. ~AnyFailed(f)
  BY <1>1 DEF AnyFailed, Clean, Rejected
<1> QED
  BY <1>3, <1>4, <1>5

LEMMA StoppedReads ==
  ASSUME TypeOK, NEW f \in Seq(Outcome), NEW k \in executable, StoppedAt(f, k),
         \A i \in executable : i >= k => f[i].status # "succeeded" /\ f[i].failure # "conformance_rejected"
  PROVE  Dispositions(f)
<1>1. Len(f) = requests /\ executable \subseteq 1 .. requests /\ requests \in Nat
  BY RequestAssumption DEF TypeOK, StoppedAt
<1>2. \A i \in 1 .. requests : (i \in executable) <=> (f[i] # Rejected)
  <2> SUFFICES ASSUME NEW i \in 1 .. requests PROVE (i \in executable) <=> (f[i] # Rejected)
    OBVIOUS
  <2>1. i \in executable /\ i < k => f[i].status = "succeeded"
    BY DEF StoppedAt
  <2>2. Rejected.status = "not_executed" /\ Rejected.failure = "conformance_rejected"
    BY DEF Rejected
  <2>3. i \in executable => f[i] # Rejected
    BY <1>1, <2>1, <2>2
  <2>4. i \notin executable => f[i] = Rejected
    BY DEF StoppedAt
  <2> QED
    BY <2>3, <2>4
<1> QED
  BY <1>1, <1>2 DEF Dispositions

LEMMA FailedReads ==
  ASSUME TypeOK, NEW f \in Seq(Outcome), NEW k \in executable, FailedAt(f, k)
  PROVE  /\ Dispositions(f) /\ Len(f) = requests /\ FailFast(f, k)
         /\ {i \in 1 .. Len(f) : f[i].status = "failed"} = {k}
<1>1. Len(f) = requests /\ executable \subseteq 1 .. requests /\ requests \in Nat
  BY RequestAssumption DEF TypeOK, FailedAt, StoppedAt
<1>2. /\ \A i \in 1 .. requests : /\ i \notin executable => f[i] = Rejected
                                  /\ i \in executable /\ i < k => f[i].status = "succeeded"
      /\ f[k].status = "failed" /\ f[k].failure = "surface_error"
      /\ \A i \in executable : i > k => /\ f[i].status = "not_executed"
                                        /\ f[i].failure = "prior_request_failed" /\ f[i].after = k
  BY DEF FailedAt, StoppedAt
<1>3. \A i \in executable : i >= k => f[i].status # "succeeded" /\ f[i].failure # "conformance_rejected"
  BY <1>1, <1>2
<1>4. Dispositions(f)
  BY <1>3, StoppedReads DEF FailedAt
<1>5. FailFast(f, k)
  BY <1>1, <1>2 DEF FailFast
<1>6. ASSUME NEW i \in 1 .. Len(f) PROVE f[i].status = "failed" <=> i = k
  <2>1. i \notin executable => f[i].status = "not_executed" /\ i # k
    BY <1>1, <1>2 DEF Rejected
  <2> QED
    BY <1>1, <1>2, <2>1
<1>7. {i \in 1 .. Len(f) : f[i].status = "failed"} = {k}
  BY <1>1, <1>6
<1> QED
  BY <1>1, <1>4, <1>5, <1>7

LEMMA ChangedReads ==
  ASSUME TypeOK, NEW f \in Seq(Outcome), NEW k \in executable, ChangedAt(f, k)
  PROVE  /\ Dispositions(f) /\ Len(f) = requests /\ PackageBoundary(f, k)
         /\ ~AnyFailed(f)
<1>1. Len(f) = requests /\ executable \subseteq 1 .. requests /\ requests \in Nat
  BY RequestAssumption DEF TypeOK, ChangedAt, StoppedAt
<1>2. /\ \A i \in 1 .. requests : /\ i \notin executable => f[i] = Rejected
                                  /\ i \in executable /\ i < k => f[i].status = "succeeded"
      /\ \A i \in executable : i >= k => /\ f[i].status = "not_executed"
                                         /\ f[i].failure = "package_identity_changed"
  BY DEF ChangedAt, StoppedAt
<1>3. Dispositions(f)
  BY <1>2, StoppedReads DEF ChangedAt
<1>4. PackageBoundary(f, k)
  BY <1>1, <1>2 DEF PackageBoundary
<1>5. ASSUME NEW i \in 1 .. Len(f) PROVE f[i].status # "failed"
  <2>1. i \notin executable => f[i].status = "not_executed"
    BY <1>1, <1>2 DEF Rejected
  <2> QED
    BY <1>1, <1>2, <2>1
<1> QED
  BY <1>1, <1>3, <1>4, <1>5 DEF AnyFailed

ResultOf(r) ==
  IF r.broken \/ AnyFailed(r.outcomes) THEN "failed"
  ELSE IF executable # 1 .. requests THEN "partial" ELSE "succeeded"

LEMMA CommittedReads ==
  ASSUME TypeOK, NEW r \in Row, r.status = ResultOf(r),
         Ended(r.outcomes) \/ (r.broken /\ \E k \in executable : ChangedAt(r.outcomes, k))
  PROVE  ReadsBack(r) \/ (r.broken /\ AnyFailed(r.outcomes))
<1> DEFINE f == r.outcomes
           failed == {i \in 1 .. Len(f) : f[i].status = "failed"}
<1>1. f \in Seq(Outcome) /\ r.broken \in BOOLEAN
  BY DEF Row
<1>2. executable \subseteq 1 .. requests
  BY DEF TypeOK
<1>3. CASE Clean(f) /\ Len(f) = requests
  <2>1. Dispositions(f) /\ AllSucceed(f) /\ ~AnyFailed(f)
    BY <1>1, <1>3, CleanReads
  <2>2. failed = {}
    BY <2>1 DEF AnyFailed
  <2>3. r.status = IF r.broken THEN "failed" ELSE IF executable # 1 .. requests THEN "partial"
                                                                             ELSE "succeeded"
    BY <2>1 DEF ResultOf
  <2> QED
    BY <1>1, <1>3, <2>1, <2>2, <2>3 DEF ReadsBack
<1>4. ASSUME NEW k \in executable, FailedAt(f, k) PROVE ReadsBack(r) \/ (r.broken /\ AnyFailed(f))
  <2>1. f[k].status = "failed" /\ k \in 1 .. Len(f)
    BY <1>2, <1>4 DEF FailedAt, StoppedAt
  <2>2. Dispositions(f) /\ Len(f) = requests /\ FailFast(f, k) /\ failed = {k}
    BY <1>1, <1>4, FailedReads
  <2>3. AnyFailed(f) /\ r.status = "failed"
    BY <2>1 DEF AnyFailed, ResultOf
  <2>4. k \in 1 .. requests
    BY <1>2
  <2> QED
    BY <1>1, <2>2, <2>3, <2>4 DEF ReadsBack
<1>5. ASSUME r.broken, NEW k \in executable, ChangedAt(f, k) PROVE ReadsBack(r)
  <2>1. Dispositions(f) /\ Len(f) = requests /\ PackageBoundary(f, k) /\ ~AnyFailed(f)
    BY <1>1, <1>5, ChangedReads
  <2>2. failed = {} /\ r.status = "failed"
    BY <1>5, <2>1 DEF AnyFailed, ResultOf
  <2> QED
    BY <1>1, <1>5, <2>1, <2>2 DEF ReadsBack
<1> QED
  BY <1>3, <1>4, <1>5 DEF Ended

-------------------------------------------------------------------------------
(* A step of p leaves the locals of the others alone.                      *)
LocalsOnly(p) ==
  \A q \in Proc \ {p} : /\ pc'[q] = pc[q] /\ pkg'[q] = pkg[q] /\ opened'[q] = opened[q]
                        /\ found'[q] = found[q] /\ broken'[q] = broken[q]

LEMMA OthersRun ==
  ASSUME ReqInv, NEW p \in Proc, LocalsOnly(p), UNCHANGED <<requests, executable>>,
         row' = row \/ pc[p] \in RunPc \/ row = None,
         row' = row \/ row' # None,
         pc'[p] \in RunPc => pc[p] \in RunPc \/ row = None
  PROVE  OneRunner' /\ \A q \in Proc \ {p} : Runs(q)'
<1>1. \A q \in Proc : pc[q] \in RunPc => row # None
  BY DEF ReqInv, Runs
<1>2. OneRunner'
  BY <1>1 DEF ReqInv, OneRunner, LocalsOnly
<1>3. ASSUME NEW q \in Proc \ {p} PROVE Runs(q)'
  <2>1. /\ pc'[q] = pc[q] /\ pkg'[q] = pkg[q] /\ opened'[q] = opened[q]
        /\ found'[q] = found[q] /\ broken'[q] = broken[q] /\ Runs(q)
    BY DEF LocalsOnly, ReqInv
  <2>2. CASE pc[q] \in RunPc
    <3>1. row' = row
      BY <1>1, <2>2 DEF ReqInv, OneRunner
    <3> QED
      BY <2>1, <3>1 DEF Runs, Clean, Ended, FailedAt, StoppedAt, ChangedAt, Extends, AtRequest, Rejected
  <2>3. CASE pc[q] \notin RunPc
    BY <2>1, <2>3 DEF Runs, RunPc, LoopPc, FreshPc
  <2> QED
    BY <2>2, <2>3
<1> QED
  BY <1>2, <1>3

(* What is asked of the row holds of the same row.                         *)
LEMMA RowKept ==
  ASSUME ReqInv, UNCHANGED <<requests, executable, row>>
  PROVE  RunningIsClean' /\ ReaderTakesWriter'
<1>1. RunningIsClean'
  BY DEF ReqInv, RunningIsClean, Clean, Rejected
<1>2. ReaderTakesWriter'
  BY DEF ReqInv, ReaderTakesWriter, ReadsBack, Dispositions, AllSucceed, FailFast, PackageBoundary,
         AnyFailed, Rejected
<1> QED
  BY <1>1, <1>2

LEMMA QuietInv ==
  ASSUME ReqInv, NEW p \in Proc, NEW label \in Pc \ (RunPc \cup {"prepare"}), Goto(p, label),
         label \in FreshPc => pc[p] \in FreshPc,
         UNCHANGED <<requests, executable, disk, gone, row, pkg, opened, found, broken>>
  PROVE  ReqInv'
<1>1. pc'[p] = label /\ TypeOK' /\ LocalsOnly(p)
  BY DEF Goto, ReqInv, TypeOK, LocalsOnly
<1>2. Runs(p)'
  BY <1>1 DEF ReqInv, Runs, RunPc, LoopPc, FreshPc
<1> QED
  BY <1>1, <1>2, OthersRun, RowKept DEF ReqInv

LEMMA RunnerInv ==
  ASSUME ReqInv, NEW p \in Proc, pc[p] \in RunPc, LocalsOnly(p), TypeOK', Runs(p)',
         UNCHANGED <<requests, executable, row>>
  PROVE  ReqInv'
BY OthersRun, RowKept DEF ReqInv

(* What a runner knows.                                                    *)
LEMMA RunnerKnows ==
  ASSUME ReqInv, NEW p \in Proc, pc[p] \in RunPc
  PROVE  /\ TypeOK /\ Runs(p) /\ row \in Row /\ row.status = "running"
         /\ found[p] \in Seq(Outcome) /\ Len(found[p]) \in Nat /\ Len(found[p]) <= requests
         /\ requests \in Nat /\ executable \subseteq 1 .. requests
         /\ row.outcomes \in Seq(Outcome) /\ Extends(row.outcomes, found[p])
<1>1. TypeOK /\ Runs(p)
  BY DEF ReqInv
<1>2. row \in Row /\ row.status = "running" /\ Extends(row.outcomes, found[p])
  BY <1>1 DEF TypeOK, Runs
<1>3. found[p] \in Seq(Outcome)
  BY <1>1 DEF TypeOK
<1> QED
  BY <1>1, <1>2, <1>3, RequestAssumption DEF TypeOK, Row

LEMMA OpensInv == ASSUME ReqInv, NEW p \in Proc, Opens(p) PROVE ReqInv'
<1>1. pc[p] = "open" /\ pc[p] \in RunPc /\ Runs(p) /\ TypeOK
  BY DEF Opens, RunPc, ReqInv
<1>2. /\ pc'[p] = "request" /\ opened'[p] = disk /\ found'[p] = found[p] /\ broken'[p] = broken[p]
      /\ pkg'[p] = pkg[p] /\ LocalsOnly(p) /\ TypeOK'
  BY <1>1 DEF Opens, Goto, TypeOK, Untouched, LocalsOnly, Pc
<1>3. Runs(p)'
  BY <1>1, <1>2 DEF Runs, RunPc, LoopPc, FreshPc, Opens, Untouched, Clean, Rejected, Extends, TypeOK
<1> QED
  BY <1>1, <1>2, <1>3, RunnerInv DEF Opens, Untouched

LEMMA SkipsInv == ASSUME ReqInv, NEW p \in Proc, Skips(p) PROVE ReqInv'
<1>1. pc[p] = "request" /\ pc[p] \in RunPc
  BY DEF Skips, RunPc
<1>2. /\ TypeOK /\ Runs(p) /\ found[p] \in Seq(Outcome) /\ Len(found[p]) \in Nat /\ requests \in Nat
      /\ Len(found[p]) + 1 \in 1 .. requests /\ Len(found[p]) + 1 \notin executable
  BY <1>1, RunnerKnows DEF Skips, AtRequest
<1>3. Rejected \in Outcome
  BY RequestAssumption DEF Rejected, Outcome, Failure
<1> DEFINE g == Append(found[p], Rejected)
<1>4. g \in Seq(Outcome) /\ Clean(g) /\ Extends(found[p], g)
  BY <1>1, <1>2, <1>3, CleanAppends DEF Runs, LoopPc, FreshPc
<1> HIDE DEF g
<1>5. found' = [found EXCEPT ![p] = g]
  BY DEF Skips, g
<1>6. /\ found'[p] = g /\ pc'[p] = "request" /\ opened'[p] = opened[p] /\ broken'[p] = broken[p]
      /\ pkg'[p] = pkg[p] /\ LocalsOnly(p) /\ TypeOK'
  BY <1>1, <1>2, <1>4, <1>5 DEF Skips, Untouched, LocalsOnly, TypeOK, Clean
<1>7. Extends(row.outcomes, g)
  BY <1>1, <1>4, RunnerKnows DEF Extends, Runs
<1>8. Runs(p)'
  BY <1>1, <1>2, <1>4, <1>6, <1>7 DEF Runs, RunPc, LoopPc, FreshPc, Skips, Untouched, Clean, Rejected, Extends
<1> QED
  BY <1>1, <1>6, <1>8, RunnerInv DEF Skips, Untouched

LEMMA ChecksInv == ASSUME ReqInv, NEW p \in Proc, Checks(p) PROVE ReqInv'
<1>1. pc[p] = "request" /\ pc[p] \in RunPc /\ Runs(p) /\ TypeOK
  BY DEF Checks, RunPc, ReqInv
<1>2. pc'[p] = "surface" /\ TypeOK' /\ LocalsOnly(p)
  BY <1>1 DEF Checks, Goto, TypeOK, Untouched, LocalsOnly, Pc
<1>3. Runs(p)'
  BY <1>1, <1>2 DEF Runs, RunPc, LoopPc, FreshPc, Checks, Untouched, Clean, Rejected, Extends, AtRequest
<1> QED
  BY <1>1, <1>2, <1>3, RunnerInv DEF Checks, Untouched

LEMMA CheckFailsInv == ASSUME ReqInv, NEW p \in Proc, CheckFails(p) PROVE ReqInv'
<1>1. pc[p] = "request" /\ pc[p] \in RunPc
  BY DEF CheckFails, RunPc
<1>2. /\ TypeOK /\ Runs(p) /\ found[p] \in Seq(Outcome) /\ Len(found[p]) + 1 \in executable
      /\ Clean(found[p]) /\ requests \in Nat
  BY <1>1, RunnerKnows DEF CheckFails, AtRequest, Runs, LoopPc, FreshPc
<1> DEFINE g == found[p] \o Rest(Len(found[p]), "package_identity_changed", 0)
<1>3. g \in Seq(Outcome) /\ ChangedAt(g, Len(found[p]) + 1) /\ Extends(found[p], g)
  BY <1>2, ChangeEnds
<1> HIDE DEF g
<1>4. found' = [found EXCEPT ![p] = g]
  BY DEF CheckFails, g
<1>5. /\ found'[p] = g /\ pc'[p] = "commit" /\ broken'[p] = TRUE /\ pkg'[p] = pkg[p]
      /\ LocalsOnly(p) /\ Len(g) = requests
  BY <1>1, <1>2, <1>3, <1>4 DEF CheckFails, Goto, Untouched, LocalsOnly, TypeOK, ChangedAt, StoppedAt
<1>6. TypeOK'
  <2>1. found' \in [Proc -> Seq(Outcome)] /\ \A q \in Proc : Len(found'[q]) <= requests
    BY <1>2, <1>3, <1>4, <1>5 DEF TypeOK
  <2>2. pc' \in [Proc -> Pc] /\ broken' \in [Proc -> BOOLEAN]
    BY <1>2 DEF TypeOK, Pc, CheckFails, Goto
  <2> QED
    BY <1>2, <2>1, <2>2 DEF CheckFails, Untouched, TypeOK
<1>7. Extends(row.outcomes, g)
  BY <1>1, <1>3, RunnerKnows DEF Extends
<1>8. /\ requests' = requests /\ executable' = executable /\ row' = row
  BY DEF CheckFails, Untouched
<1>9. \E k \in executable : ChangedAt(found[p], k)'
  BY <1>2, <1>3, <1>5, <1>8 DEF ChangedAt, StoppedAt, Rejected
<1>10. opened'[p] \in Version
  BY <1>1, <1>2 DEF Runs, CheckFails, RunPc
<1>11. Runs(p)'
  <2>1. row # None /\ row.status = "running" /\ row.pkg = pkg[p]
    BY <1>1, <1>2 DEF Runs
  <2> QED
    BY <1>1, <1>2, <1>5, <1>7, <1>8, <1>9, <2>1, <1>10 DEF Runs, LoopPc, FreshPc, Extends
<1> QED
  BY <1>1, <1>5, <1>6, <1>8, <1>11, RunnerInv

LEMMA SurfaceSucceedsInv == ASSUME ReqInv, NEW p \in Proc, SurfaceSucceeds(p) PROVE ReqInv'
<1>1. pc[p] = "surface" /\ pc[p] \in RunPc
  BY DEF SurfaceSucceeds, RunPc
<1>2. /\ TypeOK /\ Runs(p) /\ found[p] \in Seq(Outcome) /\ Len(found[p]) \in Nat /\ requests \in Nat
      /\ Len(found[p]) + 1 \in executable /\ Clean(found[p]) /\ opened[p] \in Version
      /\ executable \subseteq 1 .. requests
  BY <1>1, RunnerKnows DEF AtRequest, Runs, LoopPc, FreshPc
<1>3. PICK v \in {opened[p], disk} :
        found' = [found EXCEPT ![p] = Append(@, [status |-> "succeeded", failure |-> "none",
                                                 after |-> 0, result |-> v])]
  BY DEF SurfaceSucceeds
<1> DEFINE x == [status |-> "succeeded", failure |-> "none", after |-> 0, result |-> v]
           g == Append(found[p], x)
<1>4. x \in Outcome /\ x.status = "succeeded"
  BY <1>2, RequestAssumption DEF Outcome, Failure, TypeOK
<1> HIDE DEF x
<1>5. g \in Seq(Outcome) /\ Clean(g) /\ Extends(found[p], g)
  BY <1>2, <1>4, CleanAppends
<1>6. found' = [found EXCEPT ![p] = g]
  BY <1>3 DEF x
<1> HIDE DEF g
<1>7. /\ found'[p] = g /\ pc'[p] = "progress" /\ opened'[p] = opened[p] /\ broken'[p] = broken[p]
      /\ pkg'[p] = pkg[p] /\ LocalsOnly(p) /\ TypeOK'
  BY <1>1, <1>2, <1>5, <1>6 DEF SurfaceSucceeds, Goto, Untouched, LocalsOnly, TypeOK, Clean, Pc
<1>8. Extends(row.outcomes, g)
  BY <1>1, <1>5, RunnerKnows DEF Extends
<1>9. Runs(p)'
  BY <1>1, <1>2, <1>5, <1>7, <1>8 DEF Runs, RunPc, LoopPc, FreshPc, SurfaceSucceeds, Untouched, Clean, Rejected, Extends
<1> QED
  BY <1>1, <1>7, <1>9, RunnerInv DEF SurfaceSucceeds, Untouched

LEMMA SurfaceFailsInv == ASSUME ReqInv, NEW p \in Proc, SurfaceFails(p) PROVE ReqInv'
<1>1. pc[p] = "surface" /\ pc[p] \in RunPc
  BY DEF SurfaceFails, RunPc
<1>2. /\ TypeOK /\ Runs(p) /\ found[p] \in Seq(Outcome) /\ Len(found[p]) + 1 \in executable
      /\ Clean(found[p]) /\ requests \in Nat
  BY <1>1, RunnerKnows DEF AtRequest, Runs, LoopPc, FreshPc
<1> DEFINE k == Len(found[p]) + 1
           x == [status |-> "failed", failure |-> "surface_error", after |-> 0, result |-> None]
           g == Append(found[p], x) \o Rest(k, "prior_request_failed", k)
<1>3. x \in Outcome /\ x.status = "failed" /\ x.failure = "surface_error"
  BY RequestAssumption DEF Outcome, Failure
<1> HIDE DEF x
<1>4. g \in Seq(Outcome) /\ FailedAt(g, k) /\ Extends(found[p], g)
  BY <1>2, <1>3, FailureEnds
<1>5. found' = [found EXCEPT ![p] = g]
  BY DEF SurfaceFails, x, AtRequest
<1> HIDE DEF g
<1>6. /\ found'[p] = g /\ pc'[p] = "final" /\ broken'[p] = broken[p] /\ pkg'[p] = pkg[p]
      /\ LocalsOnly(p) /\ Len(g) = requests
  BY <1>1, <1>2, <1>4, <1>5 DEF SurfaceFails, Goto, Untouched, LocalsOnly, TypeOK, FailedAt, StoppedAt
<1>7. TypeOK'
  <2>1. found' \in [Proc -> Seq(Outcome)] /\ \A q \in Proc : Len(found'[q]) <= requests
    BY <1>2, <1>4, <1>5, <1>6 DEF TypeOK
  <2>2. pc' \in [Proc -> Pc]
    BY <1>2 DEF TypeOK, Pc, SurfaceFails, Goto
  <2> QED
    BY <1>2, <2>1, <2>2 DEF SurfaceFails, Untouched, TypeOK
<1>8. Extends(row.outcomes, g)
  BY <1>1, <1>4, RunnerKnows DEF Extends
<1>9. requests' = requests /\ executable' = executable /\ row' = row
  BY DEF SurfaceFails, Untouched
<1>10. \E j \in executable : FailedAt(found[p], j)'
  BY <1>2, <1>4, <1>6, <1>9 DEF FailedAt, StoppedAt, Rejected
<1>11. opened'[p] \in Version
  BY <1>1, <1>2 DEF Runs, SurfaceFails, RunPc
<1>12. Runs(p)'
  <2>1. row # None /\ row.status = "running" /\ row.pkg = pkg[p]
    BY <1>1, <1>2 DEF Runs
  <2> QED
    BY <1>1, <1>2, <1>6, <1>8, <1>9, <1>10, <2>1, <1>11 DEF Runs, LoopPc, FreshPc, Extends, Ended
<1> QED
  BY <1>1, <1>6, <1>7, <1>9, <1>12, RunnerInv

LEMMA LoopEndsInv == ASSUME ReqInv, NEW p \in Proc, LoopEnds(p) PROVE ReqInv'
<1>1. pc[p] = "request" /\ pc[p] \in RunPc /\ Runs(p) /\ TypeOK
  BY DEF LoopEnds, RunPc, ReqInv
<1>2. pc'[p] = "final" /\ TypeOK' /\ LocalsOnly(p)
  BY <1>1 DEF LoopEnds, Goto, TypeOK, Untouched, LocalsOnly, Pc
<1>3. Runs(p)'
  BY <1>1, <1>2 DEF Runs, RunPc, LoopPc, FreshPc, LoopEnds, Untouched, Clean, Ended, Rejected, Extends
<1> QED
  BY <1>1, <1>2, <1>3, RunnerInv DEF LoopEnds, Untouched

LEMMA FinalCheckInv == ASSUME ReqInv, NEW p \in Proc, FinalCheck(p) PROVE ReqInv'
<1>1. pc[p] = "final" /\ pc[p] \in RunPc /\ Runs(p) /\ TypeOK
  BY DEF FinalCheck, RunPc, ReqInv
<1>2. pc'[p] = "commit" /\ LocalsOnly(p) /\ found' = found /\ pkg' = pkg
  BY <1>1 DEF FinalCheck, Goto, TypeOK, Untouched, LocalsOnly
<1>3. TypeOK'
  BY <1>1 DEF FinalCheck, Goto, TypeOK, Untouched, Pc, Same
<1>4. Ended(found[p])'
  BY <1>1, <1>2 DEF Runs, FinalCheck, Untouched, Ended, Clean, FailedAt, StoppedAt, Rejected
<1>5. Runs(p)'
  BY <1>1, <1>2, <1>4 DEF Runs, RunPc, LoopPc, FreshPc, FinalCheck, Untouched, Extends
<1> QED
  BY <1>1, <1>2, <1>3, <1>5, RunnerInv DEF FinalCheck, Untouched

(* The three writes of the row.                                            *)
LEMMA EmptyRow ==
  ASSUME NEW v \in Version, NEW s \in Seq(Outcome)
  PROVE  [pkg |-> v, status |-> "running", outcomes |-> s, broken |-> FALSE] \in Row
BY DEF Row

LEMMA ClaimsInv == ASSUME ReqInv, NEW p \in Proc, Claims(p) PROVE ReqInv'
<1> DEFINE r == [pkg |-> pkg[p], status |-> "running", outcomes |-> << >>, broken |-> FALSE]
<1>1. TypeOK /\ row = None /\ pc[p] = "claim" /\ row' = r
  BY DEF Claims, ReqInv
<1>2. << >> \in Seq(Outcome) /\ Len(<< >>) = 0 /\ requests \in Nat
  BY <1>1, RequestAssumption DEF TypeOK
<1>3. r \in Row /\ r # None
  <2>1. pkg[p] \in Version
    BY <1>1 DEF TypeOK
  <2>2. r \in Row
    BY <1>2, <2>1, EmptyRow
  <2> HIDE DEF r
  <2> QED
    BY <2>2, RequestAssumption
<1>4. /\ pc'[p] = "open" /\ found'[p] = found[p] /\ broken'[p] = broken[p] /\ pkg'[p] = pkg[p]
      /\ requests' = requests /\ executable' = executable /\ LocalsOnly(p) /\ TypeOK'
  BY <1>1, <1>2, <1>3 DEF Claims, Goto, Untouched, LocalsOnly, TypeOK, Pc
<1>5. found[p] = << >> /\ ~broken[p]
  BY <1>1 DEF ReqInv, Runs, FreshPc
<1> HIDE DEF r
<1>6. r.status = "running" /\ r.pkg = pkg[p] /\ r.outcomes = << >> /\ r.broken = FALSE
  BY DEF r
<1>7. Clean(<< >>)' /\ Extends(<< >>, << >>) /\ requests >= 0
  BY <1>2, <1>4 DEF Clean, Extends
<1>8. Runs(p)'
  BY <1>1, <1>3, <1>4, <1>5, <1>6, <1>7 DEF Runs, LoopPc, FreshPc, Clean, Extends
<1>9. RunningIsClean'
  BY <1>1, <1>6, <1>7 DEF RunningIsClean, Clean
<1>10. ReaderTakesWriter'
  <2>1. Dispositions(<< >>)' /\ AllSucceed(<< >>)'
    <3>1. Dispositions(<< >>) /\ AllSucceed(<< >>)
      <4>1. Clean(<< >>)
        BY <1>2 DEF Clean
      <4> QED
        BY <1>1, <1>2, <4>1, CleanReads
    <3> QED
      BY <1>4, <3>1 DEF Dispositions, AllSucceed, Rejected
  <2> QED
    BY <1>1, <1>6, <2>1 DEF ReaderTakesWriter, ReadsBack, Dispositions, AllSucceed
<1>11. OneRunner' /\ \A q \in Proc \ {p} : Runs(q)'
  BY <1>1, <1>4, OthersRun
<1> QED
  BY <1>4, <1>8, <1>9, <1>10, <1>11 DEF ReqInv

LEMMA SavesProgressInv == ASSUME ReqInv, NEW p \in Proc, SavesProgress(p) PROVE ReqInv'
<1> DEFINE r == [row EXCEPT !.outcomes = found[p]]
<1>1. pc[p] = "progress" /\ pc[p] \in RunPc
  BY DEF SavesProgress, RunPc
<1>2. /\ TypeOK /\ Runs(p) /\ row \in Row /\ row.status = "running" /\ found[p] \in Seq(Outcome)
      /\ Len(found[p]) \in Nat /\ Len(found[p]) <= requests /\ Clean(found[p])
  BY <1>1, RunnerKnows DEF Runs, LoopPc
<1>3. row' = r
  BY <1>2 DEF SavesProgress
<1>4. /\ r \in Row /\ r # None /\ r.status = "running" /\ r.pkg = row.pkg
      /\ r.outcomes = found[p] /\ r.broken = row.broken
  BY <1>2, RequestAssumption DEF Row
<1> HIDE DEF r
<1>5. row # None /\ ~row.broken /\ row.pkg = pkg[p] /\ ~broken[p] /\ opened[p] \in Version
  BY <1>1, <1>2 DEF ReqInv, RunningIsClean, Runs, RunPc, LoopPc
<1>6. /\ pc'[p] = "request" /\ found'[p] = found[p] /\ broken'[p] = broken[p] /\ pkg'[p] = pkg[p]
      /\ opened'[p] = opened[p] /\ requests' = requests /\ executable' = executable
      /\ LocalsOnly(p) /\ TypeOK'
  BY <1>2, <1>3, <1>4 DEF SavesProgress, Goto, Untouched, LocalsOnly, TypeOK, Pc
<1>7. Clean(found[p])'
  BY <1>2, <1>6 DEF Clean, Rejected
<1>8. Runs(p)'
  BY <1>2, <1>3, <1>4, <1>5, <1>6, <1>7 DEF Runs, LoopPc, FreshPc, Extends
<1>9. RunningIsClean'
  BY <1>3, <1>4, <1>5, <1>6, <1>7 DEF RunningIsClean, Clean
<1>10. ReaderTakesWriter'
  <2>1. Dispositions(found[p]) /\ AllSucceed(found[p])
    BY <1>2, CleanReads
  <2>2. ReadsBack(r)
    BY <1>4, <1>5, <2>1 DEF ReadsBack
  <2> QED
    BY <1>3, <1>6, <2>2 DEF ReaderTakesWriter, ReadsBack, Dispositions, AllSucceed, FailFast,
                            PackageBoundary, Rejected
<1>11. OneRunner' /\ \A q \in Proc \ {p} : Runs(q)'
  BY <1>1, <1>3, <1>4, <1>6, OthersRun
<1> QED
  BY <1>6, <1>8, <1>9, <1>10, <1>11 DEF ReqInv

LEMMA CommitsInv == ASSUME ReqInv, NEW p \in Proc, Commits(p) PROVE ReqInv'
<1> DEFINE r == [row EXCEPT !.status = Result(p), !.outcomes = found[p], !.broken = broken[p]]
<1>1. pc[p] = "commit" /\ pc[p] \in RunPc
  BY DEF Commits, RunPc
<1>2. /\ TypeOK /\ Runs(p) /\ row \in Row /\ found[p] \in Seq(Outcome)
      /\ Len(found[p]) <= requests /\ broken[p] \in BOOLEAN
  BY <1>1, RunnerKnows DEF TypeOK
<1>3. row' = r
  BY DEF Commits
<1>4. Result(p) \in {"failed", "partial", "succeeded"}
  BY DEF Result
<1>5. /\ r \in Row /\ r # None /\ r.status = Result(p) /\ r.outcomes = found[p] /\ r.broken = broken[p]
  BY <1>2, <1>4, RequestAssumption DEF Row
<1> HIDE DEF r
<1>6. r.status = ResultOf(r) /\ r.status # "running"
  BY <1>4, <1>5 DEF Result, ResultOf
<1>7. Ended(r.outcomes) \/ (r.broken /\ \E k \in executable : ChangedAt(r.outcomes, k))
  BY <1>1, <1>2, <1>5 DEF Runs
<1>8. ReadsBack(r) \/ (r.broken /\ AnyFailed(r.outcomes))
  BY <1>2, <1>5, <1>6, <1>7, CommittedReads
<1>9. pc'[p] \in {"prepare", "done"}
  BY <1>2 DEF Commits, Goto, TypeOK
<1>10. /\ found' = found /\ requests' = requests /\ executable' = executable /\ LocalsOnly(p)
       /\ pc'[p] \notin RunPc \cup FreshPc
  BY <1>2, <1>9 DEF Commits, Goto, Untouched, LocalsOnly, TypeOK, RunPc, FreshPc
<1>11. TypeOK'
  BY <1>2, <1>3, <1>5, <1>9 DEF Commits, Goto, Untouched, TypeOK, Pc
<1>12. Runs(p)'
  BY <1>3, <1>5, <1>10 DEF Runs, RunPc, LoopPc, FreshPc
<1>13. RunningIsClean'
  BY <1>3, <1>6 DEF RunningIsClean
<1>14. ReaderTakesWriter'
  BY <1>3, <1>8, <1>10 DEF ReaderTakesWriter, ReadsBack, Dispositions, AllSucceed, FailFast,
                           PackageBoundary, AnyFailed, Rejected
<1>15. OneRunner' /\ \A q \in Proc \ {p} : Runs(q)'
  BY <1>1, <1>3, <1>5, <1>10, OthersRun
<1> QED
  BY <1>11, <1>12, <1>13, <1>14, <1>15 DEF ReqInv

(* Another process's outcomes are taken over.                              *)
LEMMA ReplaysInv == ASSUME ReqInv, NEW p \in Proc, Replays(p) PROVE ReqInv'
<1>1. TypeOK /\ row \in Row
  BY DEF ReqInv, Replays, TypeOK
<1>2. row.outcomes \in Seq(Outcome) /\ Len(row.outcomes) <= requests
  BY <1>1 DEF Row, TypeOK, Replays
<1>3. pc'[p] = "prepare" /\ LocalsOnly(p) /\ UNCHANGED <<requests, executable, row>>
  BY <1>1 DEF Replays, Goto, Untouched, LocalsOnly, TypeOK
<1>4. TypeOK'
  BY <1>1, <1>2 DEF Replays, Goto, Untouched, TypeOK, Pc
<1>5. Runs(p)'
  BY <1>3 DEF Replays, Runs, RunPc, LoopPc, FreshPc
<1>6. OneRunner' /\ \A q \in Proc \ {p} : Runs(q)'
  BY <1>3, OthersRun DEF RunPc
<1> QED
  BY <1>3, <1>4, <1>5, <1>6, RowKept DEF ReqInv

LEMMA ReplacesInv == ASSUME ReqInv, NEW v \in Version, Replaces(v) PROVE ReqInv'
<1>1. TypeOK' /\ UNCHANGED <<requests, executable, row, pc, pkg, opened, found, broken>>
  BY DEF ReqInv, TypeOK, Replaces, locals
<1>2. OneRunner'
  BY <1>1 DEF ReqInv, OneRunner
<1>3. \A p \in Proc : Runs(p)'
  BY <1>1 DEF ReqInv, Runs, Clean, Ended, FailedAt, StoppedAt, ChangedAt, Extends, AtRequest, Rejected
<1> QED
  BY <1>1, <1>2, <1>3, RowKept DEF ReqInv

LEMMA StutterInv == ReqInv /\ UNCHANGED vars => ReqInv'
<1> SUFFICES ASSUME ReqInv, UNCHANGED vars PROVE ReqInv'
  OBVIOUS
<1>1. UNCHANGED <<requests, executable, disk, gone, row, pc, pkg, opened, found, broken>>
  BY DEF vars, locals
<1>2. TypeOK' /\ OneRunner'
  BY <1>1 DEF ReqInv, TypeOK, OneRunner
<1>3. \A p \in Proc : Runs(p)'
  BY <1>1 DEF ReqInv, Runs, Clean, Ended, FailedAt, StoppedAt, ChangedAt, Extends, AtRequest, Rejected
<1> QED
  BY <1>1, <1>2, <1>3, RowKept DEF ReqInv

LEMMA QuietSteps ==
  ASSUME ReqInv, NEW p \in Proc,
         \/ Admits(p) \/ Refused(p) \/ Blocked(p) \/ Misses(p) \/ FactoryFails(p) \/ Conflicts(p)
         \/ DerivesTopology(p) \/ HydratesNothing(p) \/ Hydrates(p) \/ EvidenceRefused(p)
         \/ Abandons(p)
  PROVE  ReqInv'
<1>1. \E label \in {"lookup", "claim", "done", "hydrate", "empty", "evidence"} :
        /\ Goto(p, label) /\ (label \in FreshPc => pc[p] \in FreshPc)
        /\ UNCHANGED <<requests, executable, disk, gone, row, pkg, opened, found, broken>>
  BY DEF Admits, Refused, Blocked, Misses, FactoryFails, Conflicts, DerivesTopology,
         HydratesNothing, Hydrates, EvidenceRefused, Abandons, Untouched, FreshPc
<1> QED
  BY <1>1, QuietInv DEF Pc, RunPc

LEMMA NextReq == ReqInv /\ [Next]_vars => ReqInv'
<1> SUFFICES ASSUME ReqInv, [Next]_vars PROVE ReqInv'
  OBVIOUS
<1>1. ASSUME NEW p \in Proc, Step(p) \/ Abandons(p) PROVE ReqInv'
  BY <1>1, QuietSteps, ReplaysInv, ClaimsInv, OpensInv, SkipsInv, ChecksInv, CheckFailsInv,
     SurfaceSucceedsInv, SurfaceFailsInv, SavesProgressInv, LoopEndsInv, FinalCheckInv, CommitsInv
     DEF Step
<1> QED
  BY <1>1, ReplacesInv, StutterInv DEF Next

LEMMA InitReq == Init => ReqInv
<1> SUFFICES ASSUME Init PROVE ReqInv
  OBVIOUS
<1>1. TypeOK
  BY RequestAssumption DEF Init, TypeOK, Pc
<1>2. OneRunner /\ \A p \in Proc : Runs(p)
  BY DEF Init, OneRunner, Runs, RunPc, LoopPc, FreshPc
<1> QED
  BY <1>1, <1>2 DEF ReqInv, Init, RunningIsClean, ReaderTakesWriter

(* The state is well formed for every number of processes, requests and    *)
(* contents of the build.                                                  *)
THEOREM RequestTypeCorrect == Spec => []TypeOK
<1>1. ReqInv => TypeOK
  BY DEF ReqInv
<1> QED
  BY <1>1, InitReq, NextReq, PTL DEF Spec

(* The strict reader accepts every row the writer leaves behind, at every  *)
(* moment of a run, in spite of crashes and replaced builds, but one that  *)
(* names a failed request and a changed package together.                  *)
THEOREM ReaderAlwaysTakesWriter == Spec => []ReaderTakesWriter
<1>1. ReqInv => ReaderTakesWriter
  BY DEF ReqInv
<1> QED
  BY <1>1, InitReq, NextReq, PTL DEF Spec

-------------------------------------------------------------------------------
(* A step writes the row by claiming it, or by extending its outcomes.     *)
LEMMA RowMoves ==
  ASSUME ReqInv, [Next]_vars
  PROVE  \/ row' = row
         \/ \E p \in Proc : Claims(p) \/ SavesProgress(p) \/ Commits(p)
BY DEF Next, Step, Replaces, Abandons, Admits, Refused, Replays, Blocked, Misses, FactoryFails,
       Conflicts, Opens, Skips, Checks, CheckFails, SurfaceSucceeds, SurfaceFails, LoopEnds,
       FinalCheck, DerivesTopology, HydratesNothing, Hydrates, EvidenceRefused, vars

LEMMA ExtensionIsPrefix ==
  ASSUME NEW s \in Seq(Outcome), NEW t \in Seq(Outcome), Extends(s, t)
  PROVE  Len(s) <= Len(t) /\ s = SubSeq(t, 1, Len(s))
<1>1. Len(s) \in Nat /\ Len(t) \in Nat /\ Len(s) <= Len(t) /\ \A i \in 1 .. Len(s) : t[i] = s[i]
  BY DEF Extends
<1> QED
  BY <1>1

(* An outcome, once persisted, is what every later reader finds, and a     *)
(* finished row is never written again.                                    *)
THEOREM OutcomesAlwaysGrow == Spec => OutcomesOnlyGrow
<1>1. ASSUME ReqInv, [Next]_vars, row # None
      PROVE  /\ row'.pkg = row.pkg
             /\ row.status # "running" => row' = row
             /\ Len(row.outcomes) <= Len(row'.outcomes)
             /\ row.outcomes = SubSeq(row'.outcomes, 1, Len(row.outcomes))
  <2>1. row \in Row /\ row.outcomes \in Seq(Outcome)
    BY <1>1 DEF ReqInv, TypeOK, Row
  <2>2. CASE row' = row
    <3>1. Extends(row.outcomes, row.outcomes)
      BY <2>1 DEF Extends
    <3> QED
      BY <2>1, <2>2, <3>1, ExtensionIsPrefix
  <2>3. ASSUME NEW p \in Proc, SavesProgress(p) \/ Commits(p)
        PROVE  /\ row'.pkg = row.pkg
               /\ row.status # "running" => row' = row
               /\ Len(row.outcomes) <= Len(row'.outcomes)
               /\ row.outcomes = SubSeq(row'.outcomes, 1, Len(row.outcomes))
    <3>1. pc[p] \in RunPc
      BY <2>3 DEF SavesProgress, Commits, RunPc
    <3>2. row.status = "running" /\ found[p] \in Seq(Outcome) /\ Extends(row.outcomes, found[p])
      BY <1>1, <3>1, RunnerKnows
    <3>3. row'.pkg = row.pkg /\ row'.outcomes = found[p]
      BY <2>1, <2>3, <3>2 DEF SavesProgress, Commits, Row
    <3> QED
      BY <2>1, <3>2, <3>3, ExtensionIsPrefix
  <2> QED
    BY <1>1, <2>2, <2>3, RowMoves DEF Claims
<1>2. ReqInv /\ [Next]_vars =>
        [row # None =>
           /\ row'.pkg = row.pkg
           /\ row.status # "running" => row' = row
           /\ Len(row.outcomes) <= Len(row'.outcomes)
           /\ row.outcomes = SubSeq(row'.outcomes, 1, Len(row.outcomes))]_vars
  BY <1>1
<1> QED
  BY <1>2, InitReq, NextReq, PTL DEF Spec, OutcomesOnlyGrow

-------------------------------------------------------------------------------
(* Where no replaced build comes back, a package that is still on disk was *)
(* there all the time: whatever was opened or read meanwhile came from it. *)
Fresh(p) ==
  /\ pkg[p] \in gone \cup {disk}
  /\ pkg[p] \notin gone => ReadFrom(found[p], pkg[p]) /\ opened[p] \in {None, pkg[p]}
  /\ pc[p] = "commit" /\ ~broken[p] => ReadFrom(found[p], pkg[p])
  /\ pc[p] = "evidence" => ReadFrom(found[p], pkg[p])

RowFresh ==
  row # None =>
    /\ row.pkg \notin gone => ReadFrom(row.outcomes, row.pkg)
    /\ row.status \in {"succeeded", "partial"} => ReadFrom(row.outcomes, row.pkg)

BuildInv == ReqInv /\ disk \notin gone /\ RowFresh /\ \A p \in Proc : Fresh(p)

(* g succeeds where f did, or with results of v.                           *)
Adds(f, g, v) ==
  \A i \in 1 .. Len(g) : g[i].status = "succeeded" =>
    (i \in 1 .. Len(f) /\ g[i] = f[i]) \/ g[i].result = v

LEMMA AddsReads ==
  ASSUME NEW f, NEW g, NEW v, ReadFrom(f, v), Adds(f, g, v)
  PROVE  ReadFrom(g, v)
BY DEF ReadFrom, Adds

LEMMA StoppedAdds ==
  ASSUME TypeOK, NEW f \in Seq(Outcome), NEW g \in Seq(Outcome), Extends(f, g),
         FailedAt(g, Len(f) + 1) \/ ChangedAt(g, Len(f) + 1), NEW v
  PROVE  Adds(f, g, v)
<1> DEFINE k == Len(f) + 1
<1>1. /\ Len(f) \in Nat /\ requests \in Nat /\ Len(g) = requests /\ executable \subseteq 1 .. requests
      /\ k \in executable
  BY RequestAssumption DEF TypeOK, FailedAt, ChangedAt, StoppedAt
<1>2. ASSUME NEW i \in 1 .. Len(g), i >= k PROVE g[i].status # "succeeded"
  <2>1. i \notin executable => g[i].status = "not_executed"
    BY <1>1 DEF FailedAt, ChangedAt, StoppedAt, Rejected
  <2>2. i \in executable => g[i].status \in {"failed", "not_executed"}
    BY <1>1, <1>2 DEF FailedAt, ChangedAt
  <2> QED
    BY <2>1, <2>2
<1>3. ASSUME NEW i \in 1 .. Len(g), i < k PROVE i \in 1 .. Len(f) /\ g[i] = f[i]
  BY <1>1, <1>3 DEF Extends
<1> QED
  BY <1>1, <1>2, <1>3 DEF Adds

LEMMA AppendAdds ==
  ASSUME NEW f \in Seq(Outcome), NEW x \in Outcome, NEW v, x.status = "succeeded" => x.result = v
  PROVE  Adds(f, Append(f, x), v)
<1>1. /\ Len(f) \in Nat /\ Len(Append(f, x)) = Len(f) + 1 /\ Append(f, x)[Len(f) + 1] = x
      /\ \A i \in 1 .. Len(f) : Append(f, x)[i] = f[i]
  BY Appended
<1> QED
  BY <1>1 DEF Adds

(* What each step of the loop adds to what was found.                      *)
LEMMA FoundAdds ==
  ASSUME ReqInv, NEW p \in Proc, Skips(p) \/ CheckFails(p) \/ SurfaceFails(p), NEW v
  PROVE  Adds(found[p], found'[p], v)
<1>1. pc[p] \in RunPc /\ pc[p] \in LoopPc
  BY DEF Skips, CheckFails, SurfaceFails, RunPc, LoopPc
<1>2. TypeOK /\ found[p] \in Seq(Outcome) /\ Clean(found[p]) /\ found \in [Proc -> Seq(Outcome)]
  BY <1>1, RunnerKnows DEF Runs, TypeOK
<1>3. CASE Skips(p)
  <2>1. Rejected \in Outcome /\ Rejected.status = "not_executed"
    BY RequestAssumption DEF Rejected, Outcome, Failure
  <2>2. found'[p] = Append(found[p], Rejected)
    BY <1>2, <1>3 DEF Skips
  <2> QED
    BY <1>2, <2>1, <2>2, AppendAdds
<1>4. CASE CheckFails(p)
  <2> DEFINE g == found[p] \o Rest(Len(found[p]), "package_identity_changed", 0)
  <2>1. Len(found[p]) + 1 \in executable /\ found'[p] = g
    BY <1>2, <1>4 DEF CheckFails, AtRequest
  <2>2. g \in Seq(Outcome) /\ ChangedAt(g, Len(found[p]) + 1) /\ Extends(found[p], g)
    BY <1>2, <2>1, ChangeEnds
  <2> HIDE DEF g
  <2> QED
    BY <1>2, <2>1, <2>2, StoppedAdds
<1>5. CASE SurfaceFails(p)
  <2> DEFINE k == Len(found[p]) + 1
             x == [status |-> "failed", failure |-> "surface_error", after |-> 0, result |-> None]
             g == Append(found[p], x) \o Rest(k, "prior_request_failed", k)
  <2>1. x \in Outcome /\ x.status = "failed" /\ x.failure = "surface_error"
    BY <1>2, RequestAssumption DEF Outcome, Failure
  <2>2. k \in executable /\ found'[p] = g
    BY <1>1, <1>2, <1>5, RunnerKnows DEF SurfaceFails, AtRequest, Runs
  <2> HIDE DEF x
  <2>3. g \in Seq(Outcome) /\ FailedAt(g, k) /\ Extends(found[p], g)
    BY <1>2, <2>1, <2>2, FailureEnds
  <2> HIDE DEF g
  <2> QED
    BY <1>2, <2>2, <2>3, StoppedAdds
<1> QED
  BY <1>3, <1>4, <1>5

LEMMA SuccessAdds ==
  ASSUME ReqInv, NEW p \in Proc, SurfaceSucceeds(p)
  PROVE  opened[p] \in Version /\ \E v \in {opened[p], disk} : Adds(found[p], found'[p], v)
<1>1. pc[p] = "surface" /\ pc[p] \in RunPc
  BY DEF SurfaceSucceeds, RunPc
<1>2. /\ TypeOK /\ found[p] \in Seq(Outcome) /\ found \in [Proc -> Seq(Outcome)]
      /\ opened[p] \in Version
  BY <1>1, RunnerKnows DEF Runs, TypeOK
<1>3. PICK v \in {opened[p], disk} :
        found' = [found EXCEPT ![p] = Append(@, [status |-> "succeeded", failure |-> "none",
                                                 after |-> 0, result |-> v])]
  BY DEF SurfaceSucceeds
<1> DEFINE x == [status |-> "succeeded", failure |-> "none", after |-> 0, result |-> v]
<1>4. x \in Outcome /\ x.result = v
  BY <1>2, RequestAssumption DEF Outcome, Failure, TypeOK
<1>5. found'[p] = Append(found[p], x)
  BY <1>2, <1>3
<1> HIDE DEF x
<1>6. Adds(found[p], found'[p], v)
  BY <1>2, <1>4, <1>5, AppendAdds
<1> QED
  BY <1>2, <1>6

LEMMA StepLocal ==
  ASSUME ReqInv, NEW p \in Proc, Step(p) \/ Abandons(p)
  PROVE  LocalsOnly(p) /\ UNCHANGED <<requests, executable, disk, gone, pkg>>
<1>1. TypeOK
  BY DEF ReqInv
<1>2. UNCHANGED <<requests, executable, disk, gone, pkg>>
  BY DEF Step, Abandons, Admits, Refused, Replays, Blocked, Misses, FactoryFails, Claims,
         Conflicts, Opens, Skips, Checks, CheckFails, SurfaceSucceeds, SurfaceFails, SavesProgress,
         LoopEnds, FinalCheck, Commits, DerivesTopology, HydratesNothing, Hydrates,
         EvidenceRefused, Untouched
<1>3. ASSUME NEW q \in Proc \ {p} PROVE pc'[q] = pc[q]
  BY <1>1 DEF Step, Abandons, Admits, Refused, Replays, Blocked, Misses, FactoryFails, Claims,
         Conflicts, Opens, Skips, Checks, CheckFails, SurfaceSucceeds, SurfaceFails, SavesProgress,
         LoopEnds, FinalCheck, Commits, DerivesTopology, HydratesNothing, Hydrates,
         EvidenceRefused, Untouched, Goto, TypeOK
<1>4. ASSUME NEW q \in Proc \ {p} PROVE opened'[q] = opened[q] /\ broken'[q] = broken[q]
  BY <1>1 DEF Step, Abandons, Admits, Refused, Replays, Blocked, Misses, FactoryFails, Claims,
         Conflicts, Opens, Skips, Checks, CheckFails, SurfaceSucceeds, SurfaceFails, SavesProgress,
         LoopEnds, FinalCheck, Commits, DerivesTopology, HydratesNothing, Hydrates,
         EvidenceRefused, TypeOK
<1>5. ASSUME NEW q \in Proc \ {p} PROVE found'[q] = found[q]
  BY <1>1 DEF Step, Abandons, Admits, Refused, Replays, Blocked, Misses, FactoryFails, Claims,
         Conflicts, Opens, Skips, Checks, CheckFails, SurfaceSucceeds, SurfaceFails, SavesProgress,
         LoopEnds, FinalCheck, Commits, DerivesTopology, HydratesNothing, Hydrates,
         EvidenceRefused, TypeOK
<1> QED
  BY <1>2, <1>3, <1>4, <1>5 DEF LocalsOnly

(* A process that finds and opens nothing keeps what it knows, unless it   *)
(* moves to where more is asked of it.                                     *)
LEMMA QuietFresh ==
  ASSUME BuildInv, NEW p \in Proc, UNCHANGED <<disk, gone, pkg>>,
         found'[p] = found[p], opened'[p] = opened[p], broken'[p] = broken[p] \/ pc'[p] # "commit",
         pc'[p] \in {"commit", "evidence"} => pc'[p] = pc[p]
  PROVE  Fresh(p)'
BY DEF BuildInv, Fresh, ReadFrom

LEMMA AddsFresh ==
  ASSUME BuildInv, NEW p \in Proc, UNCHANGED <<disk, gone, pkg, opened>>,
         pkg[p] \notin gone => Adds(found[p], found'[p], pkg[p]),
         pc'[p] # "evidence", pc'[p] = "commit" => broken'[p]
  PROVE  Fresh(p)'
<1>1. pkg[p] \notin gone => ReadFrom(found'[p], pkg[p])
  BY AddsReads DEF BuildInv, Fresh
<1> QED
  BY <1>1 DEF BuildInv, Fresh, ReadFrom

LEMMA StepFresh ==
  ASSUME BuildInv, NEW p \in Proc, Step(p) \/ Abandons(p)
  PROVE  Fresh(p)'
<1>1. ReqInv /\ TypeOK /\ UNCHANGED <<requests, executable, disk, gone, pkg>>
  BY StepLocal DEF BuildInv, ReqInv
<1>2. pkg[p] \notin gone => pkg[p] = disk
  BY DEF BuildInv, Fresh
<1>3. CASE \/ Admits(p) \/ Refused(p) \/ Blocked(p) \/ Misses(p) \/ FactoryFails(p)
           \/ Conflicts(p) \/ DerivesTopology(p) \/ HydratesNothing(p) \/ EvidenceRefused(p)
           \/ Abandons(p) \/ Checks(p) \/ LoopEnds(p) \/ SavesProgress(p) \/ Claims(p)
  <2>1. UNCHANGED <<found, opened, broken>> /\ \E label \in Pc \ {"commit", "evidence"} : Goto(p, label)
    BY <1>3 DEF Admits, Refused, Blocked, Misses, FactoryFails, Conflicts, DerivesTopology,
                HydratesNothing, EvidenceRefused, Abandons, Checks, LoopEnds, SavesProgress, Claims,
                Pc
  <2>2. pc'[p] \notin {"commit", "evidence"}
    BY <1>1, <2>1 DEF Goto, TypeOK
  <2> QED
    BY <1>1, <2>1, <2>2, QuietFresh
<1>4. CASE Commits(p)
  <2>1. UNCHANGED <<found, opened, broken>> /\ pc'[p] \in {"prepare", "done"}
    BY <1>1, <1>4 DEF Commits, Goto, TypeOK
  <2> QED
    BY <1>1, <2>1, QuietFresh
<1>5. CASE Hydrates(p)
  <2>1. UNCHANGED <<found, opened, broken>> /\ pc'[p] = "evidence" /\ disk = pkg[p]
    BY <1>1, <1>5 DEF Hydrates, Same, Goto, TypeOK
  <2> QED
    BY <1>1, <2>1 DEF BuildInv, Fresh, ReadFrom
<1>6. CASE FinalCheck(p)
  <2>1. UNCHANGED <<found, opened>> /\ pc'[p] = "commit" /\ (~broken'[p] => disk = pkg[p])
    BY <1>1, <1>6 DEF FinalCheck, Same, Goto, TypeOK
  <2> QED
    BY <1>1, <2>1 DEF BuildInv, Fresh, ReadFrom
<1>7. CASE Opens(p)
  <2>1. UNCHANGED found /\ opened'[p] = disk /\ pc'[p] = "request"
    BY <1>1, <1>7 DEF Opens, Goto, TypeOK
  <2> QED
    BY <1>1, <1>2, <2>1 DEF BuildInv, Fresh, ReadFrom
<1>8. CASE Skips(p) \/ CheckFails(p) \/ SurfaceFails(p)
  <2>1. UNCHANGED opened /\ pc'[p] # "evidence" /\ (pc'[p] = "commit" => broken'[p])
    BY <1>1, <1>8 DEF Skips, CheckFails, SurfaceFails, Goto, TypeOK
  <2>2. Adds(found[p], found'[p], pkg[p])
    BY <1>1, <1>8, FoundAdds
  <2> QED
    BY <1>1, <2>1, <2>2, AddsFresh
<1>9. CASE SurfaceSucceeds(p)
  <2>1. UNCHANGED opened /\ pc'[p] = "progress"
    BY <1>1, <1>9 DEF SurfaceSucceeds, Goto, TypeOK
  <2>2. opened[p] # None /\ \E v \in {opened[p], disk} : Adds(found[p], found'[p], v)
    BY <1>1, <1>9, SuccessAdds, RequestAssumption
  <2>3. pkg[p] \notin gone => opened[p] = pkg[p]
    BY <2>2 DEF BuildInv, Fresh
  <2>4. pkg[p] \notin gone => Adds(found[p], found'[p], pkg[p])
    BY <1>2, <2>2, <2>3
  <2> QED
    BY <1>1, <2>1, <2>4, AddsFresh
<1>10. CASE Replays(p)
  <2>1. /\ row # None /\ row.pkg = pkg[p] /\ found'[p] = row.outcomes /\ UNCHANGED opened
        /\ pc'[p] = "prepare"
    BY <1>1, <1>10 DEF Replays, Replayable, Goto, TypeOK
  <2> QED
    BY <1>1, <2>1 DEF BuildInv, Fresh, RowFresh, ReadFrom
<1> QED
  BY <1>3, <1>4, <1>5, <1>6, <1>7, <1>8, <1>9, <1>10 DEF Step

LEMMA StepRowFresh ==
  ASSUME BuildInv, NEW p \in Proc, Step(p) \/ Abandons(p)
  PROVE  RowFresh'
<1>1. ReqInv /\ TypeOK /\ UNCHANGED <<requests, executable, disk, gone, pkg>>
  BY StepLocal DEF BuildInv, ReqInv
<1>2. CASE row' = row
  BY <1>1, <1>2 DEF BuildInv, RowFresh, ReadFrom
<1>3. CASE Claims(p)
  <2>1. row'.outcomes = << >>
    BY <1>3 DEF Claims
  <2> QED
    BY <2>1 DEF RowFresh, ReadFrom
<1>4. CASE SavesProgress(p)
  <2>1. pc[p] \in RunPc
    BY <1>4 DEF SavesProgress, RunPc
  <2>2. row \in Row /\ row.status = "running" /\ row.pkg = pkg[p]
    BY <1>1, <2>1, RunnerKnows DEF Runs
  <2>3. row'.status = "running" /\ row'.pkg = pkg[p] /\ row'.outcomes = found[p]
    BY <1>4, <2>2 DEF SavesProgress, Row
  <2> QED
    BY <1>1, <2>3 DEF BuildInv, Fresh, RowFresh, ReadFrom
<1>5. CASE Commits(p)
  <2>1. pc[p] \in RunPc /\ pc[p] = "commit"
    BY <1>5 DEF Commits, RunPc
  <2>2. row \in Row /\ row.status = "running" /\ row.pkg = pkg[p]
    BY <1>1, <2>1, RunnerKnows DEF Runs
  <2>3. row'.status = Result(p) /\ row'.pkg = pkg[p] /\ row'.outcomes = found[p]
    BY <1>5, <2>2 DEF Commits, Row
  <2>4. row'.status \in {"succeeded", "partial"} => ~broken[p]
    BY <2>3 DEF Result
  <2> QED
    BY <1>1, <2>1, <2>3, <2>4 DEF BuildInv, Fresh, RowFresh, ReadFrom
<1> QED
  BY <1>2, <1>3, <1>4, <1>5
     DEF Step, Abandons, Admits, Refused, Replays, Blocked, Misses, FactoryFails, Conflicts, Opens,
         Skips, Checks, CheckFails, SurfaceSucceeds, SurfaceFails, LoopEnds, FinalCheck,
         DerivesTopology, HydratesNothing, Hydrates, EvidenceRefused

LEMMA StepBuild ==
  ASSUME BuildInv, NEW p \in Proc, Step(p) \/ Abandons(p)
  PROVE  BuildInv'
<1>1. ReqInv /\ LocalsOnly(p) /\ UNCHANGED <<requests, executable, disk, gone, pkg>>
  BY StepLocal DEF BuildInv
<1>2. ReqInv'
  BY <1>1, NextReq DEF Next
<1>3. ASSUME NEW q \in Proc \ {p} PROVE Fresh(q)'
  BY <1>1 DEF BuildInv, Fresh, LocalsOnly, ReadFrom
<1>4. \A q \in Proc : Fresh(q)'
  BY <1>3, StepFresh
<1> QED
  BY <1>1, <1>2, <1>4, StepRowFresh DEF BuildInv

LEMMA ReplacesBuild ==
  ASSUME ~Restores, BuildInv, NEW v \in Version, Replaces(v)
  PROVE  BuildInv'
<1>1. /\ disk' = v /\ v # disk /\ v \notin gone /\ gone' = gone \cup {disk}
      /\ UNCHANGED <<row, pc, pkg, opened, found, broken>>
  BY DEF Replaces, locals
<1>2. ReqInv'
  BY NextReq DEF Next, BuildInv
<1>3. \A q \in Proc : Fresh(q)'
  BY <1>1 DEF BuildInv, Fresh, ReadFrom
<1>4. RowFresh'
  BY <1>1 DEF BuildInv, RowFresh, ReadFrom
<1> QED
  BY <1>1, <1>2, <1>3, <1>4 DEF BuildInv

LEMMA NextBuild == ~Restores /\ BuildInv /\ [Next]_vars => BuildInv'
<1> SUFFICES ASSUME ~Restores, BuildInv, [Next]_vars PROVE BuildInv'
  OBVIOUS
<1>1. CASE UNCHANGED vars
  <2>1. UNCHANGED <<disk, gone, row, pc, pkg, opened, found, broken>>
    BY <1>1 DEF vars, locals
  <2>2. ReqInv'
    BY NextReq DEF BuildInv
  <2>3. RowFresh' /\ \A q \in Proc : Fresh(q)'
    BY <2>1 DEF BuildInv, RowFresh, Fresh, ReadFrom
  <2> QED
    BY <2>1, <2>2, <2>3 DEF BuildInv
<1> QED
  BY <1>1, StepBuild, ReplacesBuild DEF Next

LEMMA InitBuild == Init => BuildInv
<1> SUFFICES ASSUME Init PROVE BuildInv
  OBVIOUS
<1>1. disk \notin gone /\ RowFresh
  BY DEF Init, RowFresh
<1>2. \A p \in Proc : Fresh(p)
  BY DEF Init, Fresh, ReadFrom
<1> QED
  BY <1>1, <1>2, InitReq DEF BuildInv

(* An execution that succeeded, wholly or in part, read every result from  *)
(* the build its row names, though the build may be replaced between any   *)
(* two of its checks: enough is that no replaced build comes back.         *)
THEOREM SuccessAlwaysReadsOneBuild ==
  ASSUME ~Restores PROVE Spec => []SuccessReadOneBuild
<1>1. BuildInv => SuccessReadOneBuild
  BY DEF BuildInv, RowFresh, SuccessReadOneBuild
<1>2. BuildInv /\ [Next]_vars => BuildInv'
  BY NextBuild
<1> QED
  BY <1>1, <1>2, InitBuild, PTL DEF Spec

(* Evidence was read from the build the process verified, in failed and    *)
(* partial executions and in replays too, under the same condition.        *)
THEOREM EvidenceAlwaysFromPackage ==
  ASSUME ~Restores PROVE Spec => []EvidenceFromPackage
<1>1. BuildInv => EvidenceFromPackage
  BY DEF BuildInv, Fresh, EvidenceFromPackage
<1>2. BuildInv /\ [Next]_vars => BuildInv'
  BY NextBuild
<1> QED
  BY <1>1, <1>2, InitBuild, PTL DEF Spec


-------------------------------------------------------------------------------
(* The mapped state of the turn.                                           *)
MappedPc == [p \in Proc |-> AsPc[pc[p]]]
MappedTurn == [p \in Proc |-> AsTurn(p)]
MappedStore ==
  <<[c \in {"conversation"} |-> << [role |-> "user", run |-> None] >>],
    [routed |-> AsRun("router", None, None, "semantic"),
     proposed |-> AsRun("inference", "routed", Catalog, AsVerdict)],
    [routed |-> None, proposed |-> [catalog |-> Catalog, status |-> AsVerdict]]>>
MappedExecutions == [routed |-> None, proposed |-> AsExecution]
Idle == [conv |-> None, router |-> None, run |-> None, pkg |-> None, catalog |-> None,
         retrieval |-> None, outcome |-> None, answer |-> None]

LEMMA MapFrame ==
  ASSUME NEW p \in Proc, LocalsOnly(p), UNCHANGED <<requests, executable>>
  PROVE  /\ MappedPc' = [MappedPc EXCEPT ![p] = AsPc[pc'[p]]]
         /\ MappedTurn' = [MappedTurn EXCEPT ![p] = AsTurn(p)']
         /\ MappedStore' = MappedStore
<1>1. ASSUME NEW q \in Proc \ {p} PROVE AsPc[pc[q]]' = AsPc[pc[q]] /\ AsTurn(q)' = AsTurn(q)
  BY <1>1 DEF LocalsOnly, AsTurn, Decided, Result, AnyFailed, AsFailure, AsPc, AsPackage
<1>2. MappedPc' = [MappedPc EXCEPT ![p] = AsPc[pc'[p]]]
  BY <1>1 DEF MappedPc, AsPc
<1>3. MappedTurn' = [MappedTurn EXCEPT ![p] = AsTurn(p)']
  BY <1>1 DEF MappedTurn
<1>4. MappedStore' = MappedStore
  BY DEF MappedStore, AsRun, AsVerdict
<1> QED
  BY <1>2, <1>3, <1>4

LEMMA RaiseMaps ==
  ASSUME NEW p \in Proc, LocalsOnly(p), UNCHANGED <<requests, executable, row, disk>>, pc'[p] = "done"
  PROVE  Turn!Raise(p)
<1>1. AsTurn(p)' = Idle /\ AsPc[pc'[p]] = "idle"
  BY DEF AsTurn, Idle, AsPc
<1>2. AsExecution' = AsExecution /\ AsPackage(disk)' = AsPackage(disk)
  BY DEF AsExecution, AsPackage, AsFailure, AnyFailed
<1>3. /\ MappedPc' = [MappedPc EXCEPT ![p] = "idle"]
      /\ MappedTurn' = [MappedTurn EXCEPT ![p] = Idle]
      /\ MappedStore' = MappedStore
  BY <1>1, MapFrame
<1> QED
  BY <1>2, <1>3 DEF MappedPc, MappedTurn, MappedStore, Idle, Turn!Raise, Turn!Leave, Turn!Goto,
                    Turn!NoTurn, Turn!storeVars

LEMMA StutterMaps ==
  ASSUME NEW p \in Proc, LocalsOnly(p), UNCHANGED <<requests, executable, disk>>,
         AsExecution' = AsExecution, AsPc[pc'[p]] = AsPc[pc[p]], AsTurn(p)' = AsTurn(p)
  PROVE  UNCHANGED Turn!vars
<1>1. MappedPc' = MappedPc /\ MappedTurn' = MappedTurn /\ MappedStore' = MappedStore
  BY MapFrame DEF MappedPc, MappedTurn
<1>2. AsPackage(disk)' = AsPackage(disk)
  BY DEF AsPackage
<1> QED
  BY <1>1, <1>2 DEF MappedPc, MappedTurn, MappedStore, Turn!vars, Turn!storeVars, Turn!procVars

(* A step that only moves on.                                              *)
LEMMA MoveMaps ==
  ASSUME NEW p \in Proc, LocalsOnly(p), UNCHANGED <<requests, executable, disk>>,
         AsExecution' = AsExecution, NEW label, AsPc[pc'[p]] = label, AsTurn(p)' = AsTurn(p)
  PROVE  /\ Turn!Goto(p, label)
         /\ UNCHANGED <<Turn!storeVars, AsPackage(disk), MappedTurn>>
<1>1. MappedPc' = [MappedPc EXCEPT ![p] = label] /\ MappedTurn' = MappedTurn /\ MappedStore' = MappedStore
  BY MapFrame DEF MappedTurn
<1>2. AsPackage(disk)' = AsPackage(disk)
  BY DEF AsPackage
<1> QED
  BY <1>1, <1>2 DEF MappedPc, MappedTurn, MappedStore, Turn!Goto, Turn!storeVars

LEMMA TurnKept ==
  ASSUME NEW p \in Proc, UNCHANGED <<requests, executable, pkg>>, pc[p] # "done", pc'[p] # "done",
         \/ ~Decided(p) /\ ~Decided(p)'
         \/ Decided(p) /\ Decided(p)' /\ found'[p] = found[p] /\ broken'[p] = broken[p]
  PROVE  AsTurn(p)' = AsTurn(p)
BY DEF AsTurn, Result, AnyFailed, AsFailure, AsPackage

LEMMA ExecutionKept == row' = row => AsExecution' = AsExecution
BY DEF AsExecution, AsFailure, AnyFailed, AsPackage

(* What a turn that has not ended carries.                                 *)
LEMMA Carried ==
  ASSUME NEW p \in Proc, pc[p] # "done"
  PROVE  /\ MappedTurn[p].retrieval = "proposed" /\ MappedTurn[p].pkg = AsPackage(pkg[p])
         /\ MappedTurn[p].outcome = AsTurn(p).outcome
         /\ MappedPc[p] = AsPc[pc[p]]
BY DEF MappedTurn, MappedPc, AsTurn

(* What the mapped tables hold is not NULL.                                *)
LEMMA CatalogIsVersion == TypeOK => Catalog \in Version
BY DEF TypeOK, Catalog

LEMMA VerdictIsRow ==
  ASSUME ReqInv
  PROVE  [catalog |-> Catalog, status |-> AsVerdict] # None
<1>1. [catalog |-> Catalog, status |-> AsVerdict] \in Turn!Conformance
  BY CatalogIsVersion DEF ReqInv, AsVerdict, Turn!Conformance, Turn!Verdict
<1> QED
  BY <1>1, MappingAssumption

LEMMA ExecutionIsRow ==
  ASSUME TypeOK, NEW v \in Version, NEW status \in {"running", "succeeded", "partial", "failed"},
         NEW failure \in {"none", "surface", "package", "both"}
  PROVE  [pkg |-> AsPackage(v), status |-> status, failure |-> failure] # None
<1>1. [pkg |-> AsPackage(v), status |-> status, failure |-> failure] \in Turn!Execution
  BY CatalogIsVersion DEF AsPackage, Turn!Execution, Turn!Package, Turn!Failure
<1> QED
  BY <1>1, MappingAssumption

LEMMA OutcomeIsSet ==
  ASSUME NEW status \in {"succeeded", "partial", "failed"},
         NEW failure \in {"none", "surface", "package", "both"}
  PROVE  [status |-> status, failure |-> failure] # None
<1>1. [status |-> status, failure |-> failure] \in Turn!Outcome
  BY DEF Turn!Outcome, Turn!Failure
<1> QED
  BY <1>1, MappingAssumption

LEMMA FailureNamed ==
  \A outcomes, changed : AsFailure(outcomes, changed) \in {"none", "surface", "package", "both"}
BY DEF AsFailure

LEMMA ResultNamed ==
  \A p : Result(p) \in {"succeeded", "partial", "failed"}
BY DEF Result

LEMMA PackagesDiffer ==
  \A v, w : AsPackage(v) = AsPackage(w) <=> v = w
BY DEF AsPackage

(* The steps no reader of the turn sees: the loop, its checks and its      *)
(* partial writes, and the hydration that finds nothing new.               *)
LEMMA LoopMaps ==
  ASSUME ReqInv, NEW p \in Proc,
         \/ Opens(p) \/ Skips(p) \/ Checks(p) \/ SurfaceSucceeds(p) \/ SurfaceFails(p)
         \/ LoopEnds(p) \/ HydratesNothing(p) \/ Hydrates(p)
  PROVE  UNCHANGED Turn!vars
<1>1. LocalsOnly(p) /\ UNCHANGED <<requests, executable, disk, pkg>>
  BY StepLocal DEF Step
<1>2. row' = row
  BY DEF Opens, Skips, Checks, SurfaceSucceeds, SurfaceFails, LoopEnds, HydratesNothing, Hydrates
<1>3. pc \in [Proc -> Pc]
  BY DEF ReqInv, TypeOK
<1>4. \/ pc[p] \in {"open", "request", "surface", "final"} /\ pc'[p] \in {"request", "surface", "progress", "final"}
      \/ pc[p] = "hydrate" /\ pc'[p] \in {"evidence", "empty"} /\ found' = found /\ broken' = broken /\ opened' = opened
  BY <1>3 DEF Opens, Skips, Checks, SurfaceSucceeds, SurfaceFails, LoopEnds, HydratesNothing, Hydrates, Goto
<1>5. AsPc[pc'[p]] = AsPc[pc[p]]
  BY <1>4 DEF AsPc
<1>6. AsTurn(p)' = AsTurn(p)
  BY <1>1, <1>4, TurnKept DEF Decided
<1> QED
  BY <1>1, <1>2, <1>5, <1>6, ExecutionKept, StutterMaps

LEMMA CleanHasNone ==
  ASSUME ReqInv, row # None, row.status = "running"
  PROVE  AsExecution = [pkg |-> AsPackage(row.pkg), status |-> "running", failure |-> "none"]
<1>1. TypeOK /\ row \in Row /\ Clean(row.outcomes) /\ ~row.broken
  BY DEF ReqInv, TypeOK, RunningIsClean
<1>2. ~AnyFailed(row.outcomes)
  BY <1>1, CleanReads DEF Row
<1> QED
  BY <1>1, <1>2 DEF AsExecution, AsFailure

LEMMA ProgressMaps ==
  ASSUME ReqInv, ReqInv', NEW p \in Proc, SavesProgress(p)
  PROVE  UNCHANGED Turn!vars
<1>1. LocalsOnly(p) /\ UNCHANGED <<requests, executable, disk, pkg>>
  BY StepLocal DEF Step
<1>2. pc \in [Proc -> Pc] /\ pc[p] = "progress" /\ pc'[p] = "request" /\ pc[p] \in RunPc
  BY DEF ReqInv, TypeOK, SavesProgress, Goto, RunPc
<1>3. row \in Row /\ row.status = "running" /\ row # None
  BY <1>2, RunnerKnows, RequestAssumption
<1>4. row' = [row EXCEPT !.outcomes = found[p]]
  BY <1>3 DEF SavesProgress
<1>5. row'.status = "running" /\ row'.pkg = row.pkg /\ row' # None
  <2>1. row'.status = "running" /\ row'.pkg = row.pkg
    BY <1>3, <1>4 DEF Row
  <2>2. row' \in Row
    BY <1>2, <1>3, <1>4, RunnerKnows DEF Row
  <2> QED
    BY <2>1, <2>2, RequestAssumption
<1>6. AsExecution' = AsExecution
  <2>1. AsExecution = [pkg |-> AsPackage(row.pkg), status |-> "running", failure |-> "none"]
    BY <1>3, CleanHasNone
  <2>2. AsExecution' = [pkg |-> AsPackage(row'.pkg), status |-> "running", failure |-> "none"]
    <3>1. TypeOK' /\ row' \in Row /\ Clean(row.outcomes)' /\ ~row'.broken
      BY <1>5 DEF ReqInv, TypeOK, RunningIsClean
    <3>2. ~AnyFailed(found[p])
      BY <1>2, RunnerKnows, CleanReads DEF Runs, LoopPc
    <3>3. row'.outcomes = found[p]
      BY <1>3, <1>4 DEF Row
    <3> QED
      BY <1>5, <3>1, <3>2, <3>3 DEF AsExecution, AsFailure, AnyFailed, AsPackage
  <2> QED
    BY <1>5, <2>1, <2>2
<1>7. AsPc[pc'[p]] = AsPc[pc[p]] /\ AsTurn(p)' = AsTurn(p)
  BY <1>1, <1>2, TurnKept DEF Decided, AsPc
<1> QED
  BY <1>1, <1>6, <1>7, StutterMaps

(* The steps that end the turn, and leave the row to others.               *)
LEMMA EndingMaps ==
  ASSUME ReqInv, NEW p \in Proc,
         Refused(p) \/ Blocked(p) \/ FactoryFails(p) \/ Conflicts(p) \/ EvidenceRefused(p)
  PROVE  Turn!StageRaises(p)
<1>1. LocalsOnly(p) /\ UNCHANGED <<requests, executable, disk, pkg>>
  BY StepLocal DEF Step
<1>2. /\ pc \in [Proc -> Pc] /\ row' = row /\ pc'[p] = "done"
      /\ pc[p] \in {"execute", "lookup", "claim", "prepare", "hydrate"}
  BY DEF ReqInv, TypeOK, Refused, Blocked, FactoryFails, Conflicts, EvidenceRefused, Goto
<1>3. Turn!Raise(p)
  BY <1>1, <1>2, RaiseMaps
<1>4. MappedPc[p] \in {"execute", "exec_lookup", "exec_claim", "prepare", "synthesize"}
  BY <1>2 DEF MappedPc, AsPc
<1> QED
  BY <1>3, <1>4 DEF MappedPc, Turn!StageRaises, Turn!FreePc

LEMMA AbandonsMaps ==
  ASSUME ReqInv, NEW p \in Proc, Abandons(p)
  PROVE  Turn!ExecutionAbandons(p)
<1>1. LocalsOnly(p) /\ UNCHANGED <<requests, executable, disk, pkg>>
  BY StepLocal
<1>2. /\ pc \in [Proc -> Pc] /\ row' = row /\ pc'[p] = "done"
      /\ pc[p] \in {"open", "request", "surface", "progress", "final", "commit"}
  BY DEF ReqInv, TypeOK, Abandons, Goto
<1>3. Turn!Raise(p)
  BY <1>1, <1>2, RaiseMaps
<1>4. MappedPc[p] = "exec_run"
  BY <1>2 DEF MappedPc, AsPc
<1> QED
  BY <1>3, <1>4 DEF MappedPc, Turn!ExecutionAbandons

(* The turn reads a finished row exactly when the strict reader takes it.  *)
LEMMA ReadBackNotBoth ==
  ASSUME NEW r \in Row, ReadsBack(r), r.status # "running"
  PROVE  ~(r.broken /\ AnyFailed(r.outcomes))
<1> SUFFICES ASSUME r.broken, AnyFailed(r.outcomes) PROVE FALSE
  OBVIOUS
<1>1. {i \in 1 .. Len(r.outcomes) : r.outcomes[i].status = "failed"} # {}
  BY DEF AnyFailed
<1>2. r.status \in {"succeeded", "partial", "failed"}
  BY DEF Row
<1> QED
  BY <1>1, <1>2 DEF ReadsBack

LEMMA ReplayableMaps ==
  ASSUME ReqInv, row # None, NEW v
  PROVE  (row.pkg = v /\ row.status # "running" /\ ReadsBack(row))
           <=> Turn!ExecutionReplayable("proposed", AsPackage(v))
<1>1. row \in Row /\ TypeOK
  BY DEF ReqInv, TypeOK
<1>2. AsExecution = [pkg |-> AsPackage(row.pkg), status |-> row.status,
                     failure |-> AsFailure(row.outcomes, row.broken)]
  BY DEF AsExecution
<1>3. AsExecution # None
  BY <1>1, <1>2, ExecutionIsRow, FailureNamed DEF Row
<1>4. AsExecution.pkg = AsPackage(v) <=> row.pkg = v
  BY <1>2, PackagesDiffer
<1>5. AsExecution.failure = "both" <=> row.broken /\ AnyFailed(row.outcomes)
  BY <1>2 DEF AsFailure
<1>6. row.status # "running" => (ReadsBack(row) <=> ~(row.broken /\ AnyFailed(row.outcomes)))
  BY <1>1, ReadBackNotBoth DEF ReqInv, ReaderTakesWriter
<1> QED
  BY <1>2, <1>3, <1>4, <1>5, <1>6 DEF Turn!ExecutionReplayable, Turn!Terminal, Turn!Readable

(* The steps that move the turn on.                                        *)
LEMMA AdmitsMaps ==
  ASSUME ReqInv, NEW p \in Proc, Admits(p)
  PROVE  Turn!ExecutionAdmits(p)
<1>1. LocalsOnly(p) /\ UNCHANGED <<requests, executable, disk, pkg>>
  BY StepLocal DEF Step
<1>2. pc \in [Proc -> Pc] /\ row' = row /\ pc[p] = "execute" /\ pc'[p] = "lookup" /\ disk = pkg[p]
  BY DEF ReqInv, TypeOK, Admits, Goto, Same
<1>3. AsPc[pc'[p]] = "exec_lookup" /\ AsTurn(p)' = AsTurn(p) /\ AsExecution' = AsExecution
  BY <1>1, <1>2, TurnKept, ExecutionKept DEF Decided, AsPc
<1>4. Turn!Goto(p, "exec_lookup") /\ UNCHANGED <<Turn!storeVars, AsPackage(disk), MappedTurn>>
  BY <1>1, <1>3, MoveMaps
<1>5. MappedTurn[p].retrieval = "proposed" /\ MappedTurn[p].pkg = AsPackage(disk) /\ MappedPc[p] = "execute"
  BY <1>2, Carried DEF AsPc
<1>6. Turn!MayExecute("proposed", AsPackage(disk))
  BY VerdictIsRow DEF Turn!MayExecute, Turn!SamePackage, Turn!Approved, AsRun, AsVerdict, AsPackage
<1> QED
  BY <1>4, <1>5, <1>6 DEF MappedTurn, MappedPc, Turn!ExecutionAdmits

LEMMA MissesMaps ==
  ASSUME ReqInv, NEW p \in Proc, Misses(p)
  PROVE  Turn!ExecutionMisses(p)
<1>1. LocalsOnly(p) /\ UNCHANGED <<requests, executable, disk, pkg>>
  BY StepLocal DEF Step
<1>2. pc \in [Proc -> Pc] /\ row' = row /\ row = None /\ pc[p] = "lookup" /\ pc'[p] = "claim"
  BY DEF ReqInv, TypeOK, Misses, Goto
<1>3. AsPc[pc'[p]] = "exec_claim" /\ AsTurn(p)' = AsTurn(p) /\ AsExecution' = AsExecution
  BY <1>1, <1>2, TurnKept, ExecutionKept DEF Decided, AsPc
<1>4. Turn!Goto(p, "exec_claim") /\ UNCHANGED <<Turn!storeVars, AsPackage(disk), MappedTurn>>
  BY <1>1, <1>3, MoveMaps
<1>5. MappedTurn[p].retrieval = "proposed" /\ MappedPc[p] = "exec_lookup" /\ AsExecution = None
  BY <1>2, Carried DEF AsPc, AsExecution
<1> QED
  BY <1>4, <1>5 DEF MappedTurn, MappedPc, Turn!ExecutionMisses

LEMMA ReplaysMaps ==
  ASSUME ReqInv, NEW p \in Proc, Replays(p)
  PROVE  Turn!ExecutionReplays(p)
<1>1. LocalsOnly(p) /\ UNCHANGED <<requests, executable, disk, pkg>>
  BY StepLocal DEF Step
<1>2. /\ pc \in [Proc -> Pc] /\ row' = row /\ row # None /\ pc[p] = "lookup" /\ pc'[p] = "prepare"
      /\ row.pkg = pkg[p] /\ row.status # "running" /\ ReadsBack(row)
  BY DEF ReqInv, TypeOK, Replays, Goto, Replayable
<1>3. opened[p] = None /\ opened' = opened
  BY <1>2 DEF Replays, ReqInv, Runs, FreshPc
<1>4. AsPc[pc'[p]] = "prepare" /\ AsTurn(p)' = AsTurn(p) /\ AsExecution' = AsExecution
  BY <1>1, <1>2, <1>3, TurnKept, ExecutionKept DEF Decided, AsPc
<1>5. Turn!Goto(p, "prepare") /\ UNCHANGED <<Turn!storeVars, AsPackage(disk), MappedTurn>>
  BY <1>1, <1>4, MoveMaps
<1>6. MappedTurn[p].retrieval = "proposed" /\ MappedTurn[p].pkg = AsPackage(pkg[p]) /\ MappedPc[p] = "exec_lookup"
  BY <1>2, Carried DEF AsPc
<1>7. Turn!ExecutionReplayable("proposed", AsPackage(pkg[p]))
  BY <1>2, ReplayableMaps DEF Replayable
<1> QED
  BY <1>5, <1>6, <1>7 DEF MappedTurn, MappedPc, Turn!ExecutionReplays

LEMMA PreparesMaps ==
  ASSUME ReqInv, NEW p \in Proc, DerivesTopology(p)
  PROVE  Turn!EvidencePrepared(p)
<1>1. LocalsOnly(p) /\ UNCHANGED <<requests, executable, disk, pkg>>
  BY StepLocal DEF Step
<1>2. /\ pc \in [Proc -> Pc] /\ row' = row /\ pc[p] = "prepare" /\ pc'[p] = "hydrate" /\ disk = pkg[p]
      /\ opened' = opened /\ found' = found /\ broken' = broken
      /\ row # None /\ row.pkg = pkg[p]
  BY DEF ReqInv, TypeOK, Runs, DerivesTopology, MayPrepare, Goto, Same
<1>3. AsPc[pc'[p]] = "synthesize" /\ AsTurn(p)' = AsTurn(p) /\ AsExecution' = AsExecution
  BY <1>1, <1>2, TurnKept, ExecutionKept DEF Decided, AsPc
<1>4. Turn!Goto(p, "synthesize") /\ UNCHANGED <<Turn!storeVars, AsPackage(disk), MappedTurn>>
  BY <1>1, <1>3, MoveMaps
<1>5. MappedTurn[p].retrieval = "proposed" /\ MappedTurn[p].pkg = AsPackage(disk) /\ MappedPc[p] = "prepare"
  BY <1>2, Carried DEF AsPc
<1>6. AsExecution.pkg = AsPackage(disk)
  BY <1>2 DEF AsExecution
<1>7. Turn!MayPrepare("proposed", AsPackage(disk))
  BY <1>6 DEF Turn!MayPrepare, Turn!SamePackage
<1> QED
  BY <1>4, <1>5, <1>7 DEF MappedTurn, MappedPc, Turn!EvidencePrepared

(* The claim, the decision and the commit.                                 *)
LEMMA ClaimsMaps ==
  ASSUME ReqInv, NEW p \in Proc, Claims(p)
  PROVE  Turn!ExecutionClaims(p)
<1>1. LocalsOnly(p) /\ UNCHANGED <<requests, executable, disk, pkg>>
  BY StepLocal DEF Step
<1>2. /\ pc \in [Proc -> Pc] /\ TypeOK /\ pkg[p] \in Version
      /\ row = None /\ pc[p] = "claim" /\ pc'[p] = "open"
      /\ row' = [pkg |-> pkg[p], status |-> "running", outcomes |-> << >>, broken |-> FALSE]
  BY DEF ReqInv, TypeOK, Claims, Goto
<1>3. row' # None
  <2>1. << >> \in Seq(Outcome)
    OBVIOUS
  <2> QED
    BY <1>2, <2>1, EmptyRow, RequestAssumption
<1>4. AsExecution' = [pkg |-> AsPackage(pkg[p]), status |-> "running", failure |-> "none"]
  <2>1. /\ row'.pkg = pkg[p] /\ row'.status = "running" /\ row'.outcomes = << >> /\ row'.broken = FALSE
        /\ ~AnyFailed(<< >>)
    BY <1>2 DEF AnyFailed
  <2> QED
    BY <1>3, <2>1 DEF AsExecution, AsFailure, AnyFailed, AsPackage
<1>5. AsTurn(p)' = AsTurn(p) /\ AsPc[pc'[p]] = "exec_run"
  BY <1>1, <1>2, TurnKept DEF Decided, AsPc
<1>6. /\ MappedPc' = [MappedPc EXCEPT ![p] = "exec_run"] /\ MappedTurn' = MappedTurn
      /\ MappedStore' = MappedStore /\ AsPackage(disk)' = AsPackage(disk)
  BY <1>1, <1>5, MapFrame DEF MappedTurn, AsPackage
<1>7. /\ MappedTurn[p].retrieval = "proposed" /\ MappedTurn[p].pkg = AsPackage(pkg[p])
      /\ MappedPc[p] = "exec_claim" /\ AsExecution = None
  BY <1>2, Carried DEF AsPc, AsExecution
<1>8. /\ MappedExecutions["proposed"] = None
      /\ MappedExecutions' = [MappedExecutions EXCEPT !["proposed"] =
                                [pkg |-> AsPackage(pkg[p]), status |-> "running", failure |-> "none"]]
  BY <1>4, <1>7 DEF MappedExecutions
<1> QED
  BY <1>6, <1>7, <1>8
     DEF MappedTurn, MappedPc, MappedStore, MappedExecutions, Turn!ExecutionClaims, Turn!Goto

LEMMA DecidesMaps ==
  ASSUME ReqInv, NEW p \in Proc, LocalsOnly(p), UNCHANGED <<requests, executable, disk, pkg, row, opened>>,
         pc[p] \in {"request", "final"}, pc'[p] = "commit",
         NEW status, NEW failure, status = Result(p)', failure = AsFailure(found'[p], broken'[p])
  PROVE  Turn!Decides(p, status, failure)
<1> DEFINE outcome == [status |-> status, failure |-> failure]
           AsDecided(o) == [conv |-> "conversation", router |-> "routed", run |-> None,
                            pkg |-> AsPackage(pkg[p]), catalog |-> None, retrieval |-> "proposed",
                            outcome |-> o, answer |-> None]
<1>1. opened'[p] # None /\ ~Decided(p) /\ Decided(p)'
  <2>1. opened[p] \in Version
    BY DEF ReqInv, Runs, RunPc
  <2> QED
    BY <2>1, RequestAssumption DEF Decided
<1>2. AsFailure(found[p], broken[p])' = failure
  BY DEF AsFailure, AnyFailed
<1>3. AsTurn(p) = AsDecided(None)
  BY <1>1 DEF AsTurn
<1>4. AsTurn(p)' = AsDecided(outcome)
  BY <1>1, <1>2 DEF AsTurn, AsPackage
<1>5. MappedPc' = MappedPc /\ MappedPc[p] = "exec_run"
  <2>1. AsPc[pc'[p]] = "exec_run" /\ AsPc[pc[p]] = "exec_run"
    BY DEF AsPc
  <2> QED
    BY <2>1, MapFrame DEF MappedPc
<1>6. /\ MappedTurn[p].outcome = None
      /\ MappedTurn' = [MappedTurn EXCEPT ![p].outcome = outcome]
  <2>1. MappedTurn[p] = AsDecided(None)
    BY <1>3 DEF MappedTurn
  <2>2. MappedTurn' = [MappedTurn EXCEPT ![p] = AsDecided(outcome)]
    BY <1>4, MapFrame
  <2>3. AsDecided(outcome) = [MappedTurn[p] EXCEPT !.outcome = outcome]
    BY <2>1
  <2>4. MappedTurn[p].outcome = None
    BY <2>1
  <2> HIDE DEF AsDecided, outcome
  <2> QED
    BY <2>2, <2>3, <2>4
<1>7. MappedStore' = MappedStore /\ AsPackage(disk)' = AsPackage(disk) /\ AsExecution' = AsExecution
  BY MapFrame, ExecutionKept DEF AsPackage
<1> QED
  BY <1>5, <1>6, <1>7 DEF MappedTurn, MappedPc, MappedStore, Turn!Decides, Turn!storeVars

(* What an execution that stopped or ended decides is one of the four      *)
(* outcomes the turn foresees, whichever request it stopped at.            *)
LEMMA ChangeMaps ==
  ASSUME ReqInv, ReqInv', NEW p \in Proc, CheckFails(p)
  PROVE  Turn!ExecutionPackageChanged(p)
<1>1. LocalsOnly(p) /\ UNCHANGED <<requests, executable, disk, pkg>>
  BY StepLocal DEF Step
<1>2. /\ pc[p] = "request" /\ pc'[p] = "commit" /\ row' = row /\ opened' = opened
      /\ disk # pkg[p] /\ broken'[p] = TRUE
  BY DEF ReqInv, TypeOK, CheckFails, Goto, Same
<1>3. ~AnyFailed(found'[p])
  <2>1. TypeOK /\ Clean(found[p]) /\ found[p] \in Seq(Outcome) /\ Len(found[p]) + 1 \in executable
    BY <1>2 DEF ReqInv, TypeOK, Runs, LoopPc, CheckFails, AtRequest
  <2> DEFINE g == found[p] \o Rest(Len(found[p]), "package_identity_changed", 0)
  <2>2. g \in Seq(Outcome) /\ ChangedAt(g, Len(found[p]) + 1)
    BY <2>1, ChangeEnds
  <2>3. found'[p] = g
    BY DEF CheckFails, ReqInv, TypeOK
  <2> HIDE DEF g
  <2> QED
    BY <2>1, <2>2, <2>3, ChangedReads
<1>4. Result(p)' = "failed" /\ AsFailure(found'[p], broken'[p]) = "package"
  BY <1>2, <1>3 DEF Result, AsFailure
<1>5. Turn!Decides(p, "failed", "package")
  BY <1>1, <1>2, <1>4, DecidesMaps
<1>6. MappedTurn[p].pkg = AsPackage(pkg[p]) /\ AsPackage(disk) # AsPackage(pkg[p])
  BY <1>2, Carried, PackagesDiffer
<1> QED
  BY <1>5, <1>6 DEF MappedTurn, Turn!ExecutionPackageChanged, Turn!SamePackage

LEMMA FinalMaps ==
  ASSUME ReqInv, ReqInv', NEW p \in Proc, FinalCheck(p)
  PROVE  \/ Turn!ExecutionSucceeds(p) \/ Turn!ExecutionSurfaceFails(p)
         \/ Turn!ExecutionPackageChanged(p) \/ Turn!ExecutionFailsTwice(p)
<1>1. LocalsOnly(p) /\ UNCHANGED <<requests, executable, disk, pkg>>
  BY StepLocal DEF Step
<1>2. /\ pc[p] = "final" /\ pc'[p] = "commit" /\ row' = row /\ opened' = opened /\ found' = found
      /\ broken'[p] = (disk # pkg[p])
  BY DEF ReqInv, TypeOK, FinalCheck, Goto, Same
<1>3. /\ MappedTurn[p].pkg = AsPackage(pkg[p]) /\ MappedTurn[p].retrieval = "proposed"
      /\ AsPackage(disk) = AsPackage(pkg[p]) <=> disk = pkg[p]
  BY <1>2, Carried, PackagesDiffer
<1>4. CASE disk = pkg[p] /\ ~AnyFailed(found[p])
  <2>1. /\ Result(p)' = (IF AsVerdict = "partial" THEN "partial" ELSE "succeeded")
        /\ AsFailure(found'[p], broken'[p]) = "none"
    BY <1>1, <1>2, <1>4 DEF Result, AsFailure, AsVerdict
  <2>2. Turn!Decides(p, IF AsVerdict = "partial" THEN "partial" ELSE "succeeded", "none")
    BY <1>1, <1>2, <2>1, DecidesMaps
  <2> QED
    BY <1>3, <1>4, <2>2 DEF MappedTurn, Turn!ExecutionSucceeds, Turn!SamePackage
<1>5. CASE disk = pkg[p] /\ AnyFailed(found[p])
  <2>1. Result(p)' = "failed" /\ AsFailure(found'[p], broken'[p]) = "surface"
    BY <1>1, <1>2, <1>5 DEF Result, AsFailure
  <2>2. Turn!Decides(p, "failed", "surface")
    BY <1>1, <1>2, <2>1, DecidesMaps
  <2> QED
    BY <1>3, <1>5, <2>2 DEF MappedTurn, Turn!ExecutionSurfaceFails, Turn!SamePackage
<1>6. CASE disk # pkg[p] /\ ~AnyFailed(found[p])
  <2>1. Result(p)' = "failed" /\ AsFailure(found'[p], broken'[p]) = "package"
    BY <1>1, <1>2, <1>6 DEF Result, AsFailure
  <2>2. Turn!Decides(p, "failed", "package")
    BY <1>1, <1>2, <2>1, DecidesMaps
  <2> QED
    BY <1>3, <1>6, <2>2 DEF MappedTurn, Turn!ExecutionPackageChanged, Turn!SamePackage
<1>7. CASE disk # pkg[p] /\ AnyFailed(found[p])
  <2>1. Result(p)' = "failed" /\ AsFailure(found'[p], broken'[p]) = "both"
    BY <1>1, <1>2, <1>7 DEF Result, AsFailure
  <2>2. Turn!Decides(p, "failed", "both")
    BY <1>1, <1>2, <2>1, DecidesMaps
  <2> QED
    BY <1>3, <1>7, <2>2 DEF MappedTurn, Turn!ExecutionFailsTwice, Turn!SamePackage
<1> QED
  BY <1>4, <1>5, <1>6, <1>7

Written(k, status, failure) == [pkg |-> k, status |-> status, failure |-> failure]
Stamp(r, status, failure) == [r EXCEPT !.status = status, !.failure = failure]

LEMMA Stamped ==
  ASSUME NEW k, NEW old, NEW none, NEW status, NEW failure, NEW r, r = Written(k, old, none)
  PROVE  Stamp(r, status, failure) = Written(k, status, failure)
<1> DEFINE updated == [r EXCEPT !.status = status, !.failure = failure]
           written == [pkg |-> k, status |-> status, failure |-> failure]
           fields == {"pkg", "status", "failure"}
<1> USE DEF Written, Stamp
<1>1. updated = [x \in fields |-> updated[x]] /\ written = [x \in fields |-> written[x]]
  OBVIOUS
<1>2. updated["pkg"] = k /\ updated["status"] = status /\ updated["failure"] = failure
  OBVIOUS
<1>3. written["pkg"] = k /\ written["status"] = status /\ written["failure"] = failure
  OBVIOUS
<1> HIDE DEF updated, written
<1>4. \A x \in fields : updated[x] = written[x]
  BY <1>2, <1>3
<1>5. updated = written
  BY <1>1, <1>4
<1> QED
  BY <1>5 DEF updated, written

(* The final update is the turn's, and the strict reader raises on it      *)
(* exactly where the turn says so.                                         *)
LEMMA CommitsMaps ==
  ASSUME ReqInv, ReqInv', NEW p \in Proc, Commits(p)
  PROVE  Turn!ExecutionCommits(p) \/ Turn!ExecutionUnreadable(p)
<1> DEFINE failure == AsFailure(found[p], broken[p])
           outcome == [status |-> Result(p), failure |-> failure]
<1>1. LocalsOnly(p) /\ UNCHANGED <<requests, executable, disk, pkg, opened, found, broken>>
  BY StepLocal DEF Step, Commits
<1>2. /\ pc \in [Proc -> Pc] /\ pc[p] = "commit" /\ pc[p] \in RunPc /\ opened[p] \in Version
  BY DEF ReqInv, TypeOK, Commits, RunPc, Runs
<1>3. /\ row \in Row /\ row # None /\ row.status = "running" /\ row.pkg = pkg[p]
      /\ AsExecution = [pkg |-> AsPackage(pkg[p]), status |-> "running", failure |-> "none"]
  BY <1>2, RunnerKnows, RequestAssumption, CleanHasNone DEF Runs
<1>4. /\ row'.pkg = pkg[p] /\ row'.status = Result(p) /\ row'.outcomes = found[p]
      /\ row'.broken = broken[p] /\ row' \in Row /\ row' # None
  <2>1. row' = [row EXCEPT !.status = Result(p), !.outcomes = found[p], !.broken = broken[p]]
    BY DEF Commits
  <2>2. row'.pkg = pkg[p] /\ row'.status = Result(p) /\ row'.outcomes = found[p] /\ row'.broken = broken[p]
    BY <1>3, <2>1 DEF Row
  <2>3. row' \in Row \cup {None}
    BY DEF ReqInv, TypeOK
  <2>4. found[p] \in Seq(Outcome) /\ broken[p] \in BOOLEAN
    BY DEF ReqInv, TypeOK
  <2>5. row' \in Row
    BY <1>3, <2>1, <2>4, ResultNamed DEF Row
  <2> QED
    BY <2>2, <2>5, RequestAssumption
<1>5. AsExecution' = [pkg |-> AsPackage(pkg[p]), status |-> Result(p), failure |-> failure]
  BY <1>4 DEF AsExecution, AsFailure, AnyFailed, AsPackage
<1>6. MappedTurn[p].outcome = outcome /\ outcome # None /\ MappedTurn[p].retrieval = "proposed"
      /\ MappedPc[p] = "exec_run"
  <2>1. Decided(p)
    BY <1>2, RequestAssumption DEF Decided
  <2>2. AsTurn(p).outcome = outcome
    BY <1>2, <2>1 DEF AsTurn
  <2> QED
    BY <1>2, <2>2, Carried, OutcomeIsSet, FailureNamed, ResultNamed DEF AsPc
<1>7. Turn!Finish(p)
  <2>1. outcome.status = Result(p) /\ outcome.failure = failure
    OBVIOUS
  <2> HIDE DEF outcome, failure
  <2>2. MappedExecutions["proposed"] = [pkg |-> AsPackage(pkg[p]), status |-> "running", failure |-> "none"]
    BY <1>3 DEF MappedExecutions
  <2>3. MappedExecutions["proposed"] = Written(AsPackage(pkg[p]), "running", "none")
    BY <2>2 DEF Written
  <2>4. Stamp(MappedExecutions["proposed"], outcome.status, outcome.failure)
          = Written(AsPackage(pkg[p]), Result(p), failure)
    BY <2>1, <2>3, Stamped
  <2>5. MappedExecutions' = [MappedExecutions EXCEPT !["proposed"] =
                               [pkg |-> AsPackage(pkg[p]), status |-> Result(p), failure |-> failure]]
    BY <1>5 DEF MappedExecutions
  <2>6. MappedExecutions' = [MappedExecutions EXCEPT !["proposed"] =
                               [@ EXCEPT !.status = outcome.status, !.failure = outcome.failure]]
    BY <2>4, <2>5 DEF Stamp, Written
  <2>7. MappedStore' = MappedStore /\ AsPackage(disk)' = AsPackage(disk)
    BY <1>1, MapFrame DEF AsPackage
  <2> QED
    BY <1>6, <2>6, <2>7 DEF MappedTurn, MappedPc, MappedStore, MappedExecutions, Turn!Finish
<1>8. failure = "both" <=> broken[p] /\ AnyFailed(found[p])
  BY DEF AsFailure
<1>9. row'.status # "running"
  BY <1>4, ResultNamed
<1>10. ReadsBack(row') <=> failure # "both"
  <2>1. ReadsBack(row') \/ (row'.broken /\ AnyFailed(row'.outcomes))
    <3>1. ReaderTakesWriter' /\ row' # None
      BY <1>4 DEF ReqInv
    <3> QED
      BY <1>1, <3>1 DEF ReaderTakesWriter, ReadsBack, Dispositions, AllSucceed, FailFast,
                        PackageBoundary, AnyFailed, Rejected
  <2> DEFINE r == row'
  <2>2. r \in Row /\ r.status # "running"
    BY <1>4, <1>9
  <2> HIDE DEF r
  <2>3. ReadsBack(r) => ~(r.broken /\ AnyFailed(r.outcomes))
    BY <2>2, ReadBackNotBoth
  <2>4. ReadsBack(row') => ~(row'.broken /\ AnyFailed(row'.outcomes))
    BY <2>3 DEF r
  <2> QED
    BY <1>4, <1>8, <2>1, <2>4
<1>11. CASE ReadsBack(row')
  <2>1. pc'[p] = "prepare"
    BY <1>2, <1>11 DEF Commits, Goto
  <2>2. Decided(p) /\ Decided(p)'
    BY <1>1, <1>2, <2>1, RequestAssumption DEF Decided
  <2>3. AsTurn(p)' = AsTurn(p)
    BY <1>1, <1>2, <2>1, <2>2, TurnKept
  <2>4. AsPc[pc'[p]] = "prepare"
    BY <2>1 DEF AsPc
  <2>5. MappedTurn[p] = AsTurn(p) /\ MappedTurn = [q \in Proc |-> AsTurn(q)]
    BY DEF MappedTurn
  <2>6. MappedTurn' = MappedTurn
    BY <1>1, <2>3, <2>5, MapFrame
  <2>7. MappedPc' = [MappedPc EXCEPT ![p] = "prepare"] /\ MappedTurn' = MappedTurn
    BY <1>1, <2>4, <2>6, MapFrame
  <2>8. MappedTurn[p].outcome.failure # "both"
    BY <1>6, <1>10, <1>11
  <2> QED
    BY <1>7, <2>7, <2>8 DEF MappedPc, MappedTurn, Turn!ExecutionCommits, Turn!Goto
<1>12. CASE ~ReadsBack(row')
  <2>1. pc'[p] = "done"
    BY <1>2, <1>12 DEF Commits, Goto
  <2>2. AsTurn(p)' = Idle /\ AsPc[pc'[p]] = "idle"
    BY <2>1 DEF AsTurn, Idle, AsPc
  <2>3. MappedPc' = [MappedPc EXCEPT ![p] = "idle"] /\ MappedTurn' = [MappedTurn EXCEPT ![p] = Idle]
    BY <1>1, <2>2, MapFrame
  <2>4. MappedTurn[p].outcome.failure = "both"
    BY <1>6, <1>10, <1>12
  <2> QED
    BY <1>7, <2>3, <2>4 DEF MappedPc, MappedTurn, Idle, Turn!ExecutionUnreadable, Turn!Leave,
                            Turn!Goto, Turn!NoTurn
<1> QED
  BY <1>11, <1>12

LEMMA ReplacesMaps ==
  ASSUME NEW v \in Version, Replaces(v)
  PROVE  Turn!Operator
<1>1. UNCHANGED <<requests, executable, row, pc, pkg, opened, found, broken>> /\ disk' = v
  BY DEF Replaces, locals
<1>2. MappedPc' = MappedPc
  BY <1>1 DEF MappedPc, AsPc
<1>3. MappedTurn' = MappedTurn
  BY <1>1 DEF MappedTurn, AsTurn, Decided, Result, AnyFailed, AsFailure, AsPackage
<1>4. MappedStore' = MappedStore /\ AsExecution' = AsExecution
  BY <1>1, ExecutionKept DEF MappedStore, AsRun, AsVerdict
<1>5. Turn!ReplaceBuild(v)
  BY <1>1 DEF AsPackage, Turn!ReplaceBuild
<1> QED
  BY <1>2, <1>3, <1>4, <1>5 DEF MappedPc, MappedTurn, MappedStore, Turn!Operator, Turn!storeVars,
                                Turn!procVars

LEMMA IdleMaps == UNCHANGED vars => UNCHANGED Turn!vars
<1> SUFFICES ASSUME UNCHANGED vars PROVE UNCHANGED Turn!vars
  OBVIOUS
<1>1. UNCHANGED <<requests, executable, disk, row, pc, pkg, opened, found, broken>>
  BY DEF vars, locals
<1>2. MappedPc' = MappedPc
  BY <1>1 DEF MappedPc, AsPc
<1>3. MappedTurn' = MappedTurn
  BY <1>1 DEF MappedTurn, AsTurn, Decided, Result, AnyFailed, AsFailure, AsPackage
<1>4. MappedStore' = MappedStore /\ AsExecution' = AsExecution /\ AsPackage(disk)' = AsPackage(disk)
  BY <1>1, ExecutionKept DEF MappedStore, AsRun, AsVerdict, AsPackage
<1> QED
  BY <1>2, <1>3, <1>4 DEF MappedPc, MappedTurn, MappedStore, Turn!vars, Turn!storeVars, Turn!procVars

LEMMA StepMaps ==
  ASSUME ReqInv, ReqInv', NEW p \in Proc, Step(p) \/ Abandons(p)
  PROVE  Turn!Step(p) \/ Turn!Fault(p) \/ UNCHANGED Turn!vars
<1>1. CASE \/ Opens(p) \/ Skips(p) \/ Checks(p) \/ SurfaceSucceeds(p) \/ SurfaceFails(p)
           \/ LoopEnds(p) \/ HydratesNothing(p) \/ Hydrates(p) \/ SavesProgress(p)
  BY <1>1, LoopMaps, ProgressMaps
<1>2. CASE \/ Refused(p) \/ Blocked(p) \/ FactoryFails(p) \/ Conflicts(p) \/ EvidenceRefused(p)
  BY <1>2, EndingMaps DEF Turn!Step
<1>3. CASE Abandons(p)
  BY <1>3, AbandonsMaps DEF Turn!Fault
<1>4. CASE DerivesTopology(p)
  BY <1>4, PreparesMaps DEF Turn!Step
<1>5. CASE \/ Admits(p) \/ Misses(p) \/ Replays(p) \/ Claims(p) \/ CheckFails(p) \/ FinalCheck(p)
           \/ Commits(p)
  <2>1. Turn!ExecutionStep(p)
    BY <1>5, AdmitsMaps, MissesMaps, ReplaysMaps, ClaimsMaps, ChangeMaps, FinalMaps, CommitsMaps
       DEF Turn!ExecutionStep
  <2> QED
    BY <2>1 DEF Turn!Step
<1> QED
  BY <1>1, <1>2, <1>3, <1>4, <1>5 DEF Step

(* The loop over the requests, its identity checks, its partial writes and *)
(* its crashes do nothing the coarse execution of TurnRuntime does not:    *)
(* every step is one of the turn's steps, one of its faults, the           *)
(* operator's, or invisible to the turn.                                   *)
THEOREM LoopTakesTurnSteps == Spec => StepsAreTurnSteps
<1>1. ReqInv /\ ReqInv' /\ [Next]_vars => [Turn!Next]_(Turn!vars)
  <2> SUFFICES ASSUME ReqInv, ReqInv', [Next]_vars PROVE Turn!Next \/ UNCHANGED Turn!vars
    OBVIOUS
  <2>1. CASE UNCHANGED vars
    BY <2>1, IdleMaps
  <2>2. ASSUME NEW p \in Proc, Step(p) \/ Abandons(p) PROVE Turn!Next \/ UNCHANGED Turn!vars
    BY <2>2, StepMaps DEF Turn!Next
  <2>3. ASSUME NEW v \in Version, Replaces(v) PROVE Turn!Next
    BY <2>3, ReplacesMaps DEF Turn!Next
  <2> QED
    BY <2>1, <2>2, <2>3 DEF Next
<1> QED
  BY <1>1, InitReq, NextReq, PTL DEF Spec, StepsAreTurnSteps
===============================================================================
