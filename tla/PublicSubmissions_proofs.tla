--------------------- MODULE PublicSubmissions_proofs ---------------------
(* One submission per challenge and one stored request per window, for any *)
(* numbers of challenges, submissions and contents and any durations.      *)
EXTENDS PublicSubmissions, TLAPS

\* A transaction commits; who found an identical request is not told that
\* theirs is new.
Commits ==
  \E s \in Submissions, stage \in Committed :
    Commit(s, stage) /\ (stage = "accepted" => sub[s].stage # "found")

\* Every step is of one of these kinds.
LEMMA Kinds ==
  ASSUME [Next]_vars
  PROVE  \/ UNCHANGED vars \/ Purge \/ Tick \/ Commits
         \/ \E c \in Challenges : Issue(c)
         \/ \E s \in Submissions, c \in Challenges, right \in BOOLEAN,
               content \in Contents \cup {Upload} : Begin(s, c, right, content)
         \/ \E s \in Submissions :
              \/ Delete(s) \/ DeleteFindsNothing(s) \/ Lock(s) \/ Search(s)
              \/ \E stage \in {"refused", "wrong", "failed"} :
                   sub[s].stage \in Open /\ RollBack(s, stage)
BY DEF Next, Step, Refuse, Fail, Answer, Committed, Open, Consuming, Commits

\* The types.
LEMMA TypeStep ==
  ASSUME SubInv, [Next]_vars
  PROVE  SubTypeOK'
<1> USE SubmissionsAssumption DEF SubInv, SubTypeOK
<1>1. CASE UNCHANGED vars
  BY <1>1 DEF vars
<1>2. CASE Purge \/ Tick
  BY <1>2 DEF Purge, Tick
<1>3. ASSUME NEW c \in Challenges, Issue(c)
      PROVE  SubTypeOK'
  BY <1>3 DEF Issue
<1>4. ASSUME NEW s \in Submissions, NEW c \in Challenges, NEW right \in BOOLEAN,
             NEW content \in Contents \cup {Upload}, Begin(s, c, right, content)
      PROVE  SubTypeOK'
  BY <1>4 DEF Begin, Submission, Stages
<1>5. ASSUME NEW s \in Submissions, NEW stage \in Stages, Goes(s, stage)
      PROVE  sub' \in [Submissions -> Submission]
  BY <1>5 DEF Goes, Submission
<1>6. ASSUME NEW s \in Submissions, Delete(s)
      PROVE  SubTypeOK'
  <2>1. sub[s].token \in Challenges
    BY <1>6 DEF Delete, Valid
  <2>2. deleter' \in [Challenges -> Submissions \cup {NoOne}]
    BY <1>6 DEF Delete
  <2>3. "matched" \in Stages
    BY DEF Stages
  <2>4. sub' \in [Submissions -> Submission]
    BY <1>5, <1>6, <2>3 DEF Delete
  <2>5. QED
    BY <1>6, <2>2, <2>4 DEF Delete
<1>7. ASSUME NEW s \in Submissions, DeleteFindsNothing(s) \/ Search(s)
      PROVE  SubTypeOK'
  <2>1. PICK stage \in Stages : Goes(s, stage)
    BY <1>7 DEF DeleteFindsNothing, Search, Stages
  <2>2. sub' \in [Submissions -> Submission]
    BY <1>5, <2>1
  <2>3. QED
    BY <1>7, <2>2 DEF DeleteFindsNothing, Search
<1>8. ASSUME NEW s \in Submissions, Lock(s)
      PROVE  SubTypeOK'
  <2>1. sub[s].content \in Contents
    BY <1>8 DEF Lock, Submission
  <2>2. owner' \in [Contents -> Submissions \cup {NoOne}]
    BY <1>8, <2>1 DEF Lock
  <2>3. sub' \in [Submissions -> Submission]
    BY <1>5, <1>8 DEF Lock, Stages
  <2>4. QED
    BY <1>8, <2>2, <2>3 DEF Lock
<1>9. ASSUME NEW s \in Submissions, Release(s)
      PROVE  /\ deleter' \in [Challenges -> Submissions \cup {NoOne}]
             /\ owner' \in [Contents -> Submissions \cup {NoOne}]
  BY <1>9 DEF Release
<1>10. ASSUME NEW s \in Submissions, NEW stage \in {"refused", "wrong", "failed"},
              RollBack(s, stage)
       PROVE  SubTypeOK'
  <2>1. sub' \in [Submissions -> Submission]
    BY <1>5, <1>10 DEF RollBack, Stages
  <2>2. QED
    BY <1>9, <1>10, <2>1 DEF RollBack
<1>11. ASSUME NEW s \in Submissions, NEW stage \in Committed, Commit(s, stage)
       PROVE  SubTypeOK'
  <2>1. sub' \in [Submissions -> Submission]
    BY <1>5, <1>11 DEF Commit, Stages, Committed
  <2>2. sub[s].stage = "inserted" =>
          NewRow(s) \in [content : Contents, at : Nat, by : Submissions]
    BY DEF LocksMatchStages, Searching, NewRow, Submission
  <2>3. stored' \subseteq [content : Contents, at : Nat, by : Submissions]
    BY <1>11, <2>2 DEF Commit
  <2>4. QED
    BY <1>9, <1>11, <2>1, <2>3 DEF Commit
<1>12. QED
  BY <1>1, <1>2, <1>3, <1>4, <1>6, <1>7, <1>8, <1>10, <1>11, Kinds DEF Commits

\* A submission that moves on keeps what it was sent with; the others stay.
LEMMA GoesFacts ==
  ASSUME SubTypeOK, NEW s \in Submissions, NEW stage, Goes(s, stage), NEW t \in Submissions
  PROVE  /\ sub'[t].token = sub[t].token /\ sub'[t].right = sub[t].right
         /\ sub'[t].content = sub[t].content /\ sub'[t].now = sub[t].now
         /\ sub'[t].stage = IF t = s THEN stage ELSE sub[t].stage
         /\ t # s => sub'[t] = sub[t]
BY DEF Goes, SubTypeOK, Submission

\* The end of a transaction frees its locks and no others.
LEMMA Released ==
  ASSUME SubInv, NEW s \in Submissions, Release(s)
  PROVE  /\ \A c \in Challenges : deleter'[c] # NoOne => deleter[c] # s /\ deleter'[c] = deleter[c]
         /\ \A h \in Contents : owner'[h] # NoOne => owner[h] # s /\ owner'[h] = owner[h]
         /\ \A t \in Submissions \ {s} :
              /\ sub[t].stage \in Consuming => deleter'[sub[t].token] = t
              /\ sub[t].stage \in Searching => owner'[sub[t].content] = t
<1> USE SubmissionsAssumption DEF SubInv, SubTypeOK
<1>1. ASSUME NEW t \in Submissions \ {s}, sub[t].stage \in Consuming
      PROVE  deleter'[sub[t].token] = t
  <2>1. deleter[sub[t].token] = t /\ sub[t].token \in Challenges
    BY <1>1 DEF LocksMatchStages, Consuming
  <2>2. QED
    BY <2>1 DEF Release
<1>2. ASSUME NEW t \in Submissions \ {s}, sub[t].stage \in Searching
      PROVE  owner'[sub[t].content] = t
  <2>1. owner[sub[t].content] = t /\ sub[t].content \in Contents
    BY <1>2 DEF LocksMatchStages, Submission
  <2>2. QED
    BY <2>1 DEF Release
<1>3. QED
  BY <1>1, <1>2 DEF Release

\* A transaction that may commit holds the row of its challenge, which nobody
\* has used, and has the right answer.
LEMMA CompleteHolds ==
  ASSUME SubInv, NEW s \in Submissions, Complete(s)
  PROVE  /\ sub[s].stage \in Consuming /\ sub[s].right
         /\ sub[s].token \in rows /\ sub[s].token \in Challenges
         /\ deleter[sub[s].token] = s
         /\ sub[s].now < expiresAt[sub[s].token]
         /\ Consumers(sub[s].token) = {}
<1>1. sub[s].stage \in Consuming /\ sub[s].right
  BY DEF Complete, Consuming, Searching, SubInv, LocksMatchStages
<1>2. deleter[sub[s].token] = s /\ sub[s].token \in Challenges
  BY <1>1 DEF SubInv, SubTypeOK, LocksMatchStages, Consuming
<1>3. sub[s].token \in rows /\ sub[s].now < expiresAt[sub[s].token]
  BY <1>2, SubmissionsAssumption DEF SubInv, LocksMatchStages
<1>4. Consumers(sub[s].token) = {}
  BY <1>2, <1>3 DEF SubInv, OneUse
<1>5. QED
  BY <1>1, <1>2, <1>3, <1>4

\* Locks and stages go together.
LEMMA LocksStep ==
  ASSUME SubInv, [Next]_vars
  PROVE  LocksMatchStages'
<1> USE SubmissionsAssumption
<1>0. SubTypeOK /\ LocksMatchStages
  BY DEF SubInv
<1>1. CASE UNCHANGED vars \/ Tick
  BY <1>0, <1>1 DEF vars, Tick, LocksMatchStages
<1>2. ASSUME Unlocked, rows' \in SUBSET Challenges, rows \ Expired \subseteq rows', issued \subseteq issued',
             UNCHANGED <<deleter, owner, sub>>,
             \A c \in rows : expiresAt'[c] = expiresAt[c]
      PROVE  LocksMatchStages'
  <2>1. ASSUME NEW c \in Challenges, deleter[c] # NoOne
        PROVE  c \in rows' /\ expiresAt'[c] = expiresAt[c]
    BY <1>0, <1>2, <2>1 DEF LocksMatchStages, Unlocked
  <2>2. QED
    BY <1>0, <1>2, <2>1 DEF LocksMatchStages
<1>3. CASE Purge
  <2>1. rows' \in SUBSET Challenges
    BY <1>0, <1>3 DEF Purge, SubTypeOK
  <2>2. QED
    BY <1>2, <1>3, <2>1 DEF Purge
<1>4. ASSUME NEW c \in Challenges, Issue(c)
      PROVE  LocksMatchStages'
  <2>1. \A d \in rows : expiresAt'[d] = expiresAt[d]
    BY <1>0, <1>4 DEF Issue, SubTypeOK
  <2>2. rows' \in SUBSET Challenges
    BY <1>0, <1>4 DEF Issue, SubTypeOK
  <2>3. QED
    BY <1>2, <1>4, <2>1, <2>2 DEF Issue
<1>5. ASSUME NEW s \in Submissions, NEW c \in Challenges, NEW right \in BOOLEAN,
             NEW content \in Contents \cup {Upload}, Begin(s, c, right, content)
      PROVE  LocksMatchStages'
  <2>1. /\ sub'[s].stage = "begun" /\ sub'[s].token \in issued
        /\ \A t \in Submissions \ {s} : sub'[t] = sub[t]
        /\ sub[s].stage = "idle" /\ UNCHANGED <<issued, rows, expiresAt, deleter, owner>>
    BY <1>0, <1>5 DEF Begin, SubTypeOK
  <2>2. \A t \in Submissions : sub[t].stage \in Consuming => t # s
    BY <2>1 DEF Consuming
  <2>3. \A t \in Submissions : sub[t].stage \in Searching => t # s
    BY <2>1 DEF Searching
  <2>4. sub'[s].stage \notin Consuming /\ sub'[s].stage \notin Searching
    BY <2>1 DEF Consuming, Searching
  <2>5. \A t \in Submissions :
          /\ sub'[t].stage # "idle" => sub'[t].token \in issued'
          /\ sub'[t].stage \in Consuming => deleter'[sub'[t].token] = t
          /\ sub'[t].stage \in Searching =>
               sub'[t].content # Upload /\ sub'[t].right /\ owner'[sub'[t].content] = t
    BY <1>0, <2>1, <2>4 DEF LocksMatchStages
  <2>6. \A d \in Challenges : deleter'[d] # NoOne =>
          /\ sub'[deleter'[d]].stage \in Consuming /\ sub'[deleter'[d]].token = d
          /\ d \in rows' /\ sub'[deleter'[d]].now < expiresAt'[d]
    BY <1>0, <2>1, <2>2 DEF LocksMatchStages, SubTypeOK
  <2>7. \A h \in Contents : owner'[h] # NoOne =>
          sub'[owner'[h]].stage \in Searching /\ sub'[owner'[h]].content = h
    BY <1>0, <2>1, <2>3 DEF LocksMatchStages, SubTypeOK
  <2>8. QED
    BY <2>5, <2>6, <2>7 DEF LocksMatchStages
<1>6. ASSUME NEW s \in Submissions, Delete(s)
      PROVE  LocksMatchStages'
  <2>1. PICK c \in Challenges : c = sub[s].token
    BY <1>0, <1>6 DEF Delete, Valid, SubTypeOK
  <2>2. /\ Goes(s, "matched") /\ deleter' = [deleter EXCEPT ![c] = s] /\ deleter[c] = NoOne
        /\ c \in rows /\ sub[s].now < expiresAt[c] /\ sub[s].stage = "begun"
        /\ UNCHANGED <<issued, rows, expiresAt, owner>>
    <3>1. sub[s].now \in Nat /\ expiresAt[c] \in Nat /\ expiresAt[c] > sub[s].now
      BY <1>0, <1>6, <2>1 DEF Delete, Valid, SubTypeOK, Submission
    <3>2. sub[s].now < expiresAt[c]
      BY <3>1
    <3>3. QED
      BY <1>6, <2>1, <3>2 DEF Delete, Valid
  <2>3. \A t \in Submissions :
          /\ sub'[t].token = sub[t].token /\ sub'[t].right = sub[t].right
          /\ sub'[t].content = sub[t].content /\ sub'[t].now = sub[t].now
          /\ sub'[t].stage = IF t = s THEN "matched" ELSE sub[t].stage
    BY <1>0, <2>2, GoesFacts
  <2>4. deleter'[c] = s /\ \A d \in Challenges \ {c} : deleter'[d] = deleter[d]
    BY <1>0, <2>2 DEF SubTypeOK
  <2>5. \A t \in Submissions :
          /\ sub'[t].stage # "idle" => sub'[t].token \in issued'
          /\ sub'[t].stage \in Consuming => deleter'[sub'[t].token] = t
          /\ sub'[t].stage \in Searching =>
               sub'[t].content # Upload /\ sub'[t].right /\ owner'[sub'[t].content] = t
    <3>1. \A t \in Submissions \ {s} : sub[t].stage \in Consuming =>
            sub[t].token \in Challenges \ {c} /\ deleter'[sub[t].token] = t
      BY <1>0, <2>2, <2>4 DEF LocksMatchStages, Consuming, SubTypeOK
    <3>2. QED
      BY <1>0, <2>1, <2>2, <2>3, <2>4, <3>1 DEF LocksMatchStages, Searching
  <2>6. \A d \in Challenges : deleter'[d] # NoOne =>
          /\ sub'[deleter'[d]].stage \in Consuming /\ sub'[deleter'[d]].token = d
          /\ d \in rows' /\ sub'[deleter'[d]].now < expiresAt'[d]
    BY <1>0, <2>1, <2>2, <2>3, <2>4 DEF LocksMatchStages, SubTypeOK, Consuming
  <2>7. \A h \in Contents : owner'[h] # NoOne =>
          sub'[owner'[h]].stage \in Searching /\ sub'[owner'[h]].content = h
    BY <1>0, <2>2, <2>3 DEF LocksMatchStages, SubTypeOK, Searching
  <2>8. QED
    BY <2>5, <2>6, <2>7 DEF LocksMatchStages
<1>7. ASSUME NEW s \in Submissions, DeleteFindsNothing(s) \/ Search(s)
      PROVE  LocksMatchStages'
  <2>1. PICK stage : /\ Goes(s, stage)
                     /\ stage # "idle" /\ sub[s].stage # "idle"
                     /\ stage \in Consuming <=> sub[s].stage \in Consuming
                     /\ stage \in Searching <=> sub[s].stage \in Searching
                     /\ UNCHANGED <<issued, rows, expiresAt, deleter, owner>>
    BY <1>7 DEF DeleteFindsNothing, Search, Consuming, Searching
  <2>2. \A t \in Submissions :
          /\ sub'[t].token = sub[t].token /\ sub'[t].right = sub[t].right
          /\ sub'[t].content = sub[t].content /\ sub'[t].now = sub[t].now
          /\ sub'[t].stage \in Consuming <=> sub[t].stage \in Consuming
          /\ sub'[t].stage \in Searching <=> sub[t].stage \in Searching
          /\ sub'[t].stage = "idle" <=> sub[t].stage = "idle"
    BY <1>0, <2>1, GoesFacts
  <2>3. QED
    BY <1>0, <2>1, <2>2 DEF LocksMatchStages, SubTypeOK
<1>8. ASSUME NEW s \in Submissions, Lock(s)
      PROVE  LocksMatchStages'
  <2>1. PICK h \in Contents : h = sub[s].content
    BY <1>0, <1>8 DEF Lock, SubTypeOK, Submission
  <2>2. /\ Goes(s, "locked") /\ owner' = [owner EXCEPT ![h] = s] /\ owner[h] = NoOne
        /\ sub[s].stage = "matched" /\ sub[s].right /\ h # Upload
        /\ UNCHANGED <<issued, rows, expiresAt, deleter>>
    BY <1>8, <2>1 DEF Lock
  <2>3. \A t \in Submissions :
          /\ sub'[t].token = sub[t].token /\ sub'[t].right = sub[t].right
          /\ sub'[t].content = sub[t].content /\ sub'[t].now = sub[t].now
          /\ sub'[t].stage = IF t = s THEN "locked" ELSE sub[t].stage
          /\ sub'[t].stage \in Consuming <=> sub[t].stage \in Consuming
    BY <1>0, <2>2, GoesFacts DEF Consuming
  <2>4. owner'[h] = s /\ \A k \in Contents \ {h} : owner'[k] = owner[k]
    BY <1>0, <2>2 DEF SubTypeOK
  <2>5. \A t \in Submissions :
          /\ sub'[t].stage # "idle" => sub'[t].token \in issued'
          /\ sub'[t].stage \in Consuming => deleter'[sub'[t].token] = t
          /\ sub'[t].stage \in Searching =>
               sub'[t].content # Upload /\ sub'[t].right /\ owner'[sub'[t].content] = t
    <3>1. \A t \in Submissions \ {s} : sub[t].stage \in Searching =>
            sub[t].content \in Contents \ {h} /\ owner'[sub[t].content] = t
      BY <1>0, <2>2, <2>4 DEF LocksMatchStages, SubTypeOK, Submission
    <3>2. QED
      BY <1>0, <2>1, <2>2, <2>3, <2>4, <3>1 DEF LocksMatchStages
  <2>6. \A d \in Challenges : deleter'[d] # NoOne =>
          /\ sub'[deleter'[d]].stage \in Consuming /\ sub'[deleter'[d]].token = d
          /\ d \in rows' /\ sub'[deleter'[d]].now < expiresAt'[d]
    BY <1>0, <2>2, <2>3 DEF LocksMatchStages, SubTypeOK
  <2>7. \A k \in Contents : owner'[k] # NoOne =>
          sub'[owner'[k]].stage \in Searching /\ sub'[owner'[k]].content = k
    BY <1>0, <2>1, <2>2, <2>3, <2>4 DEF LocksMatchStages, SubTypeOK, Searching
  <2>8. QED
    BY <2>5, <2>6, <2>7 DEF LocksMatchStages
<1>9. ASSUME NEW s \in Submissions, NEW stage, Release(s), Goes(s, stage),
             stage \notin Consuming \cup {"idle"}, UNCHANGED <<issued, expiresAt>>,
             rows' \in SUBSET rows, \A c \in rows : deleter[c] # s => c \in rows',
             sub[s].stage # "idle"
      PROVE  LocksMatchStages'
  <2>1. \A t \in Submissions :
          /\ sub'[t].token = sub[t].token /\ sub'[t].right = sub[t].right
          /\ sub'[t].content = sub[t].content /\ sub'[t].now = sub[t].now
          /\ sub'[t].stage = IF t = s THEN stage ELSE sub[t].stage
    BY <1>0, <1>9, GoesFacts
  <2>2. stage \notin Searching
    BY <1>9 DEF Consuming, Searching
  <2>3. \A t \in Submissions :
          /\ sub'[t].stage # "idle" => sub'[t].token \in issued'
          /\ sub'[t].stage \in Consuming => deleter'[sub'[t].token] = t
          /\ sub'[t].stage \in Searching =>
               sub'[t].content # Upload /\ sub'[t].right /\ owner'[sub'[t].content] = t
    BY <1>0, <1>9, <2>1, <2>2, Released DEF LocksMatchStages
  <2>4. \A d \in Challenges : deleter'[d] # NoOne =>
          /\ sub'[deleter'[d]].stage \in Consuming /\ sub'[deleter'[d]].token = d
          /\ d \in rows' /\ sub'[deleter'[d]].now < expiresAt'[d]
    BY <1>0, <1>9, <2>1, Released DEF LocksMatchStages, SubTypeOK
  <2>5. \A h \in Contents : owner'[h] # NoOne =>
          sub'[owner'[h]].stage \in Searching /\ sub'[owner'[h]].content = h
    BY <1>0, <1>9, <2>1, Released DEF LocksMatchStages, SubTypeOK
  <2>6. QED
    BY <2>3, <2>4, <2>5 DEF LocksMatchStages
<1>10. ASSUME NEW s \in Submissions, NEW stage \in {"refused", "wrong", "failed"},
              sub[s].stage \in Open, RollBack(s, stage)
       PROVE  LocksMatchStages'
  <2>1. stage \notin Consuming \cup {"idle"} /\ sub[s].stage # "idle"
    BY <1>10 DEF Consuming, Open
  <2>2. QED
    BY <1>9, <1>10, <2>1 DEF RollBack
<1>11. ASSUME NEW s \in Submissions, NEW stage \in Committed, Commit(s, stage)
       PROVE  LocksMatchStages'
  <2>1. sub[s].stage \in Consuming /\ deleter[sub[s].token] = s
    BY <1>11, CompleteHolds DEF Commit
  <2>2. stage \notin Consuming \cup {"idle"} /\ sub[s].stage # "idle"
    BY <1>11, <2>1 DEF Consuming, Committed
  <2>3. rows' = rows \ {sub[s].token}
    BY <1>11 DEF Commit
  <2>4. rows' \in SUBSET rows /\ \A c \in rows : deleter[c] # s => c \in rows'
    BY <2>1, <2>3
  <2>5. QED
    BY <1>9, <1>11, <2>2, <2>4 DEF Commit
<1>12. QED
  BY <1>1, <1>3, <1>4, <1>5, <1>6, <1>7, <1>8, <1>10, <1>11, Kinds DEF Commits

\* What a step that is no commit leaves alone.
LEMMA NoCommit ==
  ASSUME SubInv, [Next]_vars,
         ~Commits
  PROVE  /\ stored' = stored
         /\ rows' \cap issued \subseteq rows
         /\ \A c \in issued : expiresAt'[c] = expiresAt[c]
         /\ \A t \in Submissions :
              /\ sub'[t].stage \in Committed <=> sub[t].stage \in Committed
              /\ sub[t].stage \in Committed => sub'[t] = sub[t]
<1>0. SubTypeOK
  BY DEF SubInv
<1>1. CASE UNCHANGED vars
  BY <1>1 DEF vars
<1>2. CASE Purge \/ Tick
  BY <1>2 DEF Purge, Tick
<1>3. ASSUME NEW c \in Challenges, Issue(c)
      PROVE  /\ stored' = stored /\ rows' \cap issued \subseteq rows /\ sub' = sub
             /\ \A d \in issued : expiresAt'[d] = expiresAt[d]
  BY <1>0, <1>3 DEF Issue, SubTypeOK
<1>4. ASSUME NEW s \in Submissions, NEW c \in Challenges, NEW right \in BOOLEAN,
             NEW content \in Contents \cup {Upload}, Begin(s, c, right, content)
      PROVE  /\ UNCHANGED <<stored, rows, expiresAt>>
             /\ \A t \in Submissions :
                  /\ sub'[t].stage \in Committed <=> sub[t].stage \in Committed
                  /\ sub[t].stage \in Committed => sub'[t] = sub[t]
  BY <1>0, <1>4 DEF Begin, SubTypeOK, Committed
<1>5. ASSUME NEW s \in Submissions, NEW stage, stage \notin Committed,
             sub[s].stage \notin Committed, Goes(s, stage)
      PROVE  \A t \in Submissions :
               /\ sub'[t].stage \in Committed <=> sub[t].stage \in Committed
               /\ sub[t].stage \in Committed => sub'[t] = sub[t]
  BY <1>0, <1>5, GoesFacts
<1>6. ASSUME NEW s \in Submissions,
             Delete(s) \/ DeleteFindsNothing(s) \/ Lock(s) \/ Search(s)
      PROVE  /\ UNCHANGED <<stored, rows, expiresAt>>
             /\ \E stage : stage \notin Committed /\ sub[s].stage \notin Committed /\ Goes(s, stage)
  BY <1>6 DEF Delete, DeleteFindsNothing, Lock, Search, Committed
<1>7. ASSUME NEW s \in Submissions, NEW stage \in {"refused", "wrong", "failed"},
             sub[s].stage \in Open, RollBack(s, stage)
      PROVE  /\ UNCHANGED <<stored, rows, expiresAt>>
             /\ stage \notin Committed /\ sub[s].stage \notin Committed /\ Goes(s, stage)
  BY <1>7 DEF RollBack, Committed, Open, Consuming
<1>8. QED
  BY <1>1, <1>2, <1>3, <1>4, <1>5, <1>6, <1>7, Kinds

\* A challenge is used once.
LEMMA OneUseStep ==
  ASSUME SubInv, [Next]_vars
  PROVE  OneUse'
<1>0. SubTypeOK /\ LocksMatchStages /\ OneUse
  BY DEF SubInv
<1>1. \A s \in Submissions : sub[s].stage \in Committed => sub[s].token \in issued
  BY <1>0 DEF LocksMatchStages, Committed
<1>2. CASE ~Commits
  <2>1. /\ rows' \cap issued \subseteq rows
        /\ \A c \in issued : expiresAt'[c] = expiresAt[c]
        /\ \A t \in Submissions :
              /\ sub'[t].stage \in Committed <=> sub[t].stage \in Committed
              /\ sub[t].stage \in Committed => sub'[t] = sub[t]
    BY <1>2, NoCommit
  <2>2. \A c \in Challenges : \A t \in Consumers(c)' :
          t \in Consumers(c) /\ sub'[t] = sub[t] /\ c \in issued
    BY <1>1, <2>1 DEF Consumers
  <2>3. \A c \in Challenges : \A s, t \in Consumers(c)' : s = t
    BY <1>0, <2>2 DEF OneUse
  <2>4. ASSUME NEW c \in Challenges, NEW t \in Consumers(c)'
        PROVE  sub'[t].right /\ sub'[t].now < expiresAt'[c] /\ c \notin rows'
    <3>1. t \in Consumers(c) /\ sub'[t] = sub[t] /\ c \in issued
      BY <2>2
    <3>2. sub[t].right /\ sub[t].now < expiresAt[c] /\ c \notin rows
      BY <1>0, <3>1 DEF OneUse
    <3>3. QED
      BY <2>1, <3>1, <3>2
  <2>5. QED
    BY <2>3, <2>4 DEF OneUse
<1>3. ASSUME NEW s \in Submissions, NEW stage \in Committed, Commit(s, stage)
      PROVE  OneUse'
  <2>1. /\ sub[s].right /\ sub[s].now < expiresAt[sub[s].token]
        /\ Consumers(sub[s].token) = {}
    BY <1>3, CompleteHolds DEF Commit
  <2>2. /\ rows' = rows \ {sub[s].token} /\ UNCHANGED expiresAt /\ Goes(s, stage)
    BY <1>3 DEF Commit
  <2>3. \A t \in Submissions :
          /\ sub'[t].token = sub[t].token /\ sub'[t].right = sub[t].right
          /\ sub'[t].now = sub[t].now
          /\ sub'[t].stage = IF t = s THEN stage ELSE sub[t].stage
    BY <1>0, <2>2, GoesFacts
  <2>4. \A c \in Challenges : \A t \in Consumers(c)' :
          \/ t = s /\ c = sub[s].token
          \/ t \in Consumers(c) /\ c # sub[s].token
    BY <2>1, <2>3 DEF Consumers
  <2>5. \A c \in Challenges : \A t, u \in Consumers(c)' : t = u
    BY <1>0, <2>4 DEF OneUse
  <2>6. ASSUME NEW c \in Challenges, NEW t \in Consumers(c)'
        PROVE  sub'[t].right /\ sub'[t].now < expiresAt'[c] /\ c \notin rows'
    <3>1. t \in Submissions
      BY DEF Consumers
    <3>2. CASE t = s /\ c = sub[s].token
      BY <2>1, <2>2, <2>3, <3>2
    <3>3. CASE t \in Consumers(c) /\ c # sub[s].token
      <4>1. sub[t].right /\ sub[t].now < expiresAt[c] /\ c \notin rows
        BY <1>0, <3>3 DEF OneUse
      <4>2. QED
        BY <2>2, <2>3, <3>1, <4>1
    <3>4. QED
      BY <2>4, <3>2, <3>3
  <2>7. QED
    BY <2>5, <2>6 DEF OneUse
<1>4. QED
  BY <1>2, <1>3 DEF Commits

\* Of two transactions that hold locks of the same content, there is one.
LEMMA OneSearcher ==
  ASSUME SubInv, NEW s \in Submissions, NEW t \in Submissions,
         sub[s].stage \in Searching, sub[t].stage \in Searching,
         sub[s].content = sub[t].content
  PROVE  s = t
BY DEF SubInv, LocksMatchStages

\* What a transaction has found stays true while it holds its lock.
LEMMA SearchesStep ==
  ASSUME SubInv, [Next]_vars
  PROVE  SearchesHold'
<1>0. SubTypeOK /\ SearchesHold
  BY DEF SubInv
<1>1. ASSUME UNCHANGED stored,
             \A t \in Submissions : sub'[t].stage \in {"inserted", "found"} =>
               sub'[t] = sub[t]
      PROVE  SearchesHold'
  BY <1>0, <1>1 DEF SearchesHold, Identical
<1>2. CASE UNCHANGED vars \/ Purge \/ Tick
  BY <1>1, <1>2 DEF vars, Purge, Tick
<1>3. ASSUME NEW c \in Challenges, Issue(c)
      PROVE  SearchesHold'
  BY <1>1, <1>3 DEF Issue
<1>4. ASSUME NEW s \in Submissions, NEW c \in Challenges, NEW right \in BOOLEAN,
             NEW content \in Contents \cup {Upload}, Begin(s, c, right, content)
      PROVE  SearchesHold'
  <2>1. \A t \in Submissions : sub'[t].stage \in {"inserted", "found"} => sub'[t] = sub[t]
    BY <1>0, <1>4 DEF Begin, SubTypeOK
  <2>2. QED
    BY <1>1, <1>4, <2>1 DEF Begin
<1>5. ASSUME NEW s \in Submissions, NEW stage, stage \notin {"inserted", "found"},
             Goes(s, stage), UNCHANGED stored
      PROVE  SearchesHold'
  <2>1. \A t \in Submissions : sub'[t].stage \in {"inserted", "found"} => sub'[t] = sub[t]
    BY <1>0, <1>5, GoesFacts
  <2>2. QED
    BY <1>1, <1>5, <2>1
<1>6. ASSUME NEW s \in Submissions, Delete(s) \/ DeleteFindsNothing(s) \/ Lock(s)
      PROVE  SearchesHold'
  BY <1>5, <1>6 DEF Delete, DeleteFindsNothing, Lock
<1>7. ASSUME NEW s \in Submissions, Search(s)
      PROVE  SearchesHold'
  <2>1. \A t \in Submissions : Identical(t)' = Identical(t)
    <3>1. UNCHANGED stored
      BY <1>7 DEF Search
    <3>2. \A t \in Submissions : sub'[t].content = sub[t].content /\ sub'[t].now = sub[t].now
      BY <1>0, <1>7, GoesFacts DEF Search
    <3>3. QED
      BY <3>1, <3>2 DEF Identical
  <2>2. \A t \in Submissions \ {s} : sub'[t].stage = sub[t].stage
    BY <1>0, <1>7, GoesFacts DEF Search
  <2>3. sub'[s].stage = IF Identical(s) = {} THEN "inserted" ELSE "found"
    BY <1>0, <1>7, GoesFacts DEF Search
  <2>4. QED
    BY <1>0, <2>1, <2>2, <2>3 DEF SearchesHold
<1>8. ASSUME NEW s \in Submissions, NEW stage \in {"refused", "wrong", "failed"},
             RollBack(s, stage)
      PROVE  SearchesHold'
  BY <1>5, <1>8 DEF RollBack
<1>9. ASSUME NEW s \in Submissions, NEW stage \in Committed, Commit(s, stage)
      PROVE  SearchesHold'
  <2>1. stage \notin {"inserted", "found"} /\ Goes(s, stage)
    BY <1>9 DEF Commit, Committed
  <2>2. ASSUME NEW t \in Submissions, sub'[t].stage \in {"inserted", "found"}
        PROVE  t # s /\ sub'[t] = sub[t]
    BY <1>0, <2>1, <2>2, GoesFacts
  <2>3. stored \subseteq stored'
    BY <1>9 DEF Commit
  <2>4. ASSUME NEW t \in Submissions, sub'[t].stage = "found"
        PROVE  Identical(t)' # {}
    <3>1. Identical(t) # {} /\ sub'[t] = sub[t]
      BY <1>0, <2>2, <2>4 DEF SearchesHold
    <3>2. QED
      BY <2>3, <3>1 DEF Identical
  <2>5. ASSUME NEW t \in Submissions, sub'[t].stage = "inserted"
        PROVE  Identical(t)' = {}
    <3>1. t # s /\ sub'[t] = sub[t] /\ sub[t].stage \in Searching
      BY <2>2, <2>5 DEF Searching
    <3>2. Identical(t) = {}
      BY <1>0, <2>5, <3>1 DEF SearchesHold
    <3>3. sub[s].stage = "inserted" => NewRow(s).content # sub[t].content
      BY <3>1, OneSearcher DEF NewRow, Searching
    <3>4. \A r \in stored' : r \in stored \/ r.content # sub[t].content
      BY <1>9, <3>3 DEF Commit
    <3>5. QED
      BY <3>1, <3>2, <3>4 DEF Identical
  <2>6. QED
    BY <2>4, <2>5 DEF SearchesHold
<1>10. QED
  BY <1>2, <1>3, <1>4, <1>6, <1>7, <1>8, <1>9, Kinds DEF Commits

\* A stored request is the only one of its content in its window.
LEMMA WindowStep ==
  ASSUME SubInv, [Next]_vars
  PROVE  WindowHolds'
<1>0. SubTypeOK /\ WindowHolds /\ SearchesHold
  BY DEF SubInv
<1>1. CASE stored' = stored
  BY <1>0, <1>1 DEF WindowHolds
<1>2. ASSUME NEW s \in Submissions, sub[s].stage = "inserted",
             stored' = stored \cup {NewRow(s)}
      PROVE  WindowHolds'
  <2>1. ASSUME NEW r \in stored, r.content = sub[s].content
        PROVE  r.at + Window < sub[s].now
    <3>1. ~(r.at >= sub[s].now - Window)
      BY <1>0, <1>2, <2>1 DEF SearchesHold, Identical
    <3>2. r.at \in Nat /\ sub[s].now \in Nat
      BY <1>0, <2>1 DEF SubTypeOK, Submission
    <3>3. QED
      BY <3>1, <3>2, SubmissionsAssumption
  <2>2. NewRow(s).content = sub[s].content /\ NewRow(s).at = sub[s].now /\ NewRow(s).by = s
    BY DEF NewRow
  <2>3. ASSUME NEW q \in stored', NEW r \in stored', q.content = r.content, q.by # r.by
        PROVE  q.at + Window < r.at \/ r.at + Window < q.at
    <3>1. CASE q \in stored /\ r \in stored
      BY <1>0, <2>3, <3>1 DEF WindowHolds
    <3>2. CASE q = NewRow(s) /\ r \in stored
      BY <2>1, <2>2, <2>3, <3>2
    <3>3. CASE q \in stored /\ r = NewRow(s)
      BY <2>1, <2>2, <2>3, <3>3
    <3>4. QED
      BY <1>2, <2>3, <3>1, <3>2, <3>3
  <2>4. QED
    BY <2>3 DEF WindowHolds
<1>3. ASSUME NEW s \in Submissions, NEW stage \in Committed, Commit(s, stage)
      PROVE  WindowHolds'
  BY <1>1, <1>2, <1>3 DEF Commit
<1>4. QED
  BY <1>1, <1>3, NoCommit DEF Commits

\* Who was told 202 has their request stored.
LEMMA NothingLostStep ==
  ASSUME SubInv, [Next]_vars
  PROVE  NothingLost'
<1>0. SubTypeOK /\ NothingLost /\ SearchesHold
  BY DEF SubInv
<1>1. ASSUME NEW t \in Submissions, sub[t].stage \in {"accepted", "duplicate"},
             sub[t].content # Upload, stored \subseteq stored'
      PROVE  \E r \in stored' : r.content = sub[t].content /\ r.at + Window >= sub[t].now
  BY <1>0, <1>1 DEF NothingLost
<1>2. CASE ~Commits
  <2>1. ASSUME NEW t \in Submissions, sub'[t].stage \in {"accepted", "duplicate"}
        PROVE  sub'[t] = sub[t] /\ stored' = stored
    BY <1>2, <2>1, NoCommit DEF Committed
  <2>2. QED
    BY <1>1, <2>1 DEF NothingLost
<1>3. ASSUME NEW s \in Submissions, NEW stage \in Committed, Commit(s, stage),
             stage = "accepted" => sub[s].stage # "found"
      PROVE  NothingLost'
  <2>1. Goes(s, stage) /\ stored \subseteq stored'
    BY <1>3 DEF Commit
  <2>2. \A t \in Submissions :
          /\ sub'[t].content = sub[t].content /\ sub'[t].now = sub[t].now
          /\ t # s => sub'[t] = sub[t]
    BY <1>0, <2>1, GoesFacts
  <2>3. sub[s].now \in Nat /\ Window \in Nat
    BY <1>0, SubmissionsAssumption DEF SubTypeOK, Submission
  <2>4. ASSUME sub[s].content # Upload
        PROVE  \E r \in stored' : r.content = sub[s].content /\ r.at + Window >= sub[s].now
    <3>1. CASE sub[s].stage = "inserted"
      <4>1. NewRow(s) \in stored'
        BY <1>3, <3>1 DEF Commit
      <4>2. NewRow(s).content = sub[s].content /\ NewRow(s).at + Window >= sub[s].now
        BY <2>3 DEF NewRow
      <4>3. QED
        BY <4>1, <4>2
    <3>2. CASE sub[s].stage = "found"
      <4>1. PICK r \in stored : r.content = sub[s].content /\ r.at >= sub[s].now - Window
        BY <1>0, <3>2 DEF SearchesHold, Identical
      <4>2. r.at \in Nat
        BY <1>0 DEF SubTypeOK
      <4>3. r.at + Window >= sub[s].now
        BY <2>3, <4>1, <4>2
      <4>4. QED
        BY <2>1, <4>1, <4>3
    <3>3. QED
      BY <1>3, <2>4, <3>1, <3>2 DEF Commit, Complete
  <2>5. ASSUME NEW t \in Submissions, sub'[t].stage \in {"accepted", "duplicate"},
               sub'[t].content # Upload
        PROVE  \E r \in stored' : r.content = sub'[t].content /\ r.at + Window >= sub'[t].now
    <3>1. CASE t = s
      BY <2>2, <2>4, <2>5, <3>1
    <3>2. CASE t # s
      BY <1>1, <2>1, <2>2, <2>5, <3>2
    <3>3. QED
      BY <3>1, <3>2
  <2>6. QED
    BY <2>5 DEF NothingLost
<1>4. QED
  BY <1>2, <1>3 DEF Commits

LEMMA Initially ==
  ASSUME Init
  PROVE  SubInv
<1> USE SubmissionsAssumption DEF Init, NoSubmission
<1>1. NoSubmission \in Submission
  BY DEF Submission, Stages
<1>2. SubTypeOK
  BY <1>1 DEF SubTypeOK
<1>3. LocksMatchStages
  BY DEF LocksMatchStages, Consuming, Searching
<1>4. SearchesHold /\ OneUse /\ WindowHolds /\ NothingLost
  BY DEF SearchesHold, OneUse, WindowHolds, NothingLost, Consumers, Committed
<1>5. QED
  BY <1>2, <1>3, <1>4 DEF SubInv

---------------------------------------------------------------------------
\* Locks and stages agree, what a locked search has found stays true, and the
\* three properties below hold, whatever the interleaving of the transactions
\* of public-verification.ts and role-requests/routes.ts.
THEOREM SubmissionInvariant == Spec => []SubInv
<1>1. ASSUME SubInv, [Next]_vars
      PROVE  SubInv'
  BY <1>1, TypeStep, LocksStep, SearchesStep, OneUseStep, WindowStep, NothingLostStep
     DEF SubInv
<1>2. QED
  BY <1>1, Initially, PTL DEF Spec

\* consumeChallenge: of all requests with the same cookie at most one is
\* admitted, with the right answer and a challenge that had not expired.
THEOREM ChallengeUsedOnce == Spec => []OneUse
<1>1. SubInv => OneUse
  BY DEF SubInv
<1>2. QED
  BY <1>1, SubmissionInvariant, PTL

\* createRoleRequest: identical requests are stored once per window.
THEOREM RequestsDistinct == Spec => []WindowHolds
<1>1. SubInv => WindowHolds
  BY DEF SubInv
<1>2. QED
  BY <1>1, SubmissionInvariant, PTL

\* createRoleRequest: whoever is told that the request is pending finds it, or
\* the identical one of the window, in role_requests.
THEOREM AnswersKept == Spec => []NothingLost
<1>1. SubInv => NothingLost
  BY DEF SubInv
<1>2. QED
  BY <1>1, SubmissionInvariant, PTL

---------------------------------------------------------------------------
(* Submissions act atomically.                                             *)

\* A transaction whose DELETE found nothing would find nothing later either.
MissesStand == \A s \in Submissions : sub[s].stage = "unmatched" => ~Valid(s)

LEMMA MissesStep ==
  ASSUME SubInv, MissesStand, [Next]_vars
  PROVE  MissesStand'
<1>0. SubTypeOK /\ LocksMatchStages
  BY DEF SubInv
<1>1. SUFFICES ASSUME NEW s \in Submissions, sub'[s].stage = "unmatched"
               PROVE  ~Valid(s)'
  BY DEF MissesStand
<1>2. ASSUME sub[s].stage # "idle", ~Valid(s), UNCHANGED <<sub[s].token, sub[s].now>>,
             rows' \cap issued \subseteq rows, \A c \in issued : expiresAt'[c] = expiresAt[c]
      PROVE  ~Valid(s)'
  BY <1>0, <1>2 DEF LocksMatchStages, Valid
<1>3. CASE ~Commits
  <2>1. rows' \cap issued \subseteq rows /\ \A c \in issued : expiresAt'[c] = expiresAt[c]
    BY <1>3, NoCommit
  <2>2. CASE sub' = sub
    BY <1>1, <1>2, <2>1, <2>2 DEF MissesStand
  <2>3. ASSUME NEW t \in Submissions, NEW stage, Goes(t, stage),
               stage = "unmatched" => sub[t].stage = "begun" /\ ~Valid(t)
        PROVE  ~Valid(s)'
    <3>1. /\ sub'[s].token = sub[s].token /\ sub'[s].now = sub[s].now
          /\ sub'[s].stage = IF s = t THEN stage ELSE sub[s].stage
      BY <1>0, <2>3, GoesFacts
    <3>2. ~Valid(s) /\ sub[s].stage # "idle"
      BY <1>1, <2>3, <3>1 DEF MissesStand
    <3>3. QED
      BY <1>2, <2>1, <3>1, <3>2
  <2>4. ASSUME NEW t \in Submissions, NEW c \in Challenges, NEW right \in BOOLEAN,
               NEW content \in Contents \cup {Upload}, Begin(t, c, right, content)
        PROVE  ~Valid(s)'
    <3>1. sub'[s] = sub[s]
      BY <1>0, <1>1, <2>4 DEF Begin, SubTypeOK
    <3>2. QED
      BY <1>1, <1>2, <2>1, <3>1 DEF MissesStand
  <2>5. CASE UNCHANGED vars \/ Purge \/ Tick \/ \E c \in Challenges : Issue(c)
    BY <2>2, <2>5 DEF vars, Purge, Tick, Issue
  <2>6. ASSUME NEW t \in Submissions,
               \/ Delete(t) \/ DeleteFindsNothing(t) \/ Lock(t) \/ Search(t)
               \/ \E stage \in {"refused", "wrong", "failed"} : RollBack(t, stage)
        PROVE  ~Valid(s)'
    BY <2>3, <2>6 DEF Delete, DeleteFindsNothing, Lock, Search, RollBack
  <2>7. QED
    BY <1>3, <2>4, <2>5, <2>6, Kinds
<1>4. ASSUME NEW t \in Submissions, NEW stage \in Committed, Commit(t, stage)
      PROVE  ~Valid(s)'
  <2>1. /\ sub'[s].token = sub[s].token /\ sub'[s].now = sub[s].now
        /\ sub'[s].stage = IF s = t THEN stage ELSE sub[s].stage
    BY <1>0, <1>4, GoesFacts DEF Commit
  <2>2. sub[s].stage = "unmatched"
    BY <1>1, <1>4, <2>1 DEF Committed
  <2>3. rows' \subseteq rows /\ expiresAt' = expiresAt
    BY <1>4 DEF Commit
  <2>4. QED
    BY <1>2, <2>1, <2>2, <2>3 DEF MissesStand
<1>5. QED
  BY <1>3, <1>4 DEF Commits

\* What the abstract operators say of the transactions.
LEMMA Mapped ==
  ASSUME SubInv, NEW s \in Submissions
  PROVE  /\ Atomic!Identical(s) = Identical(s)
         /\ sub[s].stage \in Open => (Atomic!Usable(s) <=> Valid(s))
         /\ Atomic!Keeps(s) <=> sub[s].content # Upload /\ Identical(s) = {}
<1>1. RequestOf(s).content = sub[s].content /\ RequestOf(s).now = sub[s].now
      /\ RequestOf(s).token = sub[s].token
  BY DEF RequestOf
<1>2. Atomic!Identical(s) = Identical(s)
  BY <1>1 DEF Atomic!Identical, Identical
<1>3. ASSUME sub[s].stage \in Open
      PROVE  Atomic!Usable(s) <=> Valid(s)
  <2>1. sub[s].token \in issued /\ sub[s].token \in Challenges
    BY <1>3 DEF SubInv, SubTypeOK, LocksMatchStages, Open, Consuming
  <2>2. ChallengeOf(sub[s].token) = "open" <=> sub[s].token \in rows
    BY <2>1 DEF ChallengeOf
  <2>3. QED
    BY <1>1, <2>1, <2>2 DEF Atomic!Usable, Valid
<1>4. QED
  BY <1>1, <1>2, <1>3 DEF Atomic!Keeps

\* A step that moves one submission on, and commits nothing, moves its outcome
\* and nothing else.
LEMMA OutcomeMoves ==
  ASSUME SubInv, [Next]_vars, ~Commits, UNCHANGED <<issued, rows>>,
         NEW s \in Submissions, NEW stage, stage # "idle", Goes(s, stage)
  PROVE  /\ [c \in Challenges |-> ChallengeOf(c)]' = [c \in Challenges |-> ChallengeOf(c)]
         /\ [t \in Submissions |-> RequestOf(t)]' = [t \in Submissions |-> RequestOf(t)]
         /\ [t \in Submissions |-> OutcomeOf(t)]' =
              [[t \in Submissions |-> OutcomeOf(t)] EXCEPT
                 ![s] = IF stage \in Open THEN "asked" ELSE stage]
<1>0. SubTypeOK
  BY DEF SubInv
<1>1. \A c \in Challenges : Consumers(c)' = Consumers(c)
  <2>1. \A t \in Submissions : sub'[t].token = sub[t].token
    BY <1>0, GoesFacts
  <2>2. \A t \in Submissions : sub'[t].stage \in Committed <=> sub[t].stage \in Committed
    BY NoCommit
  <2>3. QED
    BY <2>1, <2>2 DEF Consumers
<1>2. \A c \in Challenges : ChallengeOf(c)' = ChallengeOf(c)
  BY <1>1 DEF ChallengeOf
<1>3. \A t \in Submissions : RequestOf(t)' = RequestOf(t)
  BY <1>0, GoesFacts DEF RequestOf
<1>4. \A t \in Submissions :
        OutcomeOf(t)' = IF t = s THEN IF stage \in Open THEN "asked" ELSE stage ELSE OutcomeOf(t)
  BY <1>0, GoesFacts DEF OutcomeOf
<1>5. QED
  BY <1>2, <1>3, <1>4

\* A sweep of expired challenges, and the challenge issued with it.
LEMMA Sweeps ==
  ASSUME SubInv, UNCHANGED sub, NEW C \in SUBSET Challenges, issued' = issued \cup C,
         C \cap issued = {}, rows' = (rows \ Expired) \cup C
  PROVE  /\ Expired \in SUBSET Atomic!Lapsed
         /\ \A c \in Challenges : ChallengeOf(c)' =
              IF c \in C THEN "open" ELSE IF c \in Expired THEN "over" ELSE ChallengeOf(c)
<1>0. SubTypeOK /\ \A c \in rows : Consumers(c) = {}
  BY DEF SubInv, SubTypeOK, OneUse
<1>1. \A c \in Challenges : Consumers(c)' = Consumers(c)
  BY DEF Consumers
<1>2. Expired \in SUBSET Atomic!Lapsed
  BY <1>0 DEF Expired, Atomic!Lapsed, ChallengeOf, SubTypeOK
<1>3. ASSUME NEW c \in Challenges
      PROVE  ChallengeOf(c)' =
               IF c \in C THEN "open" ELSE IF c \in Expired THEN "over" ELSE ChallengeOf(c)
  <2>1. c \in Expired => c \in rows /\ c \in issued
    BY <1>0 DEF Expired, SubTypeOK
  <2>2. QED
    BY <1>0, <1>1, <2>1 DEF ChallengeOf
<1>4. QED
  BY <1>2, <1>3

\* A commit is a submission served.
LEMMA CommitServes ==
  ASSUME SubInv, NEW s \in Submissions, NEW stage \in Committed, Commit(s, stage),
         stage \in {"lost", IF sub[s].stage = "found" THEN "duplicate" ELSE "accepted"}
  PROVE  Atomic!Serve(s, stage)
<1>0. SubTypeOK /\ SearchesHold /\ Complete(s)
  BY DEF SubInv, Commit
<1>1. PICK c \in Challenges :
        /\ c = sub[s].token /\ sub[s].stage \in Consuming /\ sub[s].right /\ c \in rows
        /\ c \in issued /\ sub[s].now < expiresAt[c]
  BY <1>0, CompleteHolds DEF SubTypeOK
<1>2. sub[s].stage \in Open /\ OutcomeOf(s) = "asked" /\ Valid(s)
  <2>1. sub[s].now \in Nat /\ expiresAt[c] \in Nat
    BY <1>0, <1>1 DEF SubTypeOK, Submission
  <2>2. sub[s].stage \in Open /\ sub[s].stage # "idle"
    BY <1>1 DEF Open, Consuming
  <2>3. QED
    BY <1>1, <2>1, <2>2 DEF OutcomeOf, Valid
<1>3. \A t \in Submissions :
        /\ RequestOf(t)' = RequestOf(t) /\ sub'[t].token = sub[t].token
        /\ sub'[t].stage = IF t = s THEN stage ELSE sub[t].stage
  BY <1>0, GoesFacts DEF Commit, RequestOf
<1>4. \A t \in Submissions : OutcomeOf(t)' = IF t = s THEN stage ELSE OutcomeOf(t)
  BY <1>3 DEF OutcomeOf, Committed, Open, Consuming
<1>5. \A d \in Challenges : ChallengeOf(d)' = IF d = c THEN "used" ELSE ChallengeOf(d)
  <2>1. /\ \A d \in Challenges \ {c} : Consumers(d)' = Consumers(d)
        /\ s \in Consumers(c)'
    BY <1>1, <1>3 DEF Consumers, Committed
  <2>2. UNCHANGED issued /\ rows' = rows \ {c}
    BY <1>1 DEF Commit
  <2>3. ChallengeOf(c)' = "used"
    BY <1>1, <2>1, <2>2 DEF ChallengeOf
  <2>4. ASSUME NEW d \in Challenges \ {c}
        PROVE  ChallengeOf(d)' = ChallengeOf(d)
    <3>1. Consumers(d)' = Consumers(d) /\ (d \in rows' <=> d \in rows) /\ issued' = issued
      BY <2>1, <2>2
    <3>2. QED
      BY <3>1 DEF ChallengeOf
  <2>5. QED
    BY <2>3, <2>4
<1>6. /\ sub[s].stage = "inserted" <=> sub[s].content # Upload /\ Identical(s) = {}
      /\ sub[s].stage = "found" <=> Identical(s) # {}
  <2>1. sub[s].content = Upload => Identical(s) = {}
    BY <1>0, SubmissionsAssumption DEF SubTypeOK, Identical
  <2>2. sub[s].stage \in {"found", "inserted"} => sub[s].content # Upload
    BY DEF SubInv, LocksMatchStages, Searching
  <2>3. QED
    BY <1>0, <2>1, <2>2 DEF SearchesHold, Complete
<1>7. stored' = IF Atomic!Keeps(s)
                  THEN stored \cup {[content |-> RequestOf(s).content,
                                     at |-> RequestOf(s).now, by |-> s]}
                  ELSE stored
  BY <1>6, Mapped DEF Commit, NewRow, RequestOf
<1>8. stage \in {"lost", IF Atomic!Identical(s) = {} THEN "accepted" ELSE "duplicate"}
  BY <1>6, Mapped
<1>9. Atomic!Usable(s) /\ RequestOf(s).right /\ RequestOf(s).token = c
  BY <1>1, <1>2, Mapped DEF RequestOf
<1>10. UNCHANGED <<clock, expiresAt>>
  BY DEF Commit
<1>11. [t \in Submissions |-> OutcomeOf(t)]'
         = [[t \in Submissions |-> OutcomeOf(t)] EXCEPT ![s] = stage]
  BY <1>4
<1>12. [d \in Challenges |-> ChallengeOf(d)]'
         = [[d \in Challenges |-> ChallengeOf(d)] EXCEPT ![c] = "used"]
  BY <1>5
<1>13. [t \in Submissions |-> RequestOf(t)]' = [t \in Submissions |-> RequestOf(t)]
  BY <1>3
<1>14. QED
  BY <1>2, <1>7, <1>8, <1>9, <1>10, <1>11, <1>12, <1>13 DEF Atomic!Serve

\* A rollback is a submission refused, for the reason the visitor is given.
LEMMA RollBackRefuses ==
  ASSUME SubInv, MissesStand, [Next]_vars, NEW s \in Submissions, Refuse(s) \/ Fail(s)
  PROVE  \E answer \in {"refused", "wrong", "failed"} : Atomic!Refuse(s, answer)
<1>1. PICK answer \in {"refused", "wrong", "failed"} :
        /\ RollBack(s, answer) /\ sub[s].stage \in Open
        /\ answer = "refused" => sub[s].stage = "unmatched"
        /\ answer = "wrong" => sub[s].stage = "matched" /\ ~sub[s].right
  BY DEF Refuse, Fail, Open, Consuming
<1>2. ~Commits
  <2>1. sub'[s].stage = answer /\ \A t \in Submissions \ {s} : sub'[t].stage = sub[t].stage
    BY <1>1, GoesFacts DEF RollBack, SubInv
  <2>2. ASSUME NEW t \in Submissions, NEW stage \in Committed, Commit(t, stage)
        PROVE  FALSE
    <3>1. sub'[t].stage = stage /\ sub[t].stage \in Consuming
      BY <2>2, GoesFacts, CompleteHolds DEF Commit, SubInv
    <3>2. QED
      BY <2>1, <3>1 DEF Committed, Consuming
  <2>3. QED
    BY <2>2 DEF Commits
<1>3. /\ UNCHANGED <<clock, issued, rows, expiresAt, stored>> /\ Goes(s, answer)
      /\ answer # "idle" /\ answer \notin Open
  BY <1>1 DEF RollBack, Open, Consuming
<1>4. /\ [c \in Challenges |-> ChallengeOf(c)]' = [c \in Challenges |-> ChallengeOf(c)]
      /\ [t \in Submissions |-> RequestOf(t)]' = [t \in Submissions |-> RequestOf(t)]
      /\ [t \in Submissions |-> OutcomeOf(t)]' =
           [[t \in Submissions |-> OutcomeOf(t)] EXCEPT ![s] = answer]
  BY <1>2, <1>3, OutcomeMoves
<1>5. OutcomeOf(s) = "asked"
  BY <1>1 DEF OutcomeOf, Open, Consuming
<1>6. answer = "refused" => ~Atomic!Usable(s)
  BY <1>1, Mapped DEF MissesStand
<1>7. answer = "wrong" => Atomic!Usable(s) /\ ~RequestOf(s).right
  <2>1. ASSUME sub[s].stage = "matched"
        PROVE  Valid(s)
    <3>1. deleter[sub[s].token] = s /\ sub[s].token \in Challenges
      BY <2>1 DEF SubInv, SubTypeOK, LocksMatchStages, Consuming
    <3>2. sub[s].token \in rows /\ sub[s].now < expiresAt[sub[s].token]
      BY <3>1, SubmissionsAssumption DEF SubInv, LocksMatchStages
    <3>3. sub[s].now \in Nat /\ expiresAt[sub[s].token] \in Nat
      BY <3>1 DEF SubInv, SubTypeOK, Submission
    <3>4. QED
      BY <3>2, <3>3 DEF Valid
  <2>2. QED
    BY <1>1, <2>1, Mapped DEF RequestOf
<1>8. Atomic!Refuse(s, answer)
  BY <1>3, <1>4, <1>5, <1>6, <1>7 DEF Atomic!Refuse
<1>9. QED
  BY <1>8

\* Every step is a step of the abstract specification, or none.
LEMMA AtomicStep ==
  ASSUME SubInv, MissesStand, [Next]_vars
  PROVE  [Atomic!Next]_Atomic!vars
<1>0. SubTypeOK
  BY DEF SubInv
<1>1. CASE UNCHANGED vars
  BY <1>1 DEF vars, Atomic!vars, ChallengeOf, RequestOf, OutcomeOf, Consumers
<1>2. CASE Tick
  <2>1. Atomic!Tick
    BY <1>2 DEF Tick, Atomic!Tick, ChallengeOf, RequestOf, OutcomeOf, Consumers
  <2>2. QED
    BY <2>1 DEF Atomic!Next
<1>3. CASE Purge
  <2>1. /\ Expired \in SUBSET Atomic!Lapsed
        /\ \A c \in Challenges : ChallengeOf(c)' =
             IF c \in Expired THEN "over" ELSE ChallengeOf(c)
    <3>1. /\ {} \in SUBSET Challenges /\ issued' = issued \cup {} /\ {} \cap issued = {}
          /\ rows' = (rows \ Expired) \cup {} /\ UNCHANGED sub
      BY <1>3 DEF Purge
    <3>2. \A c \in Challenges : c \notin {}
      OBVIOUS
    <3>3. QED
      BY <3>1, <3>2, Sweeps
  <2>2. [c \in Challenges |-> ChallengeOf(c)]' = Atomic!Without(Expired)
    BY <2>1 DEF Atomic!Without
  <2>3. Atomic!Purge
    BY <1>3, <2>1, <2>2 DEF Purge, Atomic!Purge, RequestOf, OutcomeOf
  <2>4. QED
    BY <2>3 DEF Atomic!Next
<1>4. ASSUME NEW c \in Challenges, Issue(c)
      PROVE  Atomic!Next
  <2>1. /\ Expired \in SUBSET Atomic!Lapsed
        /\ \A d \in Challenges : ChallengeOf(d)' =
             IF d \in {c} THEN "open" ELSE IF d \in Expired THEN "over" ELSE ChallengeOf(d)
    <3>1. /\ {c} \in SUBSET Challenges /\ issued' = issued \cup {c} /\ {c} \cap issued = {}
          /\ rows' = (rows \ Expired) \cup {c} /\ UNCHANGED sub
      BY <1>4 DEF Issue
    <3>2. QED
      BY <3>1, Sweeps
  <2>2. [d \in Challenges |-> ChallengeOf(d)]' = [Atomic!Without(Expired) EXCEPT ![c] = "open"]
    BY <2>1 DEF Atomic!Without
  <2>3. ChallengeOf(c) = "fresh"
    BY <1>4 DEF Issue, ChallengeOf
  <2>4. Atomic!Issue(c)
    BY <1>4, <2>1, <2>2, <2>3 DEF Issue, Atomic!Issue, RequestOf, OutcomeOf
  <2>5. QED
    BY <2>4 DEF Atomic!Next
<1>5. ASSUME NEW s \in Submissions, NEW c \in Challenges, NEW right \in BOOLEAN,
             NEW content \in Contents \cup {Upload}, Begin(s, c, right, content)
      PROVE  Atomic!Next
  <2> DEFINE r == [token |-> c, right |-> right, content |-> content, now |-> clock]
  <2>1. /\ sub'[s] = [stage |-> "begun", token |-> c, right |-> right, content |-> content,
                      now |-> clock]
        /\ sub[s].stage = "idle" /\ \A t \in Submissions \ {s} : sub'[t] = sub[t]
    BY <1>0, <1>5 DEF Begin, SubTypeOK
  <2>2. \A d \in Challenges : Consumers(d)' = Consumers(d)
    BY <2>1 DEF Consumers, Committed
  <2>3. UNCHANGED <<clock, issued, rows, expiresAt, stored>> /\ c \in issued
    BY <1>5 DEF Begin
  <2>4. [d \in Challenges |-> ChallengeOf(d)]' = [d \in Challenges |-> ChallengeOf(d)]
    BY <2>2, <2>3 DEF ChallengeOf
  <2>5. [t \in Submissions |-> OutcomeOf(t)]'
          = [[t \in Submissions |-> OutcomeOf(t)] EXCEPT ![s] = "asked"]
    <3>1. OutcomeOf(s)' = "asked" /\ \A t \in Submissions \ {s} : OutcomeOf(t)' = OutcomeOf(t)
      BY <2>1 DEF OutcomeOf, Open
    <3>2. QED
      BY <3>1
  <2>6. [t \in Submissions |-> RequestOf(t)]'
          = [[t \in Submissions |-> RequestOf(t)] EXCEPT ![s] = r]
    <3>1. RequestOf(s)' = r /\ \A t \in Submissions \ {s} : RequestOf(t)' = RequestOf(t)
      BY <2>1 DEF RequestOf
    <3>2. QED
      BY <3>1
  <2>7. OutcomeOf(s) = "none" /\ ChallengeOf(c) # "fresh"
    BY <2>1, <2>3 DEF OutcomeOf, ChallengeOf
  <2>8. Atomic!Ask(s, c, right, content)
    BY <2>3, <2>4, <2>5, <2>6, <2>7 DEF Atomic!Ask
  <2>9. QED
    BY <2>8 DEF Atomic!Next
<1>6. ASSUME NEW s \in Submissions,
             Delete(s) \/ DeleteFindsNothing(s) \/ Lock(s) \/ Search(s)
      PROVE  UNCHANGED Atomic!vars
  <2>1. PICK stage \in Open : Goes(s, stage) /\ sub[s].stage \in Open
    BY <1>6 DEF Delete, DeleteFindsNothing, Lock, Search, Open, Consuming
  <2>2. UNCHANGED <<clock, issued, rows, expiresAt, stored>>
    BY <1>6 DEF Delete, DeleteFindsNothing, Lock, Search
  <2>3. ~Commits
    <3>1. \A t \in Submissions : sub'[t].stage \in Committed => sub'[t].stage = sub[t].stage
      BY <1>0, <2>1, GoesFacts DEF Committed, Open, Consuming
    <3>2. ASSUME NEW t \in Submissions, NEW end \in Committed, Commit(t, end)
          PROVE  FALSE
      <4>1. sub'[t].stage = end /\ sub[t].stage \in Consuming
        BY <1>0, <3>2, GoesFacts, CompleteHolds DEF Commit
      <4>2. QED
        BY <3>1, <4>1 DEF Committed, Consuming
    <3>3. QED
      BY <3>2 DEF Commits
  <2>4. stage # "idle" /\ OutcomeOf(s) = "asked"
    BY <2>1 DEF Open, Consuming, OutcomeOf
  <2>5. /\ [c \in Challenges |-> ChallengeOf(c)]' = [c \in Challenges |-> ChallengeOf(c)]
        /\ [t \in Submissions |-> RequestOf(t)]' = [t \in Submissions |-> RequestOf(t)]
        /\ [t \in Submissions |-> OutcomeOf(t)]' =
             [[t \in Submissions |-> OutcomeOf(t)] EXCEPT ![s] = "asked"]
    BY <2>1, <2>2, <2>3, <2>4, OutcomeMoves
  <2>6. [t \in Submissions |-> OutcomeOf(t)]' = [t \in Submissions |-> OutcomeOf(t)]
    BY <2>4, <2>5
  <2>7. QED
    BY <2>2, <2>5, <2>6 DEF Atomic!vars
<1>7. ASSUME NEW s \in Submissions, Refuse(s) \/ Fail(s)
      PROVE  Atomic!Next
  BY <1>7, RollBackRefuses DEF Atomic!Next
<1>8. ASSUME NEW s \in Submissions, Answer(s)
      PROVE  Atomic!Next
  <2>1. PICK stage \in {"accepted", "duplicate", "lost"} : Atomic!Serve(s, stage)
    BY <1>8, CommitServes DEF Answer, Committed
  <2>2. QED
    BY <2>1 DEF Atomic!Next
<1>9. QED
  BY <1>1, <1>2, <1>3, <1>4, <1>5, <1>6, <1>7, <1>8 DEF Next, Step

\* consumePublicVerificationChallenge and the route of role requests, inside the
\* transactions of withContextTransaction: although they lock, wait, search and
\* roll back in several statements, every submission takes effect in one step or
\* not at all, and is refused only for the reason its visitor is given.
THEOREM SubmissionsAtomic == Spec => ActsAtomically
<1>1. Init => Atomic!Init
  <2> SUFFICES ASSUME Init PROVE Atomic!Init
    OBVIOUS
  <2>1. \A c \in Challenges : ChallengeOf(c) = "fresh"
    BY DEF Init, ChallengeOf
  <2>2. \A s \in Submissions : OutcomeOf(s) = "none" /\ RequestOf(s) = Atomic!NoRequest
    BY DEF Init, OutcomeOf, RequestOf, NoSubmission, Atomic!NoRequest
  <2>3. QED
    BY <2>1, <2>2 DEF Init, Atomic!Init
<1>2. Init => MissesStand
  BY DEF Init, MissesStand, NoSubmission
<1>3. SubInv /\ MissesStand /\ [Next]_vars => MissesStand'
  BY MissesStep
<1>4. SubInv /\ MissesStand /\ [Next]_vars => [Atomic!Next]_Atomic!vars
  BY AtomicStep
<1>5. QED
  BY <1>1, <1>2, <1>3, <1>4, SubmissionInvariant, PTL DEF Spec, ActsAtomically, Atomic!Spec
===========================================================================
