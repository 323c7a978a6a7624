-------------------------- MODULE WorkspaceProofs --------------------------
(***************************************************************************)
(* What a checkout promises to those who build in it, for any number of    *)
(* jobs of any kind and any number of edits and mishaps. WorkInv is        *)
(* inductive. It says of each job at which place of its program it is      *)
(* (Placed; a job that died may leave a build behind, which goes up to the *)
(* last step of the build), and what it may rely on there: BuildFits,      *)
(* ReleaseFits and PilotFits, most of it only while the sources are those  *)
(* of the commit it recorded (AtCommit). A pilot further relies on any     *)
(* client in place, or being built, being of its commit (ClientIs), and on *)
(* a bundle that names it as its launcher being its own build              *)
(* (LaunchKept). The argument is that only the owner of the lock touches   *)
(* the outputs (HoldersOwn, OneToucher, OneOwner), that what the others do *)
(* spares what a job relies on (OthersSpared), and that the sources of a   *)
(* commit, once left without being undone, do not come back                *)
(* (OutsideSpares).                                                        *)
(***************************************************************************)
EXTENDS Workspace, SequenceTheorems, TLAPS

-----------------------------------------------------------------------------
(* The programs of the jobs.                                               *)

Work ==
  {<<"lock", "own">>, <<"fill", "own">>, <<"unlock", "own">>, <<"join", "lent">>,
   <<"clean", "client">>, <<"clean", "bundle">>, <<"embed", "client">>,
   <<"write", "client">>, <<"write", "bundle">>, <<"read", "client">>, <<"read", "bundle">>,
   <<"record", "head">>, <<"again", "head">>, <<"load", "bundle">>, <<"check", "bundle">>,
   <<"serve", "client">>, <<"seal", "copy">>}

LEMMA One ==
  ASSUME NEW T, NEW x \in T
  PROVE  <<x>> \in Seq(T) /\ Len(<<x>>) = 1 /\ <<x>>[1] = x
  OBVIOUS

LEMMA Two ==
  ASSUME NEW T, NEW x \in T, NEW y \in T
  PROVE  <<x, y>> \in Seq(T) /\ Len(<<x, y>>) = 2 /\ <<x, y>>[1] = x /\ <<x, y>>[2] = y
  OBVIOUS

LEMMA Three ==
  ASSUME NEW T, NEW x \in T, NEW y \in T, NEW z \in T
  PROVE  /\ <<x, y, z>> \in Seq(T) /\ Len(<<x, y, z>>) = 3
         /\ <<x, y, z>>[1] = x /\ <<x, y, z>>[2] = y /\ <<x, y, z>>[3] = z
  OBVIOUS

LEMMA Four ==
  ASSUME NEW T, NEW x \in T, NEW y \in T, NEW z \in T, NEW w \in T
  PROVE  /\ <<x, y, z, w>> \in Seq(T) /\ Len(<<x, y, z, w>>) = 4
         /\ <<x, y, z, w>>[1] = x /\ <<x, y, z, w>>[2] = y
         /\ <<x, y, z, w>>[3] = z /\ <<x, y, z, w>>[4] = w
  OBVIOUS

LEMMA BuildsAre ==
  /\ ClientBuild \in Seq(Work) /\ Len(ClientBuild) = 2
  /\ ClientBuild[1] = <<"clean", "client">> /\ ClientBuild[2] = <<"write", "client">>
  /\ ServerBuild \in Seq(Work) /\ Len(ServerBuild) = 3
  /\ ServerBuild[1] = <<"clean", "bundle">> /\ ServerBuild[2] = <<"embed", "client">>
  /\ ServerBuild[3] = <<"write", "bundle">>
  /\ Reading \in Seq(Work) /\ Len(Reading) = 2
  /\ Reading[1] = <<"read", "bundle">> /\ Reading[2] = <<"read", "client">>
<1>1. /\ <<"clean", "client">> \in Work /\ <<"write", "client">> \in Work
      /\ <<"clean", "bundle">> \in Work /\ <<"embed", "client">> \in Work
      /\ <<"write", "bundle">> \in Work
      /\ <<"read", "bundle">> \in Work /\ <<"read", "client">> \in Work
  BY DEF Work
<1>2. /\ ClientBuild \in Seq(Work) /\ Len(ClientBuild) = 2
      /\ ClientBuild[1] = <<"clean", "client">> /\ ClientBuild[2] = <<"write", "client">>
  BY <1>1, Two DEF ClientBuild
<1>3. /\ ServerBuild \in Seq(Work) /\ Len(ServerBuild) = 3
      /\ ServerBuild[1] = <<"clean", "bundle">> /\ ServerBuild[2] = <<"embed", "client">>
      /\ ServerBuild[3] = <<"write", "bundle">>
  BY <1>1, Three DEF ServerBuild
<1>4. /\ Reading \in Seq(Work) /\ Len(Reading) = 2
      /\ Reading[1] = <<"read", "bundle">> /\ Reading[2] = <<"read", "client">>
  BY <1>1, Two DEF Reading
<1> QED
  BY <1>2, <1>3, <1>4

LEMMA LockedClientIs ==
  /\ Locked(ClientBuild) \in Seq(Work) /\ Len(Locked(ClientBuild)) = 5
  /\ Locked(ClientBuild)[1] = <<"lock", "own">>
  /\ Locked(ClientBuild)[2] = <<"fill", "own">>
  /\ Locked(ClientBuild)[3] = <<"clean", "client">>
  /\ Locked(ClientBuild)[4] = <<"write", "client">>
  /\ Locked(ClientBuild)[5] = <<"unlock", "own">>
<1> DEFINE a == <<<<"lock", "own">>, <<"fill", "own">>>>
           c == ClientBuild
           b == <<<<"unlock", "own">>>>
<1>1. /\ <<"lock", "own">> \in Work
      /\ <<"fill", "own">> \in Work
  BY DEF Work
<1>2. /\ a \in Seq(Work) /\ Len(a) = 2
      /\ a[1] = <<"lock", "own">> /\ a[2] = <<"fill", "own">>
  BY <1>1, Two
<1>3. /\ c \in Seq(Work) /\ Len(c) = 2
      /\ c[1] = <<"clean", "client">> /\ c[2] = <<"write", "client">>
  BY BuildsAre
<1>4. <<"unlock", "own">> \in Work
  BY DEF Work
<1>5. /\ b \in Seq(Work) /\ Len(b) = 1
      /\ b[1] = <<"unlock", "own">>
  BY <1>4, One
<1> DEFINE v == a \o c
           w == v \o b
<1>6. Locked(ClientBuild) = w
  BY DEF Locked
<1> HIDE DEF a, c, b
<1>7. /\ v \in Seq(Work) /\ Len(v) = Len(a) + Len(c)
      /\ \A i \in 1 .. Len(a) + Len(c) : v[i] = IF i <= Len(a) THEN a[i] ELSE c[i - Len(a)]
  BY <1>2, <1>3, ConcatProperties
<1> HIDE DEF v
<1>8. Len(a) + Len(c) = 4
  BY <1>2, <1>3
<1>9. Len(v) = 4 /\ \A i \in 1 .. 4 : v[i] = IF i <= 2 THEN a[i] ELSE c[i - 2]
  BY <1>2, <1>7, <1>8
<1>10. /\ v \in Seq(Work) /\ Len(v) = 4
       /\ v[1] = <<"lock", "own">> /\ v[2] = <<"fill", "own">> /\ v[3] = <<"clean", "client">>
       /\ v[4] = <<"write", "client">>
  BY <1>2, <1>3, <1>7, <1>9
<1>11. /\ w \in Seq(Work) /\ Len(w) = Len(v) + Len(b)
      /\ \A i \in 1 .. Len(v) + Len(b) : w[i] = IF i <= Len(v) THEN v[i] ELSE b[i - Len(v)]
  BY <1>10, <1>5, ConcatProperties
<1> HIDE DEF w
<1>12. Len(v) + Len(b) = 5
  BY <1>10, <1>5
<1>13. Len(w) = 5 /\ \A i \in 1 .. 5 : w[i] = IF i <= 4 THEN v[i] ELSE b[i - 4]
  BY <1>10, <1>11, <1>12
<1>14. /\ w \in Seq(Work) /\ Len(w) = 5
       /\ w[1] = <<"lock", "own">> /\ w[2] = <<"fill", "own">> /\ w[3] = <<"clean", "client">>
       /\ w[4] = <<"write", "client">> /\ w[5] = <<"unlock", "own">>
  BY <1>10, <1>5, <1>11, <1>13
<1> QED
  BY <1>6, <1>14

LEMMA LockedServerIs ==
  /\ Locked(ServerBuild) \in Seq(Work) /\ Len(Locked(ServerBuild)) = 6
  /\ Locked(ServerBuild)[1] = <<"lock", "own">>
  /\ Locked(ServerBuild)[2] = <<"fill", "own">>
  /\ Locked(ServerBuild)[3] = <<"clean", "bundle">>
  /\ Locked(ServerBuild)[4] = <<"embed", "client">>
  /\ Locked(ServerBuild)[5] = <<"write", "bundle">>
  /\ Locked(ServerBuild)[6] = <<"unlock", "own">>
<1> DEFINE a == <<<<"lock", "own">>, <<"fill", "own">>>>
           c == ServerBuild
           b == <<<<"unlock", "own">>>>
<1>1. /\ <<"lock", "own">> \in Work
      /\ <<"fill", "own">> \in Work
  BY DEF Work
<1>2. /\ a \in Seq(Work) /\ Len(a) = 2
      /\ a[1] = <<"lock", "own">> /\ a[2] = <<"fill", "own">>
  BY <1>1, Two
<1>3. /\ c \in Seq(Work) /\ Len(c) = 3
      /\ c[1] = <<"clean", "bundle">> /\ c[2] = <<"embed", "client">>
      /\ c[3] = <<"write", "bundle">>
  BY BuildsAre
<1>4. <<"unlock", "own">> \in Work
  BY DEF Work
<1>5. /\ b \in Seq(Work) /\ Len(b) = 1
      /\ b[1] = <<"unlock", "own">>
  BY <1>4, One
<1> DEFINE v == a \o c
           w == v \o b
<1>6. Locked(ServerBuild) = w
  BY DEF Locked
<1> HIDE DEF a, c, b
<1>7. /\ v \in Seq(Work) /\ Len(v) = Len(a) + Len(c)
      /\ \A i \in 1 .. Len(a) + Len(c) : v[i] = IF i <= Len(a) THEN a[i] ELSE c[i - Len(a)]
  BY <1>2, <1>3, ConcatProperties
<1> HIDE DEF v
<1>8. Len(a) + Len(c) = 5
  BY <1>2, <1>3
<1>9. Len(v) = 5 /\ \A i \in 1 .. 5 : v[i] = IF i <= 2 THEN a[i] ELSE c[i - 2]
  BY <1>2, <1>7, <1>8
<1>10. /\ v \in Seq(Work) /\ Len(v) = 5
       /\ v[1] = <<"lock", "own">> /\ v[2] = <<"fill", "own">> /\ v[3] = <<"clean", "bundle">>
       /\ v[4] = <<"embed", "client">> /\ v[5] = <<"write", "bundle">>
  BY <1>2, <1>3, <1>7, <1>9
<1>11. /\ w \in Seq(Work) /\ Len(w) = Len(v) + Len(b)
      /\ \A i \in 1 .. Len(v) + Len(b) : w[i] = IF i <= Len(v) THEN v[i] ELSE b[i - Len(v)]
  BY <1>10, <1>5, ConcatProperties
<1> HIDE DEF w
<1>12. Len(v) + Len(b) = 6
  BY <1>10, <1>5
<1>13. Len(w) = 6 /\ \A i \in 1 .. 6 : w[i] = IF i <= 5 THEN v[i] ELSE b[i - 5]
  BY <1>10, <1>11, <1>12
<1>14. /\ w \in Seq(Work) /\ Len(w) = 6
       /\ w[1] = <<"lock", "own">> /\ w[2] = <<"fill", "own">> /\ w[3] = <<"clean", "bundle">>
       /\ w[4] = <<"embed", "client">> /\ w[5] = <<"write", "bundle">>
       /\ w[6] = <<"unlock", "own">>
  BY <1>10, <1>5, <1>11, <1>13
<1> QED
  BY <1>6, <1>14

LEMMA BuildJobIs ==
  /\ BuildJob \in Seq(Work) /\ Len(BuildJob) = 11
  /\ BuildJob[1] = <<"lock", "own">> /\ BuildJob[2] = <<"fill", "own">>
  /\ BuildJob[3] = <<"clean", "client">> /\ BuildJob[4] = <<"write", "client">>
  /\ BuildJob[5] = <<"unlock", "own">> /\ BuildJob[6] = <<"lock", "own">>
  /\ BuildJob[7] = <<"fill", "own">> /\ BuildJob[8] = <<"clean", "bundle">>
  /\ BuildJob[9] = <<"embed", "client">> /\ BuildJob[10] = <<"write", "bundle">>
  /\ BuildJob[11] = <<"unlock", "own">>
<1> DEFINE a == Locked(ClientBuild)
           b == Locked(ServerBuild)
<1>1. /\ a \in Seq(Work) /\ Len(a) = 5
      /\ a[1] = <<"lock", "own">> /\ a[2] = <<"fill", "own">> /\ a[3] = <<"clean", "client">>
      /\ a[4] = <<"write", "client">> /\ a[5] = <<"unlock", "own">>
  BY LockedClientIs
<1>2. /\ b \in Seq(Work) /\ Len(b) = 6
      /\ b[1] = <<"lock", "own">> /\ b[2] = <<"fill", "own">> /\ b[3] = <<"clean", "bundle">>
      /\ b[4] = <<"embed", "client">> /\ b[5] = <<"write", "bundle">>
      /\ b[6] = <<"unlock", "own">>
  BY LockedServerIs
<1> DEFINE v == a \o b
<1>3. BuildJob = v
  BY DEF BuildJob
<1> HIDE DEF a, b
<1>4. /\ v \in Seq(Work) /\ Len(v) = Len(a) + Len(b)
      /\ \A i \in 1 .. Len(a) + Len(b) : v[i] = IF i <= Len(a) THEN a[i] ELSE b[i - Len(a)]
  BY <1>1, <1>2, ConcatProperties
<1> HIDE DEF v
<1>5. Len(a) + Len(b) = 11
  BY <1>1, <1>2
<1>6. Len(v) = 11 /\ \A i \in 1 .. 11 : v[i] = IF i <= 5 THEN a[i] ELSE b[i - 5]
  BY <1>1, <1>4, <1>5
<1>7. /\ v \in Seq(Work) /\ Len(v) = 11
      /\ v[1] = <<"lock", "own">> /\ v[2] = <<"fill", "own">> /\ v[3] = <<"clean", "client">>
      /\ v[4] = <<"write", "client">> /\ v[5] = <<"unlock", "own">>
      /\ v[6] = <<"lock", "own">> /\ v[7] = <<"fill", "own">> /\ v[8] = <<"clean", "bundle">>
      /\ v[9] = <<"embed", "client">> /\ v[10] = <<"write", "bundle">>
      /\ v[11] = <<"unlock", "own">>
  BY <1>1, <1>2, <1>4, <1>6
<1> QED
  BY <1>3, <1>7

LEMMA JoinedClientIs ==
  /\ Joined(ClientBuild) \in Seq(Work) /\ Len(Joined(ClientBuild)) = 3
  /\ Joined(ClientBuild)[1] = <<"join", "lent">>
  /\ Joined(ClientBuild)[2] = <<"clean", "client">>
  /\ Joined(ClientBuild)[3] = <<"write", "client">>
<1> DEFINE a == <<<<"join", "lent">>>>
           c == ClientBuild
<1>1. <<"join", "lent">> \in Work
  BY DEF Work
<1>2. /\ a \in Seq(Work) /\ Len(a) = 1
      /\ a[1] = <<"join", "lent">>
  BY <1>1, One
<1>3. /\ c \in Seq(Work) /\ Len(c) = 2
      /\ c[1] = <<"clean", "client">> /\ c[2] = <<"write", "client">>
  BY BuildsAre
<1> DEFINE v == a \o c
<1>4. Joined(ClientBuild) = v
  BY DEF Joined
<1> HIDE DEF a, c
<1>5. /\ v \in Seq(Work) /\ Len(v) = Len(a) + Len(c)
      /\ \A i \in 1 .. Len(a) + Len(c) : v[i] = IF i <= Len(a) THEN a[i] ELSE c[i - Len(a)]
  BY <1>2, <1>3, ConcatProperties
<1> HIDE DEF v
<1>6. Len(a) + Len(c) = 3
  BY <1>2, <1>3
<1>7. Len(v) = 3 /\ \A i \in 1 .. 3 : v[i] = IF i <= 1 THEN a[i] ELSE c[i - 1]
  BY <1>2, <1>5, <1>6
<1>8. /\ v \in Seq(Work) /\ Len(v) = 3
      /\ v[1] = <<"join", "lent">> /\ v[2] = <<"clean", "client">>
      /\ v[3] = <<"write", "client">>
  BY <1>2, <1>3, <1>5, <1>7
<1> QED
  BY <1>4, <1>8

LEMMA JoinedServerIs ==
  /\ Joined(ServerBuild) \in Seq(Work) /\ Len(Joined(ServerBuild)) = 4
  /\ Joined(ServerBuild)[1] = <<"join", "lent">>
  /\ Joined(ServerBuild)[2] = <<"clean", "bundle">>
  /\ Joined(ServerBuild)[3] = <<"embed", "client">>
  /\ Joined(ServerBuild)[4] = <<"write", "bundle">>
<1> DEFINE a == <<<<"join", "lent">>>>
           c == ServerBuild
<1>1. <<"join", "lent">> \in Work
  BY DEF Work
<1>2. /\ a \in Seq(Work) /\ Len(a) = 1
      /\ a[1] = <<"join", "lent">>
  BY <1>1, One
<1>3. /\ c \in Seq(Work) /\ Len(c) = 3
      /\ c[1] = <<"clean", "bundle">> /\ c[2] = <<"embed", "client">>
      /\ c[3] = <<"write", "bundle">>
  BY BuildsAre
<1> DEFINE v == a \o c
<1>4. Joined(ServerBuild) = v
  BY DEF Joined
<1> HIDE DEF a, c
<1>5. /\ v \in Seq(Work) /\ Len(v) = Len(a) + Len(c)
      /\ \A i \in 1 .. Len(a) + Len(c) : v[i] = IF i <= Len(a) THEN a[i] ELSE c[i - Len(a)]
  BY <1>2, <1>3, ConcatProperties
<1> HIDE DEF v
<1>6. Len(a) + Len(c) = 4
  BY <1>2, <1>3
<1>7. Len(v) = 4 /\ \A i \in 1 .. 4 : v[i] = IF i <= 1 THEN a[i] ELSE c[i - 1]
  BY <1>2, <1>5, <1>6
<1>8. /\ v \in Seq(Work) /\ Len(v) = 4
      /\ v[1] = <<"join", "lent">> /\ v[2] = <<"clean", "bundle">>
      /\ v[3] = <<"embed", "client">> /\ v[4] = <<"write", "bundle">>
  BY <1>2, <1>3, <1>5, <1>7
<1> QED
  BY <1>4, <1>8

\* What a release does under its lock.
Guarded ==
  <<<<"record", "head">>>> \o Joined(ClientBuild) \o Joined(ServerBuild)
    \o <<<<"again", "head">>>> \o Reading \o <<<<"again", "head">>, <<"seal", "copy">>>>

LEMMA GuardedIs ==
  /\ Guarded \in Seq(Work) /\ Len(Guarded) = 13
  /\ Guarded[1] = <<"record", "head">> /\ Guarded[2] = <<"join", "lent">>
  /\ Guarded[3] = <<"clean", "client">> /\ Guarded[4] = <<"write", "client">>
  /\ Guarded[5] = <<"join", "lent">> /\ Guarded[6] = <<"clean", "bundle">>
  /\ Guarded[7] = <<"embed", "client">> /\ Guarded[8] = <<"write", "bundle">>
  /\ Guarded[9] = <<"again", "head">> /\ Guarded[10] = <<"read", "bundle">>
  /\ Guarded[11] = <<"read", "client">> /\ Guarded[12] = <<"again", "head">>
  /\ Guarded[13] = <<"seal", "copy">>
<1> DEFINE a == <<<<"record", "head">>>>
           b == Joined(ClientBuild)
           c == Joined(ServerBuild)
           d == <<<<"again", "head">>>>
           e == Reading
           f == <<<<"again", "head">>, <<"seal", "copy">>>>
<1>1. <<"record", "head">> \in Work
  BY DEF Work
<1>2. /\ a \in Seq(Work) /\ Len(a) = 1
      /\ a[1] = <<"record", "head">>
  BY <1>1, One
<1>3. /\ b \in Seq(Work) /\ Len(b) = 3
      /\ b[1] = <<"join", "lent">> /\ b[2] = <<"clean", "client">>
      /\ b[3] = <<"write", "client">>
  BY JoinedClientIs
<1>4. /\ c \in Seq(Work) /\ Len(c) = 4
      /\ c[1] = <<"join", "lent">> /\ c[2] = <<"clean", "bundle">>
      /\ c[3] = <<"embed", "client">> /\ c[4] = <<"write", "bundle">>
  BY JoinedServerIs
<1>5. <<"again", "head">> \in Work
  BY DEF Work
<1>6. /\ d \in Seq(Work) /\ Len(d) = 1
      /\ d[1] = <<"again", "head">>
  BY <1>5, One
<1>7. /\ e \in Seq(Work) /\ Len(e) = 2
      /\ e[1] = <<"read", "bundle">> /\ e[2] = <<"read", "client">>
  BY BuildsAre
<1>8. /\ <<"again", "head">> \in Work
      /\ <<"seal", "copy">> \in Work
  BY DEF Work
<1>9. /\ f \in Seq(Work) /\ Len(f) = 2
      /\ f[1] = <<"again", "head">> /\ f[2] = <<"seal", "copy">>
  BY <1>8, Two
<1> DEFINE v == a \o b
           w == v \o c
           x == w \o d
           y == x \o e
           z == y \o f
<1>10. Guarded = z
  BY DEF Guarded
<1> HIDE DEF a, b, c, d, e, f
<1>11. /\ v \in Seq(Work) /\ Len(v) = Len(a) + Len(b)
      /\ \A i \in 1 .. Len(a) + Len(b) : v[i] = IF i <= Len(a) THEN a[i] ELSE b[i - Len(a)]
  BY <1>2, <1>3, ConcatProperties
<1> HIDE DEF v
<1>12. Len(a) + Len(b) = 4
  BY <1>2, <1>3
<1>13. Len(v) = 4 /\ \A i \in 1 .. 4 : v[i] = IF i <= 1 THEN a[i] ELSE b[i - 1]
  BY <1>2, <1>11, <1>12
<1>14. /\ v \in Seq(Work) /\ Len(v) = 4
       /\ v[1] = <<"record", "head">> /\ v[2] = <<"join", "lent">>
       /\ v[3] = <<"clean", "client">> /\ v[4] = <<"write", "client">>
  BY <1>2, <1>3, <1>11, <1>13
<1>15. /\ w \in Seq(Work) /\ Len(w) = Len(v) + Len(c)
      /\ \A i \in 1 .. Len(v) + Len(c) : w[i] = IF i <= Len(v) THEN v[i] ELSE c[i - Len(v)]
  BY <1>14, <1>4, ConcatProperties
<1> HIDE DEF w
<1>16. Len(v) + Len(c) = 8
  BY <1>14, <1>4
<1>17. Len(w) = 8 /\ \A i \in 1 .. 8 : w[i] = IF i <= 4 THEN v[i] ELSE c[i - 4]
  BY <1>14, <1>15, <1>16
<1>18. /\ w \in Seq(Work) /\ Len(w) = 8
       /\ w[1] = <<"record", "head">> /\ w[2] = <<"join", "lent">>
       /\ w[3] = <<"clean", "client">> /\ w[4] = <<"write", "client">>
       /\ w[5] = <<"join", "lent">> /\ w[6] = <<"clean", "bundle">>
       /\ w[7] = <<"embed", "client">> /\ w[8] = <<"write", "bundle">>
  BY <1>14, <1>4, <1>15, <1>17
<1>19. /\ x \in Seq(Work) /\ Len(x) = Len(w) + Len(d)
      /\ \A i \in 1 .. Len(w) + Len(d) : x[i] = IF i <= Len(w) THEN w[i] ELSE d[i - Len(w)]
  BY <1>18, <1>6, ConcatProperties
<1> HIDE DEF x
<1>20. Len(w) + Len(d) = 9
  BY <1>18, <1>6
<1>21. Len(x) = 9 /\ \A i \in 1 .. 9 : x[i] = IF i <= 8 THEN w[i] ELSE d[i - 8]
  BY <1>18, <1>19, <1>20
<1>22. /\ x \in Seq(Work) /\ Len(x) = 9
       /\ x[1] = <<"record", "head">> /\ x[2] = <<"join", "lent">>
       /\ x[3] = <<"clean", "client">> /\ x[4] = <<"write", "client">>
       /\ x[5] = <<"join", "lent">> /\ x[6] = <<"clean", "bundle">>
       /\ x[7] = <<"embed", "client">> /\ x[8] = <<"write", "bundle">>
       /\ x[9] = <<"again", "head">>
  BY <1>18, <1>6, <1>19, <1>21
<1>23. /\ y \in Seq(Work) /\ Len(y) = Len(x) + Len(e)
      /\ \A i \in 1 .. Len(x) + Len(e) : y[i] = IF i <= Len(x) THEN x[i] ELSE e[i - Len(x)]
  BY <1>22, <1>7, ConcatProperties
<1> HIDE DEF y
<1>24. Len(x) + Len(e) = 11
  BY <1>22, <1>7
<1>25. Len(y) = 11 /\ \A i \in 1 .. 11 : y[i] = IF i <= 9 THEN x[i] ELSE e[i - 9]
  BY <1>22, <1>23, <1>24
<1>26. /\ y \in Seq(Work) /\ Len(y) = 11
       /\ y[1] = <<"record", "head">> /\ y[2] = <<"join", "lent">>
       /\ y[3] = <<"clean", "client">> /\ y[4] = <<"write", "client">>
       /\ y[5] = <<"join", "lent">> /\ y[6] = <<"clean", "bundle">>
       /\ y[7] = <<"embed", "client">> /\ y[8] = <<"write", "bundle">>
       /\ y[9] = <<"again", "head">> /\ y[10] = <<"read", "bundle">>
       /\ y[11] = <<"read", "client">>
  BY <1>22, <1>7, <1>23, <1>25
<1>27. /\ z \in Seq(Work) /\ Len(z) = Len(y) + Len(f)
      /\ \A i \in 1 .. Len(y) + Len(f) : z[i] = IF i <= Len(y) THEN y[i] ELSE f[i - Len(y)]
  BY <1>26, <1>9, ConcatProperties
<1> HIDE DEF z
<1>28. Len(y) + Len(f) = 13
  BY <1>26, <1>9
<1>29. Len(z) = 13 /\ \A i \in 1 .. 13 : z[i] = IF i <= 11 THEN y[i] ELSE f[i - 11]
  BY <1>26, <1>27, <1>28
<1>30. /\ z \in Seq(Work) /\ Len(z) = 13
       /\ z[1] = <<"record", "head">> /\ z[2] = <<"join", "lent">>
       /\ z[3] = <<"clean", "client">> /\ z[4] = <<"write", "client">>
       /\ z[5] = <<"join", "lent">> /\ z[6] = <<"clean", "bundle">>
       /\ z[7] = <<"embed", "client">> /\ z[8] = <<"write", "bundle">>
       /\ z[9] = <<"again", "head">> /\ z[10] = <<"read", "bundle">>
       /\ z[11] = <<"read", "client">> /\ z[12] = <<"again", "head">>
       /\ z[13] = <<"seal", "copy">>
  BY <1>26, <1>9, <1>27, <1>29
<1> QED
  BY <1>10, <1>30

LEMMA ReleaseJobIs ==
  /\ ReleaseJob \in Seq(Work) /\ Len(ReleaseJob) = 16
  /\ ReleaseJob[1] = <<"lock", "own">> /\ ReleaseJob[2] = <<"fill", "own">>
  /\ ReleaseJob[3] = <<"record", "head">> /\ ReleaseJob[4] = <<"join", "lent">>
  /\ ReleaseJob[5] = <<"clean", "client">> /\ ReleaseJob[6] = <<"write", "client">>
  /\ ReleaseJob[7] = <<"join", "lent">> /\ ReleaseJob[8] = <<"clean", "bundle">>
  /\ ReleaseJob[9] = <<"embed", "client">> /\ ReleaseJob[10] = <<"write", "bundle">>
  /\ ReleaseJob[11] = <<"again", "head">> /\ ReleaseJob[12] = <<"read", "bundle">>
  /\ ReleaseJob[13] = <<"read", "client">> /\ ReleaseJob[14] = <<"again", "head">>
  /\ ReleaseJob[15] = <<"seal", "copy">> /\ ReleaseJob[16] = <<"unlock", "own">>
<1> DEFINE a == <<<<"lock", "own">>, <<"fill", "own">>>>
           c == Guarded
           b == <<<<"unlock", "own">>>>
<1>1. /\ <<"lock", "own">> \in Work
      /\ <<"fill", "own">> \in Work
  BY DEF Work
<1>2. /\ a \in Seq(Work) /\ Len(a) = 2
      /\ a[1] = <<"lock", "own">> /\ a[2] = <<"fill", "own">>
  BY <1>1, Two
<1>3. /\ c \in Seq(Work) /\ Len(c) = 13
      /\ c[1] = <<"record", "head">> /\ c[2] = <<"join", "lent">>
      /\ c[3] = <<"clean", "client">> /\ c[4] = <<"write", "client">>
      /\ c[5] = <<"join", "lent">> /\ c[6] = <<"clean", "bundle">>
      /\ c[7] = <<"embed", "client">> /\ c[8] = <<"write", "bundle">>
      /\ c[9] = <<"again", "head">> /\ c[10] = <<"read", "bundle">>
      /\ c[11] = <<"read", "client">> /\ c[12] = <<"again", "head">>
      /\ c[13] = <<"seal", "copy">>
  BY GuardedIs
<1>4. <<"unlock", "own">> \in Work
  BY DEF Work
<1>5. /\ b \in Seq(Work) /\ Len(b) = 1
      /\ b[1] = <<"unlock", "own">>
  BY <1>4, One
<1> DEFINE v == a \o c
           w == v \o b
<1>6. ReleaseJob = w
  BY DEF ReleaseJob, Locked, Guarded
<1> HIDE DEF a, c, b
<1>7. /\ v \in Seq(Work) /\ Len(v) = Len(a) + Len(c)
      /\ \A i \in 1 .. Len(a) + Len(c) : v[i] = IF i <= Len(a) THEN a[i] ELSE c[i - Len(a)]
  BY <1>2, <1>3, ConcatProperties
<1> HIDE DEF v
<1>8. Len(a) + Len(c) = 15
  BY <1>2, <1>3
<1>9. Len(v) = 15 /\ \A i \in 1 .. 15 : v[i] = IF i <= 2 THEN a[i] ELSE c[i - 2]
  BY <1>2, <1>7, <1>8
<1>10. /\ v \in Seq(Work) /\ Len(v) = 15
       /\ v[1] = <<"lock", "own">> /\ v[2] = <<"fill", "own">> /\ v[3] = <<"record", "head">>
       /\ v[4] = <<"join", "lent">> /\ v[5] = <<"clean", "client">>
       /\ v[6] = <<"write", "client">> /\ v[7] = <<"join", "lent">>
       /\ v[8] = <<"clean", "bundle">> /\ v[9] = <<"embed", "client">>
       /\ v[10] = <<"write", "bundle">> /\ v[11] = <<"again", "head">>
       /\ v[12] = <<"read", "bundle">> /\ v[13] = <<"read", "client">>
       /\ v[14] = <<"again", "head">> /\ v[15] = <<"seal", "copy">>
  BY <1>2, <1>3, <1>7, <1>9
<1>11. /\ w \in Seq(Work) /\ Len(w) = Len(v) + Len(b)
      /\ \A i \in 1 .. Len(v) + Len(b) : w[i] = IF i <= Len(v) THEN v[i] ELSE b[i - Len(v)]
  BY <1>10, <1>5, ConcatProperties
<1> HIDE DEF w
<1>12. Len(v) + Len(b) = 16
  BY <1>10, <1>5
<1>13. Len(w) = 16 /\ \A i \in 1 .. 16 : w[i] = IF i <= 15 THEN v[i] ELSE b[i - 15]
  BY <1>10, <1>11, <1>12
<1>14. /\ w \in Seq(Work) /\ Len(w) = 16
       /\ w[1] = <<"lock", "own">> /\ w[2] = <<"fill", "own">> /\ w[3] = <<"record", "head">>
       /\ w[4] = <<"join", "lent">> /\ w[5] = <<"clean", "client">>
       /\ w[6] = <<"write", "client">> /\ w[7] = <<"join", "lent">>
       /\ w[8] = <<"clean", "bundle">> /\ w[9] = <<"embed", "client">>
       /\ w[10] = <<"write", "bundle">> /\ w[11] = <<"again", "head">>
       /\ w[12] = <<"read", "bundle">> /\ w[13] = <<"read", "client">>
       /\ w[14] = <<"again", "head">> /\ w[15] = <<"seal", "copy">>
       /\ w[16] = <<"unlock", "own">>
  BY <1>10, <1>5, <1>11, <1>13
<1> QED
  BY <1>6, <1>14

LEMMA PilotJobIs ==
  /\ PilotJob \in Seq(Work) /\ Len(PilotJob) = 19
  /\ PilotJob[1] = <<"record", "head">> /\ PilotJob[2] = <<"lock", "own">>
  /\ PilotJob[3] = <<"fill", "own">> /\ PilotJob[4] = <<"clean", "client">>
  /\ PilotJob[5] = <<"write", "client">> /\ PilotJob[6] = <<"unlock", "own">>
  /\ PilotJob[7] = <<"lock", "own">> /\ PilotJob[8] = <<"fill", "own">>
  /\ PilotJob[9] = <<"clean", "bundle">> /\ PilotJob[10] = <<"embed", "client">>
  /\ PilotJob[11] = <<"write", "bundle">> /\ PilotJob[12] = <<"unlock", "own">>
  /\ PilotJob[13] = <<"again", "head">> /\ PilotJob[14] = <<"read", "bundle">>
  /\ PilotJob[15] = <<"read", "client">> /\ PilotJob[16] = <<"load", "bundle">>
  /\ PilotJob[17] = <<"again", "head">> /\ PilotJob[18] = <<"check", "bundle">>
  /\ PilotJob[19] = <<"serve", "client">>
<1> DEFINE a == <<<<"record", "head">>>>
           b == BuildJob
           d == <<<<"again", "head">>>>
           e == Reading
           f == <<<<"load", "bundle">>, <<"again", "head">>, <<"check", "bundle">>, <<"serve", "client">>>>
<1>1. <<"record", "head">> \in Work
  BY DEF Work
<1>2. /\ a \in Seq(Work) /\ Len(a) = 1
      /\ a[1] = <<"record", "head">>
  BY <1>1, One
<1>3. /\ b \in Seq(Work) /\ Len(b) = 11
      /\ b[1] = <<"lock", "own">> /\ b[2] = <<"fill", "own">> /\ b[3] = <<"clean", "client">>
      /\ b[4] = <<"write", "client">> /\ b[5] = <<"unlock", "own">>
      /\ b[6] = <<"lock", "own">> /\ b[7] = <<"fill", "own">> /\ b[8] = <<"clean", "bundle">>
      /\ b[9] = <<"embed", "client">> /\ b[10] = <<"write", "bundle">>
      /\ b[11] = <<"unlock", "own">>
  BY BuildJobIs
<1>4. <<"again", "head">> \in Work
  BY DEF Work
<1>5. /\ d \in Seq(Work) /\ Len(d) = 1
      /\ d[1] = <<"again", "head">>
  BY <1>4, One
<1>6. /\ e \in Seq(Work) /\ Len(e) = 2
      /\ e[1] = <<"read", "bundle">> /\ e[2] = <<"read", "client">>
  BY BuildsAre
<1>7. /\ <<"load", "bundle">> \in Work
      /\ <<"again", "head">> \in Work
      /\ <<"check", "bundle">> \in Work
      /\ <<"serve", "client">> \in Work
  BY DEF Work
<1>8. /\ f \in Seq(Work) /\ Len(f) = 4
      /\ f[1] = <<"load", "bundle">> /\ f[2] = <<"again", "head">>
      /\ f[3] = <<"check", "bundle">> /\ f[4] = <<"serve", "client">>
  BY <1>7, Four
<1> DEFINE v == a \o b
           w == v \o d
           x == w \o e
           y == x \o f
<1>9. PilotJob = y
  BY DEF PilotJob
<1> HIDE DEF a, b, d, e, f
<1>10. /\ v \in Seq(Work) /\ Len(v) = Len(a) + Len(b)
      /\ \A i \in 1 .. Len(a) + Len(b) : v[i] = IF i <= Len(a) THEN a[i] ELSE b[i - Len(a)]
  BY <1>2, <1>3, ConcatProperties
<1> HIDE DEF v
<1>11. Len(a) + Len(b) = 12
  BY <1>2, <1>3
<1>12. Len(v) = 12 /\ \A i \in 1 .. 12 : v[i] = IF i <= 1 THEN a[i] ELSE b[i - 1]
  BY <1>2, <1>10, <1>11
<1>13. /\ v \in Seq(Work) /\ Len(v) = 12
       /\ v[1] = <<"record", "head">> /\ v[2] = <<"lock", "own">> /\ v[3] = <<"fill", "own">>
       /\ v[4] = <<"clean", "client">> /\ v[5] = <<"write", "client">>
       /\ v[6] = <<"unlock", "own">> /\ v[7] = <<"lock", "own">> /\ v[8] = <<"fill", "own">>
       /\ v[9] = <<"clean", "bundle">> /\ v[10] = <<"embed", "client">>
       /\ v[11] = <<"write", "bundle">> /\ v[12] = <<"unlock", "own">>
  BY <1>2, <1>3, <1>10, <1>12
<1>14. /\ w \in Seq(Work) /\ Len(w) = Len(v) + Len(d)
      /\ \A i \in 1 .. Len(v) + Len(d) : w[i] = IF i <= Len(v) THEN v[i] ELSE d[i - Len(v)]
  BY <1>13, <1>5, ConcatProperties
<1> HIDE DEF w
<1>15. Len(v) + Len(d) = 13
  BY <1>13, <1>5
<1>16. Len(w) = 13 /\ \A i \in 1 .. 13 : w[i] = IF i <= 12 THEN v[i] ELSE d[i - 12]
  BY <1>13, <1>14, <1>15
<1>17. /\ w \in Seq(Work) /\ Len(w) = 13
       /\ w[1] = <<"record", "head">> /\ w[2] = <<"lock", "own">> /\ w[3] = <<"fill", "own">>
       /\ w[4] = <<"clean", "client">> /\ w[5] = <<"write", "client">>
       /\ w[6] = <<"unlock", "own">> /\ w[7] = <<"lock", "own">> /\ w[8] = <<"fill", "own">>
       /\ w[9] = <<"clean", "bundle">> /\ w[10] = <<"embed", "client">>
       /\ w[11] = <<"write", "bundle">> /\ w[12] = <<"unlock", "own">>
       /\ w[13] = <<"again", "head">>
  BY <1>13, <1>5, <1>14, <1>16
<1>18. /\ x \in Seq(Work) /\ Len(x) = Len(w) + Len(e)
      /\ \A i \in 1 .. Len(w) + Len(e) : x[i] = IF i <= Len(w) THEN w[i] ELSE e[i - Len(w)]
  BY <1>17, <1>6, ConcatProperties
<1> HIDE DEF x
<1>19. Len(w) + Len(e) = 15
  BY <1>17, <1>6
<1>20. Len(x) = 15 /\ \A i \in 1 .. 15 : x[i] = IF i <= 13 THEN w[i] ELSE e[i - 13]
  BY <1>17, <1>18, <1>19
<1>21. /\ x \in Seq(Work) /\ Len(x) = 15
       /\ x[1] = <<"record", "head">> /\ x[2] = <<"lock", "own">> /\ x[3] = <<"fill", "own">>
       /\ x[4] = <<"clean", "client">> /\ x[5] = <<"write", "client">>
       /\ x[6] = <<"unlock", "own">> /\ x[7] = <<"lock", "own">> /\ x[8] = <<"fill", "own">>
       /\ x[9] = <<"clean", "bundle">> /\ x[10] = <<"embed", "client">>
       /\ x[11] = <<"write", "bundle">> /\ x[12] = <<"unlock", "own">>
       /\ x[13] = <<"again", "head">> /\ x[14] = <<"read", "bundle">>
       /\ x[15] = <<"read", "client">>
  BY <1>17, <1>6, <1>18, <1>20
<1>22. /\ y \in Seq(Work) /\ Len(y) = Len(x) + Len(f)
      /\ \A i \in 1 .. Len(x) + Len(f) : y[i] = IF i <= Len(x) THEN x[i] ELSE f[i - Len(x)]
  BY <1>21, <1>8, ConcatProperties
<1> HIDE DEF y
<1>23. Len(x) + Len(f) = 19
  BY <1>21, <1>8
<1>24. Len(y) = 19 /\ \A i \in 1 .. 19 : y[i] = IF i <= 15 THEN x[i] ELSE f[i - 15]
  BY <1>21, <1>22, <1>23
<1>25. /\ y \in Seq(Work) /\ Len(y) = 19
       /\ y[1] = <<"record", "head">> /\ y[2] = <<"lock", "own">> /\ y[3] = <<"fill", "own">>
       /\ y[4] = <<"clean", "client">> /\ y[5] = <<"write", "client">>
       /\ y[6] = <<"unlock", "own">> /\ y[7] = <<"lock", "own">> /\ y[8] = <<"fill", "own">>
       /\ y[9] = <<"clean", "bundle">> /\ y[10] = <<"embed", "client">>
       /\ y[11] = <<"write", "bundle">> /\ y[12] = <<"unlock", "own">>
       /\ y[13] = <<"again", "head">> /\ y[14] = <<"read", "bundle">>
       /\ y[15] = <<"read", "client">> /\ y[16] = <<"load", "bundle">>
       /\ y[17] = <<"again", "head">> /\ y[18] = <<"check", "bundle">>
       /\ y[19] = <<"serve", "client">>
  BY <1>21, <1>8, <1>22, <1>24
<1> QED
  BY <1>9, <1>25

-----------------------------------------------------------------------------
(* Where a job is.                                                         *)

Program(p) ==
  CASE Kind[p] = "build" -> BuildJob
    [] Kind[p] = "release" -> ReleaseJob
    [] Kind[p] = "pilot" -> PilotJob

LEMMA ProgramIs ==
  ASSUME NEW p \in Jobs
  PROVE  /\ Kind[p] = "build" => Program(p) = BuildJob
         /\ Kind[p] = "release" => Program(p) = ReleaseJob
         /\ Kind[p] = "pilot" => Program(p) = PilotJob
         /\ Kind[p] \in {"build", "release", "pilot"}
  BY KindAssumption DEF Program

\* The last step of a job, or of the build that outlives it.
Last(p) == CASE Kind[p] = "build" -> {11}
             [] Kind[p] = "release" -> {10, 16}
             [] Kind[p] = "pilot" -> {12, 19}

LEMMA LastIs ==
  ASSUME NEW p \in Jobs
  PROVE  /\ Kind[p] = "build" => Last(p) = {11}
         /\ Kind[p] = "release" => Last(p) = {10, 16}
         /\ Kind[p] = "pilot" => Last(p) = {12, 19}
         /\ Last(p) \subseteq Nat
  BY KindAssumption DEF Last

Op(p, i) == Program(p)[i][1]
Arg(p, i) == Program(p)[i][2]

\* What remains to p are the steps from i to j.
Placed(p, i, j) ==
  /\ j \in Last(p) /\ i \in 1 .. j + 1
  /\ todo[p] \in Seq(Work) /\ Len(todo[p]) = (j + 1) - i
  /\ \A k \in 1 .. (j + 1) - i : todo[p][k] = Program(p)[(k + i) - 1]

LEMMA BuildPlaces ==
  ASSUME NEW p \in Jobs, Kind[p] = "build", NEW i \in 1 .. 11
  PROVE  /\ Op(p, i) = "lock" => i \in {1, 6}
         /\ Op(p, i) = "fill" => i \in {2, 7}
         /\ Op(p, i) = "clean" => \/ i = 3 /\ Arg(p, i) = "client"
                                  \/ i = 8 /\ Arg(p, i) = "bundle"
         /\ Op(p, i) = "embed" => i = 9
         /\ Op(p, i) = "write" => \/ i = 4 /\ Arg(p, i) = "client"
                                  \/ i = 10 /\ Arg(p, i) = "bundle"
         /\ Op(p, i) = "unlock" => i \in {5, 11}
         /\ Op(p, i) \in {"lock", "fill", "clean", "embed", "write", "unlock"}
<1>1. Program(p) = BuildJob
  BY ProgramIs
<1> USE <1>1, BuildJobIs DEF Op, Arg
<1>2. CASE i \in 1 .. 5
  <2>1. i = 1 \/ i = 2 \/ i = 3 \/ i = 4 \/ i = 5
    BY <1>2
  <2> QED
    BY <2>1
<1>3. CASE i \in 6 .. 11
  <2>1. i = 6 \/ i = 7 \/ i = 8 \/ i = 9 \/ i = 10 \/ i = 11
    BY <1>3
  <2> QED
    BY <2>1
<1> QED
  BY <1>2, <1>3

LEMMA ReleasePlaces ==
  ASSUME NEW p \in Jobs, Kind[p] = "release", NEW i \in 1 .. 16
  PROVE  /\ Op(p, i) = "lock" => i = 1
         /\ Op(p, i) = "fill" => i = 2
         /\ Op(p, i) = "record" => i = 3
         /\ Op(p, i) = "join" => i \in {4, 7}
         /\ Op(p, i) = "clean" => \/ i = 5 /\ Arg(p, i) = "client"
                                  \/ i = 8 /\ Arg(p, i) = "bundle"
         /\ Op(p, i) = "embed" => i = 9
         /\ Op(p, i) = "write" => \/ i = 6 /\ Arg(p, i) = "client"
                                  \/ i = 10 /\ Arg(p, i) = "bundle"
         /\ Op(p, i) = "again" => i \in {11, 14}
         /\ Op(p, i) = "read" => \/ i = 12 /\ Arg(p, i) = "bundle"
                                 \/ i = 13 /\ Arg(p, i) = "client"
         /\ Op(p, i) = "seal" => i = 15
         /\ Op(p, i) = "unlock" => i = 16
         /\ Op(p, i) \in {"join", "clean", "embed", "write"} <=> i \in 4 .. 10
         /\ Op(p, i) \in {"lock", "fill", "record", "join", "clean", "embed", "write", "again",
                          "read", "seal", "unlock"}
<1>1. Program(p) = ReleaseJob
  BY ProgramIs
<1> USE <1>1, ReleaseJobIs DEF Op, Arg
<1>2. CASE i \in 1 .. 5
  <2>1. i = 1 \/ i = 2 \/ i = 3 \/ i = 4 \/ i = 5
    BY <1>2
  <2> QED
    BY <2>1
<1>3. CASE i \in 6 .. 10
  <2>1. i = 6 \/ i = 7 \/ i = 8 \/ i = 9 \/ i = 10
    BY <1>3
  <2> QED
    BY <2>1
<1>4. CASE i \in 11 .. 16
  <2>1. i = 11 \/ i = 12 \/ i = 13 \/ i = 14 \/ i = 15 \/ i = 16
    BY <1>4
  <2> QED
    BY <2>1
<1> QED
  BY <1>2, <1>3, <1>4

LEMMA PilotPlaces ==
  ASSUME NEW p \in Jobs, Kind[p] = "pilot", NEW i \in 1 .. 19
  PROVE  /\ Op(p, i) = "record" => i = 1
         /\ Op(p, i) = "lock" => i \in {2, 7}
         /\ Op(p, i) = "fill" => i \in {3, 8}
         /\ Op(p, i) = "clean" => \/ i = 4 /\ Arg(p, i) = "client"
                                  \/ i = 9 /\ Arg(p, i) = "bundle"
         /\ Op(p, i) = "embed" => i = 10
         /\ Op(p, i) = "write" => \/ i = 5 /\ Arg(p, i) = "client"
                                  \/ i = 11 /\ Arg(p, i) = "bundle"
         /\ Op(p, i) = "unlock" => i \in {6, 12}
         /\ Op(p, i) = "again" => i \in {13, 17}
         /\ Op(p, i) = "read" => \/ i = 14 /\ Arg(p, i) = "bundle"
                                 \/ i = 15 /\ Arg(p, i) = "client"
         /\ Op(p, i) = "load" => i = 16
         /\ Op(p, i) = "check" => i = 18
         /\ Op(p, i) = "serve" => i = 19
         /\ Op(p, i) \in {"lock", "fill", "clean", "embed", "write", "unlock"} <=> i \in 2 .. 12
         /\ Op(p, i) \in {"lock", "fill", "record", "clean", "embed", "write", "again", "read",
                          "load", "check", "serve", "unlock"}
<1>1. Program(p) = PilotJob
  BY ProgramIs
<1> USE <1>1, PilotJobIs DEF Op, Arg
<1>2. CASE i \in 1 .. 6
  <2>1. i = 1 \/ i = 2 \/ i = 3 \/ i = 4 \/ i = 5 \/ i = 6
    BY <1>2
  <2> QED
    BY <2>1
<1>3. CASE i \in 7 .. 12
  <2>1. i = 7 \/ i = 8 \/ i = 9 \/ i = 10 \/ i = 11 \/ i = 12
    BY <1>3
  <2> QED
    BY <2>1
<1>4. CASE i \in 13 .. 19
  <2>1. i = 13 \/ i = 14 \/ i = 15 \/ i = 16 \/ i = 17 \/ i = 18 \/ i = 19
    BY <1>4
  <2> QED
    BY <2>1
<1> QED
  BY <1>2, <1>3, <1>4

LEMMA AtPlace ==
  ASSUME NEW p \in Jobs, NEW i, NEW j, Placed(p, i, j)
  PROVE  /\ todo[p] = <<>> <=> i = j + 1
         /\ i \in Nat /\ j \in Nat /\ i >= 1
         /\ Kind[p] = "build" => j = 11
         /\ Kind[p] = "release" => j \in {10, 16}
         /\ Kind[p] = "pilot" => j \in {12, 19}
         /\ i <= j => /\ \A op : Doing(p, op) <=> Op(p, i) = op
                      /\ What(p) = Arg(p, i) /\ Head(todo[p]) = Program(p)[i]
<1>1. i \in Nat /\ j \in Nat /\ i >= 1 /\ j \in Last(p)
  BY LastIs DEF Placed
<1>2. todo[p] = <<>> <=> i = j + 1
  BY <1>1, EmptySeq DEF Placed
<1>3. ASSUME i <= j PROVE Head(todo[p]) = Program(p)[i]
  <2>1. 1 \in 1 .. (j + 1) - i /\ (1 + i) - 1 = i
    BY <1>1, <1>3
  <2>2. todo[p][1] = Program(p)[(1 + i) - 1]
    BY <2>1 DEF Placed
  <2>3. Head(todo[p]) = todo[p][1]
    BY <1>1, <1>2, <1>3 DEF Placed
  <2> QED
    BY <2>1, <2>2, <2>3
<1> QED
  BY <1>1, <1>2, <1>3, LastIs DEF Doing, What, Op, Arg

LEMMA NextPlace ==
  ASSUME NEW p \in Jobs, NEW i, NEW j, Placed(p, i, j), i <= j, todo'[p] = Tail(todo[p])
  PROVE  Placed(p, i + 1, j)'
<1>1. i \in Nat /\ j \in Nat /\ i >= 1 /\ todo[p] # <<>>
  BY AtPlace
<1>2. todo[p] \in Seq(Work) /\ Len(todo[p]) = (j + 1) - i
  BY DEF Placed
<1>3. /\ Tail(todo[p]) \in Seq(Work) /\ Len(Tail(todo[p])) = Len(todo[p]) - 1
      /\ \A k \in 1 .. Len(todo[p]) - 1 : Tail(todo[p])[k] = todo[p][k + 1]
  BY <1>1, <1>2
<1>4. Len(Tail(todo[p])) = (j + 1) - (i + 1)
  BY <1>1, <1>2, <1>3
<1>5. ASSUME NEW k \in 1 .. (j + 1) - (i + 1)
      PROVE  Tail(todo[p])[k] = Program(p)[(k + (i + 1)) - 1]
  <2>1. k \in 1 .. Len(todo[p]) - 1 /\ k + 1 \in 1 .. (j + 1) - i
    BY <1>1, <1>2, <1>5
  <2>2. ((k + 1) + i) - 1 = (k + (i + 1)) - 1
    BY <1>1
  <2>3. todo[p][k + 1] = Program(p)[((k + 1) + i) - 1]
    BY <2>1 DEF Placed
  <2> QED
    BY <1>3, <2>1, <2>2, <2>3
<1>6. i + 1 \in 1 .. j + 1
  BY <1>1
<1> QED
  BY <1>3, <1>4, <1>5, <1>6 DEF Placed

\* What is left to a job that fails: to let the lock go, or nothing.
LEMMA UndoPlaced ==
  ASSUME NEW p \in Jobs, todo'[p] = <<>> \/ todo'[p] = <<<<"unlock", "own">>>>
  PROVE  \E j \in Last(p) : /\ j \in {11, 12, 16}
                            /\ Placed(p, j, j)' \/ Placed(p, j + 1, j)'
<1>1. <<"unlock", "own">> \in Work
  BY DEF Work
<1>2. PICK j \in {11, 12, 16} : j \in Last(p) /\ Program(p)[j] = <<"unlock", "own">>
  <2>1. BuildJob[11] = <<"unlock", "own">>
    BY BuildJobIs
  <2>2. ReleaseJob[16] = <<"unlock", "own">>
    BY ReleaseJobIs
  <2>3. PilotJob[12] = <<"unlock", "own">>
    BY PilotJobIs
  <2> QED
    BY <2>1, <2>2, <2>3, ProgramIs, LastIs
<1>3. ASSUME todo'[p] = <<>> PROVE Placed(p, j + 1, j)'
  <2>1. <<>> \in Seq(Work) /\ Len(<<>>) = 0
    OBVIOUS
  <2>2. (j + 1) - (j + 1) = 0 /\ j + 1 \in 1 .. j + 1
    BY <1>2
  <2> QED
    BY <1>2, <1>3, <2>1, <2>2 DEF Placed
<1>4. ASSUME todo'[p] = <<<<"unlock", "own">>>> PROVE Placed(p, j, j)'
  <2> DEFINE u == <<"unlock", "own">>
  <2>1. <<u>> \in Seq(Work) /\ Len(<<u>>) = 1 /\ <<u>>[1] = u
    BY <1>1, One
  <2>2. todo'[p] = <<u>>
    BY <1>4
  <2> HIDE DEF u
  <2>3. (j + 1) - j = 1 /\ j \in 1 .. j + 1 /\ (1 + j) - 1 = j
    BY <1>2
  <2>4. \A k \in 1 .. 1 : <<u>>[k] = Program(p)[(k + j) - 1]
    BY <1>2, <2>1, <2>3 DEF u
  <2> QED
    BY <1>2, <2>1, <2>2, <2>3, <2>4 DEF Placed
<1> QED
  BY <1>2, <1>3, <1>4

\* What is left to a job that dies: nothing, or the build it started.
LEMMA CrashPlaced ==
  ASSUME NEW p \in Jobs, NEW i, NEW j, Placed(p, i, j), todo \in [Jobs -> Seq(Work)], Crash(p)
  PROVE  \/ Placed(p, j + 1, j)'
         \/ i <= j /\ \E l \in Last(p) : l <= j /\ i <= l /\ Placed(p, i, l)'
<1>1. i \in Nat /\ j \in Nat /\ i >= 1 /\ todo[p] # <<>> /\ i <= j /\ j \in Last(p)
  BY AtPlace, LastIs DEF Crash, Placed
<1>2. ASSUME todo' = [todo EXCEPT ![p] = <<>>] PROVE Placed(p, j + 1, j)'
  <2>1. <<>> \in Seq(Work) /\ Len(<<>>) = 0
    OBVIOUS
  <2>2. (j + 1) - (j + 1) = 0 /\ j + 1 \in 1 .. j + 1
    BY <1>1
  <2> QED
    BY <1>1, <1>2, <2>1, <2>2 DEF Placed
<1>3. ASSUME NEW n \in DOMAIN todo[p],
             \A k \in 1 .. n : todo[p][k][1] \in BuildSteps(p),
             n < Len(todo[p]) => todo[p][n + 1][1] \notin BuildSteps(p),
             todo' = [todo EXCEPT ![p] = SubSeq(@, 1, n)]
      PROVE  \E l \in Last(p) : l <= j /\ i <= l /\ Placed(p, i, l)'
  <2>1. n \in 1 .. (j + 1) - i /\ Len(todo[p]) = (j + 1) - i /\ todo[p] \in Seq(Work)
    BY <1>1 DEF Placed
  <2> DEFINE l == (n + i) - 1
  <2>2. l \in Nat /\ l <= j /\ i <= l /\ (l + 1) - i = n
    BY <1>1, <2>1
  <2>3. \A m \in i .. l : Op(p, m) \in BuildSteps(p)
    <3> SUFFICES ASSUME NEW m \in i .. l PROVE Op(p, m) \in BuildSteps(p)
      OBVIOUS
    <3>1. (m + 1) - i \in 1 .. n /\ (m + 1) - i \in 1 .. (j + 1) - i /\ (((m + 1) - i) + i) - 1 = m
      BY <1>1, <2>1, <2>2
    <3>2. todo[p][(m + 1) - i] = Program(p)[m]
      BY <3>1 DEF Placed
    <3> QED
      BY <1>3, <3>1, <3>2 DEF Op
  <2>4. l < j => Op(p, l + 1) \notin BuildSteps(p)
    <3> SUFFICES ASSUME l < j PROVE Op(p, l + 1) \notin BuildSteps(p)
      OBVIOUS
    <3>1. n < Len(todo[p]) /\ n + 1 \in 1 .. (j + 1) - i /\ ((n + 1) + i) - 1 = l + 1
      BY <1>1, <2>1, <2>2
    <3>2. todo[p][n + 1] = Program(p)[l + 1]
      BY <3>1 DEF Placed
    <3> QED
      BY <1>3, <3>1, <3>2 DEF Op
  <2> HIDE DEF l
  <2>5. l \in Last(p)
    <3>1. CASE Kind[p] = "build"
      <4>1. j = 11 /\ i \in 1 .. 11 /\ l \in 1 .. 11
        BY <1>1, <2>2, <3>1, LastIs
      <4>2. l < j => l + 1 \in 1 .. 11
        BY <4>1
      <4>3. l < j => Op(p, l + 1) \in {"lock", "fill", "clean", "embed", "write", "unlock"}
        BY <3>1, <4>2, BuildPlaces
      <4>4. BuildSteps(p) = {"lock", "fill", "clean", "embed", "write", "unlock"}
        BY <3>1 DEF BuildSteps
      <4>5. ~(l < j)
        BY <2>4, <4>3, <4>4
      <4> QED
        BY <1>1, <2>2, <4>5
    <3>2. CASE Kind[p] = "release"
      <4>1. j \in {10, 16} /\ i \in 1 .. 16 /\ l \in 1 .. 16
        BY <1>1, <2>2, <3>2, LastIs
      <4>2. BuildSteps(p) = {"join", "clean", "embed", "write"}
        BY <3>2 DEF BuildSteps
      <4>3. l \in i .. l /\ l + 1 \in Nat
        BY <1>1, <2>2
      <4>4. l \in 4 .. 10
        BY <2>3, <3>2, <4>1, <4>2, <4>3, ReleasePlaces
      <4>5. l < j => l + 1 \notin 4 .. 10
        <5>1. l + 1 \in 1 .. 16
          BY <4>4
        <5> QED
          BY <2>4, <3>2, <4>2, <5>1, ReleasePlaces
      <4>6. l = 10
        BY <4>1, <4>4, <4>5, <2>2
      <4> QED
        BY <3>2, <4>6, LastIs
    <3>3. CASE Kind[p] = "pilot"
      <4>1. j \in {12, 19} /\ i \in 1 .. 19 /\ l \in 1 .. 19
        BY <1>1, <2>2, <3>3, LastIs
      <4>2. BuildSteps(p) = {"lock", "fill", "clean", "embed", "write", "unlock"}
        BY <3>3 DEF BuildSteps
      <4>3. l \in i .. l /\ l + 1 \in Nat
        BY <1>1, <2>2
      <4>4. l \in 2 .. 12
        BY <2>3, <3>3, <4>1, <4>2, <4>3, PilotPlaces
      <4>5. l < j => l + 1 \notin 2 .. 12
        <5>1. l + 1 \in 1 .. 19
          BY <4>4
        <5> QED
          BY <2>4, <3>3, <4>2, <5>1, PilotPlaces
      <4>6. l = 12
        BY <4>1, <4>4, <4>5, <2>2
      <4> QED
        BY <3>3, <4>6, LastIs
    <3> QED
      BY <3>1, <3>2, <3>3, ProgramIs
  <2>6. Placed(p, i, l)'
    <3> DEFINE s == SubSeq(todo[p], 1, n)
    <3>1. /\ s \in Seq(Work) /\ Len(s) = n /\ \A k \in 1 .. n : s[k] = todo[p][k]
      <4>1. n \in Nat /\ n <= Len(todo[p])
        BY <1>1, <2>1
      <4> QED
        BY <2>1, <4>1
    <3>2. todo'[p] = s
      BY <1>3
    <3>3. \A k \in 1 .. n : k \in 1 .. (j + 1) - i
      BY <1>1, <2>1
    <3>4. i \in 1 .. l + 1
      BY <1>1, <2>2
    <3> HIDE DEF s
    <3> QED
      BY <2>2, <2>5, <3>1, <3>2, <3>3, <3>4 DEF Placed
  <2> QED
    BY <2>2, <2>5, <2>6
<1>4. \/ todo' = [todo EXCEPT ![p] = <<>>]
      \/ \E n \in DOMAIN todo[p] :
           /\ \A k \in 1 .. n : todo[p][k][1] \in BuildSteps(p)
           /\ n < Len(todo[p]) => todo[p][n + 1][1] \notin BuildSteps(p)
           /\ todo' = [todo EXCEPT ![p] = SubSeq(@, 1, n)]
  BY DEF Crash
<1> QED
  BY <1>1, <1>2, <1>3, <1>4

-----------------------------------------------------------------------------
(* Types, and what a step of a job leaves alone.                           *)

OfJobs(f) == f = [p \in Jobs |-> f[p]]

Typed ==
  /\ file \in {None} \union [owner : Jobs, written : BOOLEAN]
  /\ edits \in Nat /\ tree \in 0 .. edits /\ head \in 0 .. edits
  /\ undone \in BOOLEAN /\ (~undone => tree = edits)
  /\ output = [out \in Outputs |-> output[out]]
  /\ todo \in [Jobs -> Seq(Work)]
  /\ OfJobs(seen) /\ OfJobs(commit) /\ OfJobs(held) /\ OfJobs(loaded) /\ OfJobs(result)
  /\ \A p \in Jobs : held[p] = [out \in Outputs |-> held[p][out]]

Proceeds(p) == Step(p) \/ Failure(p) \/ Crash(p)

\* p keeps what it remembers.
Remembers(p) ==
  /\ seen'[p] = seen[p] /\ commit'[p] = commit[p] /\ held'[p] = held[p]
  /\ loaded'[p] = loaded[p] /\ result'[p] = result[p]

\* What a step of p may change.
Moves(p) ==
  /\ UNCHANGED sources /\ Typed'
  /\ \A q \in Jobs \ {p} : todo'[q] = todo[q] /\ Remembers(q)

LEMMA Goes ==
  ASSUME Typed, NEW p \in Jobs, NEW op, Doing(p, op), Then(p)
  PROVE  /\ todo' \in [Jobs -> Seq(Work)] /\ todo'[p] = Tail(todo[p])
         /\ \A q \in Jobs \ {p} : todo'[q] = todo[q]
<1>1. todo[p] \in Seq(Work) /\ todo[p] # <<>>
  BY DEF Typed, Doing
<1>2. Tail(todo[p]) \in Seq(Work)
  BY <1>1
<1> QED
  BY <1>2 DEF Then, Typed

LEMMA Fails ==
  ASSUME Typed, NEW p \in Jobs, Fail(p)
  PROVE  /\ todo' \in [Jobs -> Seq(Work)]
         /\ todo'[p] = <<>> \/ todo'[p] = <<<<"unlock", "own">>>>
         /\ \A q \in Jobs \ {p} : todo'[q] = todo[q]
         /\ UNCHANGED memory
<1> DEFINE u == <<"unlock", "own">>
<1>1. <<>> \in Seq(Work) /\ <<u>> \in Seq(Work)
  BY One DEF Work
<1>2. Undo(p) = <<>> \/ Undo(p) = <<u>>
  BY DEF Undo
<1> QED
  BY <1>1, <1>2 DEF Fail, Typed

LEMMA Dies ==
  ASSUME Typed, NEW p \in Jobs, Crash(p)
  PROVE  /\ todo' \in [Jobs -> Seq(Work)]
         /\ \A q \in Jobs \ {p} : todo'[q] = todo[q]
         /\ UNCHANGED <<file, sources, output, memory>>
<1>1. todo[p] \in Seq(Work)
  BY DEF Typed
<1>2. CASE todo' = [todo EXCEPT ![p] = <<>>]
  BY <1>2 DEF Crash, Typed
<1>3. ASSUME NEW n \in DOMAIN todo[p], todo' = [todo EXCEPT ![p] = SubSeq(@, 1, n)]
      PROVE  todo' \in [Jobs -> Seq(Work)] /\ \A q \in Jobs \ {p} : todo'[q] = todo[q]
  <2>1. SubSeq(todo[p], 1, n) \in Seq(Work)
    BY <1>1, <1>3
  <2> QED
    BY <1>3, <2>1 DEF Typed
<1> QED
  BY <1>2, <1>3 DEF Crash

\* A step that only reads, or looks at the lock.
LEMMA Keeps ==
  ASSUME Typed, NEW p \in Jobs, UNCHANGED sources, UNCHANGED output, UNCHANGED memory,
         todo' \in [Jobs -> Seq(Work)], \A q \in Jobs \ {p} : todo'[q] = todo[q],
         file' \in {None} \union [owner : Jobs, written : BOOLEAN]
  PROVE  Moves(p)
  BY DEF Moves, Typed, OfJobs, sources, memory, Remembers

\* Something is put in what p holds.
LEMMA HeldKept ==
  ASSUME Typed, NEW p \in Jobs, NEW x, NEW v, held' = [held EXCEPT ![p][x] = v]
  PROVE  /\ OfJobs(held') /\ \A q \in Jobs \ {p} : held'[q] = held[q]
         /\ \A q \in Jobs : held'[q] = [out \in Outputs |-> held'[q][out]]
<1> DEFINE new == [held[p] EXCEPT ![x] = v]
<1>1. held[p] = [out \in Outputs |-> held[p][out]]
  BY DEF Typed
<1>2. new = [out \in Outputs |-> new[out]]
  BY <1>1
<1>3. held' = [held EXCEPT ![p] = new]
  OBVIOUS
<1> HIDE DEF new
<1>4. held = [q \in Jobs |-> held[q]]
  BY DEF Typed, OfJobs
<1>5. held'[p] = new /\ \A q \in Jobs \ {p} : held'[q] = held[q]
  BY <1>3, <1>4
<1>6. OfJobs(held')
  BY <1>3, <1>4 DEF OfJobs
<1>7. \A q \in Jobs : held'[q] = [out \in Outputs |-> held'[q][out]]
  BY <1>2, <1>5 DEF Typed
<1> QED
  BY <1>5, <1>6, <1>7

LEMMA LockSteps ==
  ASSUME Typed, NEW p \in Jobs, Lock(p) \/ Fill(p) \/ Join(p) \/ Unlock(p) \/ Again(p) \/ Check(p)
  PROVE  Moves(p)
<1>1. [owner |-> p, written |-> FALSE] \in [owner : Jobs, written : BOOLEAN]
  OBVIOUS
<1>2. [owner |-> p, written |-> TRUE] \in [owner : Jobs, written : BOOLEAN]
  OBVIOUS
<1>3. file' \in {None} \union [owner : Jobs, written : BOOLEAN]
  BY <1>1, <1>2 DEF Typed, Lock, Fill, Join, Unlock, Again, Check
<1>4. UNCHANGED sources /\ UNCHANGED output
  BY DEF Lock, Fill, Join, Unlock, Again, Check
<1>5. /\ todo' \in [Jobs -> Seq(Work)] /\ UNCHANGED memory
      /\ \A q \in Jobs \ {p} : todo'[q] = todo[q]
  BY Goes, Fails DEF Lock, Fill, Join, Unlock, Again, Check
<1> QED
  BY <1>3, <1>4, <1>5, Keeps

LEMMA OutputSteps ==
  ASSUME Typed, NEW p \in Jobs, Clean(p) \/ Embed(p) \/ Write(p)
  PROVE  Moves(p)
<1>1. /\ todo' \in [Jobs -> Seq(Work)] /\ \A q \in Jobs \ {p} : todo'[q] = todo[q]
      /\ UNCHANGED <<file, sources>>
  BY Goes, Fails DEF Clean, Embed, Write
<1>2. CASE Clean(p)
  <2>1. output' = [out \in Outputs |-> output'[out]]
    BY <1>2 DEF Clean, Typed
  <2>2. OfJobs(seen') /\ \A q \in Jobs \ {p} : seen'[q] = seen[q]
    BY <1>2 DEF Clean, Typed, OfJobs
  <2> QED
    BY <1>1, <1>2, <2>1, <2>2 DEF Clean, Moves, Typed, OfJobs, sources, Remembers
<1>3. CASE Embed(p)
  <2>1. UNCHANGED <<output, seen, commit, loaded, result>>
    BY <1>3 DEF Embed, Fail, memory
  <2>2. \/ held' = held
        \/ held' = [held EXCEPT ![p]["client"] = output["client"]]
    BY <1>3 DEF Embed, Fail, memory
  <2>3. /\ OfJobs(held') /\ \A q \in Jobs \ {p} : held'[q] = held[q]
        /\ \A q \in Jobs : held'[q] = [out \in Outputs |-> held'[q][out]]
    <3>1. CASE held' = held
      BY <3>1 DEF Typed, OfJobs
    <3>2. CASE held' = [held EXCEPT ![p]["client"] = output["client"]]
      BY <3>2, HeldKept
    <3> QED
      BY <2>2, <3>1, <3>2
  <2> QED
    BY <1>1, <2>1, <2>3 DEF Moves, Typed, OfJobs, sources, Remembers
<1>4. CASE Write(p)
  <2>1. output' = [out \in Outputs |-> output'[out]]
    BY <1>4 DEF Write, Typed
  <2> QED
    BY <1>1, <1>4, <2>1 DEF Write, Moves, Typed, OfJobs, sources, memory, Remembers
<1> QED
  BY <1>2, <1>3, <1>4

LEMMA JobSteps ==
  ASSUME Typed, NEW p \in Jobs, Record(p) \/ Read(p) \/ Seal(p) \/ Load(p) \/ Serve(p)
  PROVE  Moves(p)
<1>1. /\ todo' \in [Jobs -> Seq(Work)] /\ \A q \in Jobs \ {p} : todo'[q] = todo[q]
      /\ UNCHANGED <<file, sources, output>>
  BY Goes, Fails DEF Record, Read, Seal, Load, Serve
<1>2. CASE Record(p)
  <2>1. UNCHANGED <<seen, held, loaded, result>>
    BY <1>2 DEF Record, Fail, memory
  <2>2. OfJobs(commit') /\ \A q \in Jobs \ {p} : commit'[q] = commit[q]
    BY <1>2 DEF Record, Fail, memory, Typed, OfJobs
  <2> QED
    BY <1>1, <2>1, <2>2 DEF Moves, Typed, OfJobs, sources, Remembers
<1>3. CASE Read(p)
  <2>1. UNCHANGED <<seen, commit, loaded, result>>
    BY <1>3 DEF Read, Fail, memory
  <2>2. \/ held' = held
        \/ held' = [held EXCEPT ![p][What(p)] = output[What(p)]]
    BY <1>3 DEF Read, Fail, memory
  <2>3. /\ OfJobs(held') /\ \A q \in Jobs \ {p} : held'[q] = held[q]
        /\ \A q \in Jobs : held'[q] = [out \in Outputs |-> held'[q][out]]
    <3>1. CASE held' = held
      BY <3>1 DEF Typed, OfJobs
    <3>2. CASE held' = [held EXCEPT ![p][What(p)] = output[What(p)]]
      BY <3>2, HeldKept
    <3> QED
      BY <2>2, <3>1, <3>2
  <2> QED
    BY <1>1, <2>1, <2>3 DEF Moves, Typed, OfJobs, sources, Remembers
<1>4. CASE Load(p)
  <2>1. UNCHANGED <<seen, commit, held, result>>
    BY <1>4 DEF Load, Fail, memory
  <2>2. OfJobs(loaded') /\ \A q \in Jobs \ {p} : loaded'[q] = loaded[q]
    BY <1>4 DEF Load, Fail, memory, Typed, OfJobs
  <2> QED
    BY <1>1, <2>1, <2>2 DEF Moves, Typed, OfJobs, sources, Remembers
<1>5. CASE Seal(p) \/ Serve(p)
  <2>1. UNCHANGED <<seen, commit, held, loaded>>
    BY <1>5 DEF Seal, Serve, Fail, memory
  <2>2. OfJobs(result') /\ \A q \in Jobs \ {p} : result'[q] = result[q]
    BY <1>5 DEF Seal, Serve, Fail, memory, Typed, OfJobs
  <2> QED
    BY <1>1, <2>1, <2>2 DEF Moves, Typed, OfJobs, sources, Remembers
<1> QED
  BY <1>2, <1>3, <1>4, <1>5

LEMMA Effects ==
  ASSUME Typed, NEW p \in Jobs, Proceeds(p)
  PROVE  Moves(p)
<1>1. CASE Failure(p)
  <2>1. /\ todo' \in [Jobs -> Seq(Work)] /\ \A q \in Jobs \ {p} : todo'[q] = todo[q]
        /\ UNCHANGED memory
    BY <1>1, Fails DEF Failure
  <2>2. UNCHANGED sources /\ file' \in {file, None}
    BY <1>1 DEF Failure
  <2>3. output' = [out \in Outputs |-> output'[out]]
    BY <1>1 DEF Failure, Typed
  <2> QED
    BY <2>1, <2>2, <2>3 DEF Moves, Typed, OfJobs, sources, memory, Remembers
<1>2. CASE Crash(p)
  BY <1>2, Dies, Keeps DEF Typed
<1>3. CASE Step(p)
  BY <1>3, LockSteps, OutputSteps, JobSteps DEF Step
<1> QED
  BY <1>1, <1>2, <1>3 DEF Proceeds

-----------------------------------------------------------------------------
(* What a job may rely on where it is.                                     *)

\* The sources are those of the commit p recorded.
AtCommit(p) == ~undone /\ tree = commit[p]
Recorded(p) == commit[p] \in 0 .. edits

ClientOf(c) == [of |-> c, whole |-> TRUE]
BundleOf(c) == [of |-> c, evidence |-> None]

BuildFits(p, i) == i \in {2, 3, 4} \union 7 .. 10 => Owns(p)

ReleaseFits(p, i) ==
  /\ i \in 2 .. 15 => Owns(p)
  /\ i \in 4 .. 15 => Recorded(p)
  /\ AtCommit(p) =>
       /\ i \in {6, 9, 10} => seen[p] = commit[p]
       /\ i \in 7 .. 15 => output["client"] = ClientOf(commit[p])
       /\ i \in 11 .. 15 => output["bundle"] = BundleOf(commit[p])
       /\ i \in 13 .. 14 => held[p]["bundle"] = BundleOf(commit[p])
       /\ i = 14 => held[p]["client"] = ClientOf(commit[p])
  /\ i = 15 /\ ~undone =>
       held[p]["client"] = ClientOf(commit[p]) /\ held[p]["bundle"] = BundleOf(commit[p])

\* The bundle in place is one that the launcher p built.
Launched(p) ==
  /\ output["bundle"] # None /\ output["bundle"].evidence # None
  /\ output["bundle"].evidence.launcher = p

\* A build that has cleared its output.
Building(p) == Doing(p, "write") \/ Doing(p, "embed")

\* Whatever client is in place, or will be, is of p's commit.
ClientIs(p) ==
  AtCommit(p) =>
    /\ output["client"] # None => output["client"].of = commit[p]
    /\ \A q \in Jobs : Building(q) => seen[q] = commit[p]

PilotFits(p, i, j) ==
  /\ i \in {3, 4, 5} \union 8 .. 11 => Owns(p)
  /\ i \in 2 .. 11 \/ (i > 1 /\ j = 19) => Recorded(p)
  /\ i = 1 => ~Launched(p)
  /\ i >= 6 /\ j = 19 => ClientIs(p)
  /\ AtCommit(p) =>
       /\ i \in {5, 10, 11} => seen[p] = commit[p]
       /\ i \in {16, 17} => held[p]["client"].of = commit[p]
       /\ i = 17 => loaded[p].of = commit[p]
  /\ i >= 17 => Authorized(p, loaded[p])
  /\ i >= 18 /\ ~undone => held[p]["client"].of = commit[p] /\ loaded[p].of = commit[p]

Fits(p, i, j) ==
  /\ Kind[p] = "build" => BuildFits(p, i)
  /\ Kind[p] = "release" => ReleaseFits(p, i)
  /\ Kind[p] = "pilot" => PilotFits(p, i, j)

InPlace(p) == \E i, j \in 1 .. 20 : Placed(p, i, j) /\ (i <= j => Fits(p, i, j))

\* A bundle that p built while its commit was in place is of that commit.
LaunchKept(p) ==
  Kind[p] = "pilot" /\ Launched(p) =>
    Recorded(p) /\ (AtCommit(p) => output["bundle"].of = commit[p])

\* What the properties say of one job.
SealedWell(p) ==
  Done(p, "release") /\ ~undone =>
    result[p].client = ClientOf(result[p].commit) /\ result[p].bundle = BundleOf(result[p].commit)
ServedWell(p) ==
  Done(p, "pilot") =>
    LET r == result[p] IN
    /\ r.bundle.evidence.launcher = p /\ r.bundle.evidence.commit = r.commit
    /\ r.client = r.bundle.evidence.client
    /\ ~undone => r.client.of = r.commit /\ r.bundle.of = r.commit

JobOK(p) == InPlace(p) /\ LaunchKept(p) /\ SealedWell(p) /\ ServedWell(p)

WorkInv == Typed /\ \A p \in Jobs : JobOK(p)

-----------------------------------------------------------------------------
(* Only the owner of the lock touches the outputs.                         *)

LEMMA HoldersOwn ==
  ASSUME Typed, NEW p \in Jobs, InPlace(p),
         Doing(p, "fill") \/ Doing(p, "clean") \/ Doing(p, "embed") \/ Doing(p, "write")
  PROVE  Owns(p)
<1>1. PICK i \in 1 .. 20, j \in 1 .. 20 : Placed(p, i, j) /\ (i <= j => Fits(p, i, j))
  BY DEF InPlace
<1>2. i \in Nat /\ j \in Nat /\ i >= 1 /\ i <= j
  BY <1>1, AtPlace, LastIs DEF Doing, Placed
<1>3. Op(p, i) \in {"fill", "clean", "embed", "write"}
  BY <1>1, <1>2, AtPlace
<1>4. CASE Kind[p] = "build"
  <2>1. i \in 1 .. 11
    BY <1>1, <1>2, <1>4, AtPlace
  <2>2. i \in {2, 3, 4} \union 7 .. 10
    BY <1>3, <1>4, <2>1, BuildPlaces
  <2> QED
    BY <1>1, <1>2, <1>4, <2>2 DEF Fits, BuildFits
<1>5. CASE Kind[p] = "release"
  <2>1. i \in 1 .. 16
    BY <1>1, <1>2, <1>5, AtPlace
  <2>2. i \in 2 .. 15
    BY <1>3, <1>5, <2>1, ReleasePlaces
  <2> QED
    BY <1>1, <1>2, <1>5, <2>2 DEF Fits, ReleaseFits
<1>6. CASE Kind[p] = "pilot"
  <2>1. i \in 1 .. 19
    BY <1>1, <1>2, <1>6, AtPlace
  <2>2. i \in {3, 4, 5} \union 8 .. 11
    BY <1>3, <1>6, <2>1, PilotPlaces
  <2> QED
    BY <1>1, <1>2, <1>6, <2>2 DEF Fits, PilotFits
<1> QED
  BY <1>4, <1>5, <1>6, ProgramIs

\* How a step may change the outputs.
LEMMA OutputMoves ==
  ASSUME NEW p \in Jobs, Proceeds(p), output' # output
  PROVE  \/ Clean(p) \/ Write(p)
         \/ /\ Failure(p) /\ Doing(p, "write") /\ What(p) = "client"
            /\ \E from \in Made(p) :
                 output' = [output EXCEPT !["client"] = Content(p, FALSE, from)]
  BY DEF Proceeds, Step, Failure, Crash, Lock, Fill, Join, Unlock, Embed, Record, Again, Read, Seal,
         Load, Check, Serve

LEMMA OneToucher ==
  ASSUME Typed, NEW p \in Jobs, InPlace(p), Proceeds(p), output' # output
  PROVE  Owns(p)
<1>1. Doing(p, "clean") \/ Doing(p, "write")
  BY OutputMoves DEF Clean, Write
<1> QED
  BY <1>1, HoldersOwn

LEMMA OneOwner ==
  ASSUME NEW p \in Jobs, NEW q \in Jobs, Owns(p), Owns(q) PROVE p = q
  BY DEF Owns

\* Nobody takes the lock from its owner.
LEMMA OwnersKeep ==
  ASSUME Typed, NEW p \in Jobs, InPlace(p), Proceeds(p), NEW q \in Jobs \ {p}, Owns(q)
  PROVE  Owns(q)' /\ output' = output
<1>1. ~Owns(p)
  BY OneOwner
<1>2. output' = output
  BY <1>1, OneToucher
<1>3. ~Doing(p, "fill")
  BY <1>1, HoldersOwn
<1>4. file # None
  BY DEF Owns
<1>5. file' = file
  BY <1>1, <1>3, <1>4
  DEF Proceeds, Step, Failure, Crash, Lock, Fill, Join, Unlock, Clean, Embed, Write, Record, Again,
      Read, Seal, Load, Check, Serve
<1> QED
  BY <1>2, <1>5 DEF Owns

-----------------------------------------------------------------------------
(* What others do to what a job relies on.                                 *)

\* Nothing that p relies on is taken from it.
Spared(p) ==
  /\ todo'[p] = todo[p] /\ Remembers(p)
  /\ todo[p] # <<>> /\ Owns(p) => Owns(p)' /\ output' = output
  /\ edits' \in Nat /\ edits' >= edits
  /\ ~undone' => ~undone
  /\ Recorded(p) /\ AtCommit(p)' => AtCommit(p)
  /\ Launched(p)' => Launched(p) /\ output'["bundle"] = output["bundle"]
  /\ Recorded(p) /\ ClientIs(p) => ClientIs(p)'

LEMMA RecordedKept ==
  ASSUME Typed, NEW p, Spared(p), Recorded(p) PROVE Recorded(p)'
  BY DEF Typed, Spared, Recorded, Remembers

LEMMA FitsKept ==
  ASSUME Typed, NEW p \in Jobs, Spared(p), NEW i \in Nat, NEW j \in Nat, Placed(p, i, j),
         i <= j, Fits(p, i, j)
  PROVE  Fits(p, i, j)'
<1>1. /\ commit'[p] = commit[p] /\ seen'[p] = seen[p] /\ held'[p] = held[p]
      /\ loaded'[p] = loaded[p] /\ (~undone' => ~undone)
  BY DEF Spared, Remembers
<1>2. todo[p] # <<>>
  BY AtPlace
<1>3. Owns(p) => Owns(p)' /\ output' = output
  BY <1>2 DEF Spared
<1>4. Recorded(p) => Recorded(p)'
  BY RecordedKept
<1>5. Recorded(p) /\ AtCommit(p)' => AtCommit(p)
  BY DEF Spared
<1>6. ASSUME Kind[p] = "build" PROVE BuildFits(p, i)'
  BY <1>3, <1>6 DEF Fits, BuildFits
<1>7. ASSUME Kind[p] = "release" PROVE ReleaseFits(p, i)'
  <2>1. ReleaseFits(p, i)
    BY <1>7 DEF Fits
  <2>2. /\ i \in 2 .. 15 => Owns(p)' /\ output' = output
        /\ i \in 4 .. 15 => Recorded(p) /\ Recorded(p)'
    BY <1>3, <1>4, <2>1 DEF ReleaseFits
  <2>3. ASSUME AtCommit(p)', i \in 6 .. 15
        PROVE  /\ i \in {6, 9, 10} => seen'[p] = commit'[p]
               /\ i \in 7 .. 15 => output'["client"] = ClientOf(commit'[p])
               /\ i \in 11 .. 15 => output'["bundle"] = BundleOf(commit'[p])
               /\ i \in 13 .. 14 => held'[p]["bundle"] = BundleOf(commit'[p])
               /\ i = 14 => held'[p]["client"] = ClientOf(commit'[p])
    <3>1. i \in 4 .. 15 /\ i \in 2 .. 15
      BY <2>3
    <3>2. AtCommit(p)
      BY <1>5, <2>2, <2>3, <3>1
    <3> QED
      BY <1>1, <2>1, <2>2, <3>1, <3>2 DEF ReleaseFits
  <2>4. i = 15 /\ ~undone' =>
          /\ held'[p]["client"] = ClientOf(commit'[p])
          /\ held'[p]["bundle"] = BundleOf(commit'[p])
    BY <1>1, <2>1 DEF ReleaseFits
  <2>5. (i \in {6, 9, 10} \/ i \in 7 .. 15 \/ i \in 11 .. 15 \/ i \in 13 .. 14 \/ i = 14)
          => i \in 6 .. 15
    OBVIOUS
  <2> QED
    BY <2>2, <2>3, <2>4, <2>5 DEF ReleaseFits, ClientOf, BundleOf
<1>8. ASSUME Kind[p] = "pilot" PROVE PilotFits(p, i, j)'
  <2>1. PilotFits(p, i, j) /\ j \in {12, 19} /\ i \in 1 .. 19
    BY <1>8, AtPlace DEF Fits
  <2>2. /\ i \in {3, 4, 5} \union 8 .. 11 => Owns(p)'
        /\ i \in 2 .. 11 \/ (i > 1 /\ j = 19) => Recorded(p) /\ Recorded(p)'
        /\ i = 1 => ~Launched(p)'
    BY <1>3, <1>4, <2>1 DEF PilotFits, Spared
  <2>3. i >= 6 /\ j = 19 => ClientIs(p)'
    <3>1. i >= 6 => i > 1
      OBVIOUS
    <3> QED
      BY <2>1, <2>2, <3>1 DEF PilotFits, Spared
  <2>4. ASSUME AtCommit(p)'
        PROVE  /\ i \in {5, 10, 11} => seen'[p] = commit'[p]
               /\ i \in {16, 17} => held'[p]["client"].of = commit'[p]
               /\ i = 17 => loaded'[p].of = commit'[p]
    <3>1. i \in {5, 10, 11, 16, 17} => Recorded(p)
      BY <2>1, <2>2
    <3>2. i \in {5, 10, 11, 16, 17} => AtCommit(p)
      BY <1>5, <2>4, <3>1
    <3> QED
      BY <1>1, <2>1, <3>2 DEF PilotFits
  <2>5. i >= 17 => Authorized(p, loaded[p])'
    BY <1>1, <2>1 DEF PilotFits, Authorized
  <2>6. i >= 18 /\ ~undone' => held'[p]["client"].of = commit'[p] /\ loaded'[p].of = commit'[p]
    BY <1>1, <2>1 DEF PilotFits
  <2> QED
    BY <2>2, <2>3, <2>4, <2>5, <2>6 DEF PilotFits
<1> QED
  BY <1>6, <1>7, <1>8 DEF Fits

LEMMA ResultsKept ==
  ASSUME NEW p \in Jobs, result'[p] = result[p], ~undone' => ~undone, SealedWell(p), ServedWell(p)
  PROVE  SealedWell(p)' /\ ServedWell(p)'
  BY DEF SealedWell, ServedWell, Done, ClientOf, BundleOf

LEMMA SparedOK ==
  ASSUME Typed, NEW p \in Jobs, Spared(p), JobOK(p)
  PROVE  JobOK(p)'
<1>1. InPlace(p)'
  <2>1. PICK i \in 1 .. 20, j \in 1 .. 20 : Placed(p, i, j) /\ (i <= j => Fits(p, i, j))
    BY DEF JobOK, InPlace
  <2>2. Placed(p, i, j)'
    BY <2>1 DEF Spared, Placed
  <2>3. i <= j => Fits(p, i, j)'
    BY <2>1, FitsKept
  <2> QED
    BY <2>2, <2>3 DEF InPlace
<1>2. LaunchKept(p)'
  <2> SUFFICES ASSUME Kind[p] = "pilot", Launched(p)'
               PROVE  /\ Recorded(p)'
                      /\ AtCommit(p)' => output'["bundle"].of = commit'[p]
    BY DEF LaunchKept
  <2>1. Launched(p) /\ output'["bundle"] = output["bundle"]
    BY DEF Spared
  <2>2. Recorded(p) /\ (AtCommit(p) => output["bundle"].of = commit[p])
    BY <2>1 DEF JobOK, LaunchKept
  <2>3. Recorded(p)'
    BY <2>2, RecordedKept
  <2>4. commit'[p] = commit[p]
    BY DEF Spared, Remembers
  <2> QED
    BY <2>1, <2>2, <2>3, <2>4 DEF Spared
<1>3. SealedWell(p)' /\ ServedWell(p)'
  BY ResultsKept DEF Spared, Remembers, JobOK
<1> QED
  BY <1>1, <1>2, <1>3 DEF JobOK

-----------------------------------------------------------------------------
(* What a step of one job means for what another relies on.                *)

LEMMA StepIs ==
  ASSUME NEW p \in Jobs, Step(p)
  PROVE  /\ Then(p) \/ Fail(p)
         /\ todo[p] # <<>>
         /\ Doing(p, "clean") => Clean(p)
         /\ Doing(p, "embed") => Embed(p)
<1>1. Then(p) \/ Fail(p)
  BY DEF Step, Lock, Fill, Join, Unlock, Clean, Embed, Write, Record, Again, Read, Seal, Load, Check,
         Serve
<1>2. todo[p] # <<>> /\ (Doing(p, "clean") => Clean(p)) /\ (Doing(p, "embed") => Embed(p))
  BY DEF Step, Lock, Fill, Join, Unlock, Clean, Embed, Write, Record, Again, Read, Seal, Load, Check,
         Serve, Doing
<1> QED
  BY <1>1, <1>2

\* An output is cleared before it is embedded or written.
LEMMA ClearedBefore ==
  ASSUME NEW p \in Jobs, NEW i, NEW j, Placed(p, i, j), i + 1 <= j,
         Op(p, i + 1) \in {"write", "embed"}
  PROVE  Op(p, i) \in {"clean", "embed"}
<1>1. i \in Nat /\ j \in Nat /\ i >= 1
  BY AtPlace
<1>2. CASE Kind[p] = "build"
  <2>1. i + 1 \in 1 .. 11
    BY <1>1, <1>2, AtPlace
  <2>2. i + 1 \in {4, 9, 10}
    BY <1>2, <2>1, BuildPlaces
  <2>3. i = 3 \/ i = 8 \/ i = 9
    BY <1>1, <2>2
  <2>4. Program(p) = BuildJob
    BY <1>2, ProgramIs
  <2> QED
    BY <2>3, <2>4, BuildJobIs DEF Op
<1>3. CASE Kind[p] = "release"
  <2>1. i + 1 \in 1 .. 16
    BY <1>1, <1>3, AtPlace
  <2>2. i + 1 \in {6, 9, 10}
    BY <1>3, <2>1, ReleasePlaces
  <2>3. i = 5 \/ i = 8 \/ i = 9
    BY <1>1, <2>2
  <2>4. Program(p) = ReleaseJob
    BY <1>3, ProgramIs
  <2> QED
    BY <2>3, <2>4, ReleaseJobIs DEF Op
<1>4. CASE Kind[p] = "pilot"
  <2>1. i + 1 \in 1 .. 19
    BY <1>1, <1>4, AtPlace
  <2>2. i + 1 \in {5, 10, 11}
    BY <1>4, <2>1, PilotPlaces
  <2>3. i = 4 \/ i = 9 \/ i = 10
    BY <1>1, <2>2
  <2>4. Program(p) = PilotJob
    BY <1>4, ProgramIs
  <2> QED
    BY <2>3, <2>4, PilotJobIs DEF Op
<1> QED
  BY <1>2, <1>3, <1>4, ProgramIs

LEMMA BuildingNext ==
  ASSUME Typed, NEW p \in Jobs, InPlace(p), Proceeds(p), Building(p)'
  PROVE  Clean(p) \/ (Building(p) /\ seen'[p] = seen[p])
<1>1. todo'[p] # <<>> /\ Head(todo'[p])[1] \in {"write", "embed"}
  BY DEF Building, Doing
<1>2. ~Fail(p)
  <2>1. <<"unlock", "own">>[1] \notin {"write", "embed"}
    OBVIOUS
  <2>2. Head(<<<<"unlock", "own">>>>) = <<"unlock", "own">>
    OBVIOUS
  <2> QED
    BY <1>1, <2>1, <2>2, Fails
<1>3. CASE Crash(p)
  <2>1. todo[p] \in Seq(Work) /\ todo[p] # <<>> /\ seen'[p] = seen[p]
    BY <1>3 DEF Typed, Crash, memory
  <2>2. PICK n \in DOMAIN todo[p] : todo' = [todo EXCEPT ![p] = SubSeq(@, 1, n)]
    BY <1>1, <1>3 DEF Crash, Typed
  <2>3. Head(SubSeq(todo[p], 1, n)) = Head(todo[p])
    BY <2>1, <2>2
  <2>4. todo'[p] = SubSeq(todo[p], 1, n)
    BY <2>2 DEF Typed
  <2> QED
    BY <1>1, <2>1, <2>3, <2>4 DEF Building, Doing
<1>4. CASE Step(p)
  <2>1. PICK i \in 1 .. 20, j \in 1 .. 20 : Placed(p, i, j)
    BY DEF InPlace
  <2>2. Then(p) /\ todo[p] # <<>>
    BY <1>2, <1>4, StepIs
  <2>3. todo'[p] = Tail(todo[p])
    BY <2>2 DEF Then, Typed
  <2>4. i <= j
    BY <2>1, <2>2, AtPlace DEF Placed
  <2>5. Placed(p, i + 1, j)'
    BY <2>1, <2>3, <2>4, NextPlace
  <2>6. i + 1 <= j /\ Op(p, i + 1) \in {"write", "embed"}
    <3>1. todo'[p] \in Seq(Work) /\ Len(todo'[p]) = (j + 1) - (i + 1)
      BY <2>5 DEF Placed
    <3>2. (j + 1) - (i + 1) # 0
      BY <1>1, <3>1
    <3>3. i + 1 <= j
      BY <2>1, <2>4, <3>2
    <3>4. 1 \in 1 .. (j + 1) - (i + 1) /\ (1 + (i + 1)) - 1 = i + 1
      BY <2>1, <3>3
    <3>5. todo'[p][1] = Program(p)[(1 + (i + 1)) - 1]
      BY <2>5, <3>4 DEF Placed
    <3>6. Head(todo'[p]) = todo'[p][1]
      BY <1>1, <3>1
    <3> QED
      BY <1>1, <3>3, <3>4, <3>5, <3>6 DEF Op
  <2>7. Op(p, i) = "clean" \/ Op(p, i) = "embed"
    BY <2>1, <2>6, ClearedBefore
  <2>8. Doing(p, "clean") \/ Doing(p, "embed")
    BY <2>1, <2>4, <2>7, AtPlace
  <2>9. CASE Doing(p, "clean")
    BY <1>4, <2>9, StepIs
  <2>10. CASE Doing(p, "embed")
    <3>1. Embed(p)
      BY <1>4, <2>10, StepIs
    <3>2. seen' = seen
      BY <3>1 DEF Embed, Fail, memory
    <3> QED
      BY <2>10, <3>2 DEF Building
  <2> QED
    BY <2>8, <2>9, <2>10
<1>5. CASE Failure(p)
  BY <1>2, <1>5 DEF Failure
<1> QED
  BY <1>3, <1>4, <1>5 DEF Proceeds

LEMMA ClientKept ==
  ASSUME Typed, NEW p \in Jobs, InPlace(p), Proceeds(p), NEW q \in Jobs, ClientIs(q),
         commit'[q] = commit[q]
  PROVE  ClientIs(q)'
<1> SUFFICES ASSUME AtCommit(q)'
             PROVE  /\ output'["client"] # None => output'["client"].of = commit[q]
                    /\ \A r \in Jobs : Building(r)' => seen'[r] = commit[q]
  BY DEF ClientIs
<1>1. /\ Moves(p) /\ tree' = tree /\ undone' = undone
  BY Effects DEF Moves, sources
<1>2. /\ tree = commit[q] /\ (output["client"] # None => output["client"].of = commit[q])
      /\ \A r \in Jobs : Building(r) => seen[r] = commit[q]
  BY <1>1 DEF AtCommit, ClientIs
<1>3. ASSUME Building(p), NEW from \in Made(p) PROVE from = commit[q]
  BY <1>2, <1>3 DEF Made
<1>4. ASSUME output'["client"] # None PROVE output'["client"].of = commit[q]
  <2>1. CASE output'["client"] = output["client"]
    BY <1>2, <1>4, <2>1
  <2>2. CASE output'["client"] # output["client"]
    <3>1. CASE Clean(p)
      BY <1>4, <2>2, <3>1 DEF Clean, Typed, Outputs
    <3>2. CASE Write(p)
      <4>1. PICK from \in Made(p) : output' = [output EXCEPT ![What(p)] = Content(p, TRUE, from)]
        BY <3>2 DEF Write
      <4>2. What(p) = "client" /\ output'["client"] = Content(p, TRUE, from)
        BY <2>2, <4>1 DEF Typed, Outputs
      <4>3. from = commit[q]
        BY <1>3, <3>2, <4>1 DEF Write, Building
      <4> QED
        BY <4>2, <4>3 DEF Content
    <3>3. CASE /\ Failure(p) /\ Doing(p, "write") /\ What(p) = "client"
               /\ \E from \in Made(p) :
                    output' = [output EXCEPT !["client"] = Content(p, FALSE, from)]
      <4>1. PICK from \in Made(p) : output' = [output EXCEPT !["client"] = Content(p, FALSE, from)]
        BY <3>3
      <4>2. output'["client"] = Content(p, FALSE, from)
        BY <4>1 DEF Typed, Outputs
      <4>3. from = commit[q]
        BY <1>3, <3>3, <4>1 DEF Building
      <4> QED
        BY <3>3, <4>2, <4>3 DEF Content
    <3> QED
      BY <2>2, <3>1, <3>2, <3>3, OutputMoves
  <2> QED
    BY <2>1, <2>2
<1>5. ASSUME NEW r \in Jobs, Building(r)' PROVE seen'[r] = commit[q]
  <2>1. CASE r # p
    <3>1. todo'[r] = todo[r] /\ seen'[r] = seen[r]
      BY <1>1, <2>1 DEF Moves, Remembers
    <3> QED
      BY <1>2, <1>5, <3>1 DEF Building, Doing
  <2>2. CASE r = p
    <3>1. CASE Clean(p)
      BY <1>2, <2>2, <3>1 DEF Clean, Typed, OfJobs
    <3>2. CASE Building(p) /\ seen'[p] = seen[p]
      BY <1>2, <2>2, <3>2
    <3> QED
      BY <1>5, <2>2, <3>1, <3>2, BuildingNext
  <2> QED
    BY <2>1, <2>2
<1> QED
  BY <1>4, <1>5

\* A bundle that is launched was there, or its launcher has just written it.
LEMMA LaunchedBefore ==
  ASSUME Typed, NEW p \in Jobs, Proceeds(p), NEW q, Launched(q)'
  PROVE  \/ Launched(q) /\ output'["bundle"] = output["bundle"]
         \/ /\ q = p /\ Kind[p] = "pilot" /\ Write(p) /\ What(p) = "bundle"
            /\ \E from \in Made(p) : output'["bundle"] = Content(p, TRUE, from)
<1>1. CASE output'["bundle"] = output["bundle"]
  BY <1>1 DEF Launched
<1>2. CASE output'["bundle"] # output["bundle"]
  <2>1. CASE Clean(p)
    BY <1>2, <2>1 DEF Clean, Typed, Outputs, Launched
  <2>2. CASE Write(p)
    <3>1. PICK from \in Made(p) : output' = [output EXCEPT ![What(p)] = Content(p, TRUE, from)]
      BY <2>2 DEF Write
    <3>2. What(p) = "bundle" /\ output'["bundle"] = Content(p, TRUE, from)
      BY <1>2, <3>1 DEF Typed, Outputs
    <3>3. output'["bundle"].evidence = Evidence(p)
      BY <3>2 DEF Content
    <3>4. Kind[p] = "pilot" /\ Evidence(p).launcher = p
      BY <3>3 DEF Launched, Evidence
    <3> QED
      BY <2>2, <3>2, <3>3, <3>4 DEF Launched
  <2>3. CASE /\ Failure(p) /\ Doing(p, "write") /\ What(p) = "client"
             /\ \E from \in Made(p) :
                  output' = [output EXCEPT !["client"] = Content(p, FALSE, from)]
    BY <1>2, <2>3 DEF Typed, Outputs
  <2> QED
    BY <1>2, <2>1, <2>2, <2>3, OutputMoves
<1> QED
  BY <1>1, <1>2

LEMMA OthersSpared ==
  ASSUME Typed, NEW p \in Jobs, InPlace(p), Proceeds(p), NEW q \in Jobs \ {p}
  PROVE  Spared(q)
<1>1. /\ Moves(p) /\ tree' = tree /\ undone' = undone /\ edits' = edits
      /\ todo'[q] = todo[q] /\ Remembers(q) /\ commit'[q] = commit[q]
  BY Effects DEF Moves, sources, Remembers
<1>2. Owns(q) => Owns(q)' /\ output' = output
  BY OwnersKeep
<1>3. Launched(q)' => Launched(q) /\ output'["bundle"] = output["bundle"]
  BY LaunchedBefore
<1>4. ClientIs(q) => ClientIs(q)'
  BY <1>1, ClientKept
<1>5. AtCommit(q)' => AtCommit(q)
  BY <1>1 DEF AtCommit
<1> QED
  BY <1>1, <1>2, <1>3, <1>4, <1>5 DEF Spared, Typed

\* Edits, and git, spare every job; so does who removes a stale lock.
Outside == RemoveStale \/ Edit \/ Commit \/ Restore

LEMMA OutsideTyped == ASSUME Typed, Outside PROVE Typed'
<1>1. UNCHANGED <<output, todo, memory>>
  BY DEF Outside, RemoveStale, Edit, Commit, Restore
<1>2. file' \in {file, None}
  BY DEF Outside, RemoveStale, Edit, Commit, Restore
<1>3. /\ edits' \in Nat /\ tree' \in 0 .. edits' /\ head' \in 0 .. edits'
      /\ undone' \in BOOLEAN /\ (~undone' => tree' = edits')
  <2>1. CASE RemoveStale
    BY <2>1 DEF Typed, RemoveStale, sources
  <2>2. CASE Edit
    BY <2>2 DEF Typed, Edit
  <2>3. CASE Commit
    BY <2>3 DEF Typed, Commit
  <2>4. CASE Restore
    BY <2>4 DEF Typed, Restore
  <2> QED
    BY <2>1, <2>2, <2>3, <2>4 DEF Outside
<1> QED
  BY <1>1, <1>2, <1>3 DEF Typed, OfJobs, memory

LEMMA OutsideSpares ==
  ASSUME Typed, Outside, NEW q \in Jobs
  PROVE  Spared(q)
<1>1. UNCHANGED <<output, todo, memory>>
  BY DEF Outside, RemoveStale, Edit, Commit, Restore
<1>2. Remembers(q) /\ todo'[q] = todo[q]
  BY <1>1 DEF Remembers, memory
<1>3. todo[q] # <<>> /\ Owns(q) => Owns(q)' /\ output' = output
  BY <1>1 DEF Outside, RemoveStale, Edit, Commit, Restore, Owns, AtWork
<1>4. edits' \in Nat /\ edits' >= edits /\ (~undone' => ~undone)
  BY DEF Typed, Outside, RemoveStale, Edit, Commit, Restore, sources
<1>5. Recorded(q) /\ AtCommit(q)' => AtCommit(q)
  BY <1>1
  DEF Typed, Outside, RemoveStale, Edit, Commit, Restore, sources, memory, Recorded, AtCommit
<1>6. Launched(q)' => Launched(q) /\ output'["bundle"] = output["bundle"]
  BY <1>1 DEF Launched
<1>7. Recorded(q) /\ ClientIs(q) => ClientIs(q)'
  <2>1. output' = output /\ seen' = seen /\ commit' = commit /\ todo' = todo
    BY <1>1 DEF memory
  <2> QED
    BY <1>5, <2>1 DEF ClientIs, Building, Doing
<1> QED
  BY <1>2, <1>3, <1>4, <1>5, <1>6, <1>7 DEF Spared

-----------------------------------------------------------------------------
(* What a step means for the job that takes it.                            *)

\* A job that fails relies on nothing any more, one that dies on less.
LEMMA FailingFits ==
  ASSUME Typed, NEW p \in Jobs, Fail(p) PROVE InPlace(p)'
<1>1. todo'[p] = <<>> \/ todo'[p] = <<<<"unlock", "own">>>>
  BY Fails
<1>2. PICK j \in Last(p) : /\ j \in {11, 12, 16}
                           /\ Placed(p, j, j)' \/ Placed(p, j + 1, j)'
  BY <1>1, UndoPlaced
<1>3. CASE Placed(p, j + 1, j)'
  <2>1. j + 1 \in 1 .. 20 /\ j \in 1 .. 20 /\ ~(j + 1 <= j)
    BY <1>2
  <2> QED
    BY <1>3, <2>1 DEF InPlace
<1>4. CASE Placed(p, j, j)'
  <2>1. Fits(p, j, j)'
    <3>1. Kind[p] = "build" => BuildFits(p, j)'
      <4>1. Kind[p] = "build" => j = 11
        BY <1>2, LastIs
      <4> QED
        BY <4>1 DEF BuildFits
    <3>2. Kind[p] = "release" => ReleaseFits(p, j)'
      <4>1. Kind[p] = "release" => j = 16
        BY <1>2, LastIs
      <4> QED
        BY <4>1 DEF ReleaseFits
    <3>3. Kind[p] = "pilot" => PilotFits(p, j, j)'
      <4>1. Kind[p] = "pilot" => j = 12
        BY <1>2, LastIs
      <4> QED
        BY <4>1 DEF PilotFits
    <3> QED
      BY <3>1, <3>2, <3>3 DEF Fits
  <2>2. j \in 1 .. 20
    BY <1>2
  <2> QED
    BY <1>4, <2>1, <2>2 DEF InPlace
<1> QED
  BY <1>2, <1>3, <1>4

LEMMA DyingFits ==
  ASSUME Typed, NEW p \in Jobs, InPlace(p), Crash(p) PROVE InPlace(p)'
<1>1. PICK i \in 1 .. 20, j \in 1 .. 20 : Placed(p, i, j) /\ (i <= j => Fits(p, i, j))
  BY DEF InPlace
<1>2. todo \in [Jobs -> Seq(Work)]
  BY DEF Typed
<1>3. CASE Placed(p, j + 1, j)'
  <2>1. j + 1 \in 1 .. 20
    BY <1>1, AtPlace, LastIs, ProgramIs
  <2> QED
    BY <1>1, <1>3, <2>1 DEF InPlace
<1>4. ASSUME NEW l \in Last(p), l <= j, i <= l, Placed(p, i, l)', i <= j PROVE InPlace(p)'
  <2>1. l \in 1 .. 20
    BY <1>1, <1>4, LastIs
  <2>2. UNCHANGED <<file, sources, output, memory>>
    BY Dies
  <2>3. /\ file' = file /\ tree' = tree /\ edits' = edits /\ undone' = undone /\ output' = output
        /\ seen' = seen /\ commit' = commit /\ held' = held /\ loaded' = loaded
    BY <2>2 DEF sources, memory
  <2>4. Fits(p, i, j) /\ i \in Nat /\ j \in Nat
    BY <1>1, <1>4
  <2>5. Kind[p] = "build" => BuildFits(p, i)'
    BY <2>3, <2>4 DEF Fits, BuildFits, Owns
  <2>6. Kind[p] = "release" => ReleaseFits(p, i)'
    BY <2>3, <2>4 DEF Fits, ReleaseFits, Owns, Recorded, AtCommit, ClientOf, BundleOf
  <2>7. Kind[p] = "pilot" => PilotFits(p, i, l)'
    <3> SUFFICES ASSUME Kind[p] = "pilot" PROVE PilotFits(p, i, l)'
      OBVIOUS
    <3>1. PilotFits(p, i, j) /\ j \in {12, 19} /\ l \in {12, 19}
      BY <1>1, <2>4, LastIs, AtPlace DEF Fits
    <3>2. l = 19 => j = 19
      BY <1>4, <3>1
    <3>3. l = 12 => i <= 12
      BY <1>4
    <3>4. i >= 6 /\ l = 19 => ClientIs(p)'
      <4>1. ClientIs(p) => ClientIs(p)'
        <5>1. Proceeds(p)
          BY DEF Proceeds
        <5> QED
          BY <2>3, <5>1, ClientKept
      <4> QED
        BY <3>1, <3>2, <4>1 DEF PilotFits
    <3> QED
      BY <2>3, <3>1, <3>2, <3>3, <3>4
      DEF PilotFits, Owns, Recorded, AtCommit, Launched, Authorized
  <2>8. Fits(p, i, l)'
    BY <2>5, <2>6, <2>7 DEF Fits
  <2> QED
    BY <1>1, <1>4, <2>1, <2>8 DEF InPlace
<1> QED
  BY <1>1, <1>2, <1>3, <1>4, CrashPlaced

LEMMA GoesOn ==
  ASSUME Typed, NEW p \in Jobs, NEW i \in 1 .. 20, NEW j \in 1 .. 20, Placed(p, i, j), i <= j,
         Then(p), i + 1 <= j => Fits(p, i + 1, j)'
  PROVE  InPlace(p)'
<1>1. todo'[p] = Tail(todo[p])
  BY DEF Then, Typed
<1>2. Placed(p, i + 1, j)'
  BY <1>1, NextPlace
<1>3. i + 1 \in 1 .. 20
  BY AtPlace, LastIs, ProgramIs
<1> QED
  BY <1>2, <1>3 DEF InPlace

LEMMA OwnsNow ==
  ASSUME Typed, NEW p \in Jobs, ~Fail(p), Lock(p) \/ Fill(p) PROVE Owns(p)'
<1>1. /\ [owner |-> p, written |-> FALSE] # None
      /\ [owner |-> p, written |-> TRUE] # None
  <2>1. /\ [owner |-> p, written |-> FALSE] \in [owner : Jobs, written : BOOLEAN]
        /\ [owner |-> p, written |-> TRUE] \in [owner : Jobs, written : BOOLEAN]
    OBVIOUS
  <2> QED
    BY <2>1, NoneAssumption
<1>2. \/ file' = [owner |-> p, written |-> FALSE]
      \/ file' = [owner |-> p, written |-> TRUE]
  BY DEF Lock, Fill
<1> QED
  BY <1>1, <1>2 DEF Owns

\* The action is told by what is next to do.
LEMMA ActionIs ==
  ASSUME NEW p \in Jobs, NEW i, NEW j, Placed(p, i, j), i <= j, Step(p)
  PROVE  /\ Op(p, i) = "lock" => Lock(p)
         /\ Op(p, i) = "fill" => Fill(p)
         /\ Op(p, i) = "join" => Join(p)
         /\ Op(p, i) = "unlock" => Unlock(p)
         /\ Op(p, i) = "clean" => Clean(p)
         /\ Op(p, i) = "embed" => Embed(p)
         /\ Op(p, i) = "write" => Write(p)
         /\ Op(p, i) = "record" => Record(p)
         /\ Op(p, i) = "again" => Again(p)
         /\ Op(p, i) = "read" => Read(p)
         /\ Op(p, i) = "seal" => Seal(p)
         /\ Op(p, i) = "load" => Load(p)
         /\ Op(p, i) = "check" => Check(p)
         /\ Op(p, i) = "serve" => Serve(p)
<1>1. Op(p, i) = Head(todo[p])[1]
  BY AtPlace DEF Op
<1>2. \A op : Doing(p, op) => Op(p, i) = op
  BY <1>1 DEF Doing
<1> QED
  BY <1>2
  DEF Step, Lock, Fill, Join, Unlock, Clean, Embed, Write, Record, Again, Read, Seal, Load, Check,
      Serve

LEMMA BuildGoes ==
  ASSUME Typed, NEW p \in Jobs, Kind[p] = "build", NEW i \in 1 .. 20, NEW j \in 1 .. 20,
         Placed(p, i, j), i <= j, BuildFits(p, i), Step(p), ~Fail(p), i + 1 <= j
  PROVE  BuildFits(p, i + 1)'
<1>1. i \in 1 .. 11 /\ i + 1 \in 1 .. 11 /\ \A op : Doing(p, op) <=> Op(p, i) = op
  BY AtPlace
<1>2. Op(p, i) \in {"lock", "fill", "clean", "embed", "write", "unlock"}
  BY <1>1, BuildPlaces
<1>3. CASE Op(p, i) \in {"lock", "fill"}
  <2>1. Lock(p) \/ Fill(p)
    BY <1>3, ActionIs
  <2>2. Owns(p)'
    BY <2>1, OwnsNow
  <2> QED
    BY <2>2 DEF BuildFits
<1>4. CASE Op(p, i) \in {"clean", "embed", "write"}
  <2>1. Clean(p) \/ Embed(p) \/ Write(p)
    BY <1>4, ActionIs
  <2>2. file' = file
    BY <2>1 DEF Clean, Embed, Write
  <2>3. i \in {3, 4} \union 8 .. 10
    BY <1>1, <1>4, BuildPlaces
  <2> QED
    BY <2>2, <2>3 DEF BuildFits, Owns
<1>5. CASE Op(p, i) = "unlock"
  <2>1. i \in {5, 11}
    BY <1>1, <1>5, BuildPlaces
  <2> QED
    BY <2>1 DEF BuildFits
<1> QED
  BY <1>2, <1>3, <1>4, <1>5

LEMMA ReleaseGoes ==
  ASSUME Typed, NEW p \in Jobs, Kind[p] = "release", NEW i \in 1 .. 20, NEW j \in 1 .. 20,
         Placed(p, i, j), i <= j, ReleaseFits(p, i), Step(p), ~Fail(p), i + 1 <= j
  PROVE  ReleaseFits(p, i + 1)'
<1>1. /\ i \in 1 .. 15 /\ i \in 1 .. 16 /\ What(p) = Arg(p, i)
      /\ \A op : Doing(p, op) <=> Op(p, i) = op
  BY AtPlace
<1>2. Op(p, i) \in {"lock", "fill", "record", "join", "clean", "embed", "write", "again", "read",
                    "seal", "unlock"}
  BY <1>1, ReleasePlaces
<1>3. tree' = tree /\ undone' = undone /\ edits' = edits
  <2>1. Proceeds(p)
    BY DEF Proceeds
  <2> QED
    BY <2>1, Effects DEF Moves, sources
<1>4. CASE Op(p, i) \in {"lock", "fill"}
  <2>1. i \in {1, 2}
    BY <1>1, <1>4, ReleasePlaces
  <2>2. Lock(p) \/ Fill(p)
    BY <1>4, ActionIs
  <2>3. Owns(p)'
    BY <2>2, OwnsNow
  <2> QED
    BY <2>1, <2>3 DEF ReleaseFits
<1>5. CASE Op(p, i) = "record"
  <2>1. i = 3 /\ Record(p)
    BY <1>1, <1>5, ReleasePlaces, ActionIs
  <2>2. tree = head /\ commit' = [commit EXCEPT ![p] = head] /\ file' = file
    BY <2>1 DEF Record
  <2>3. commit'[p] \in 0 .. edits
    BY <2>2 DEF Typed, OfJobs
  <2> QED
    BY <1>3, <2>1, <2>2, <2>3 DEF ReleaseFits, Owns, Recorded
<1>6. CASE Op(p, i) \in {"join", "again"}
  <2>1. i \in {4, 7, 11, 14} /\ (Join(p) \/ Again(p)) /\ (i = 14 => Again(p))
    BY <1>1, <1>6, ReleasePlaces, ActionIs
  <2>2. UNCHANGED <<file, output, memory>>
    BY <2>1 DEF Join, Again
  <2>3. /\ file' = file /\ output' = output /\ seen' = seen /\ commit' = commit /\ held' = held
    BY <2>2 DEF memory
  <2>4. CASE i \in {4, 7, 11}
    BY <1>3, <2>3, <2>4 DEF ReleaseFits, Owns, Recorded, AtCommit, ClientOf, BundleOf
  <2>5. CASE i = 14
    <3>1. tree = commit[p]
      BY <2>1, <2>5 DEF Again, Same
    <3> QED
      BY <1>3, <2>3, <2>5, <3>1 DEF ReleaseFits, Owns, Recorded, AtCommit, ClientOf, BundleOf
  <2> QED
    BY <2>1, <2>4, <2>5
<1>7. CASE Op(p, i) = "clean"
  <2>1. /\ Clean(p) /\ \/ i = 5 /\ What(p) = "client"
                       \/ i = 8 /\ What(p) = "bundle"
    BY <1>1, <1>7, ReleasePlaces, ActionIs
  <2>2. /\ output' = [output EXCEPT ![What(p)] = None] /\ seen' = [seen EXCEPT ![p] = tree]
        /\ file' = file /\ commit' = commit /\ held' = held
    BY <2>1 DEF Clean
  <2>3. seen'[p] = tree
    BY <2>2 DEF Typed, OfJobs
  <2>4. i = 8 => output'["client"] = output["client"]
    BY <2>1, <2>2 DEF Typed, Outputs
  <2> QED
    BY <1>3, <2>1, <2>2, <2>3, <2>4 DEF ReleaseFits, Owns, Recorded, AtCommit, ClientOf, BundleOf
<1>8. CASE Op(p, i) = "embed"
  <2>1. i = 9 /\ Embed(p)
    BY <1>1, <1>8, ReleasePlaces, ActionIs
  <2>2. UNCHANGED <<file, output, memory>>
    BY <2>1 DEF Embed
  <2>3. /\ file' = file /\ output' = output /\ seen' = seen /\ commit' = commit /\ held' = held
    BY <2>2 DEF memory
  <2> QED
    BY <1>3, <2>1, <2>3 DEF ReleaseFits, Owns, Recorded, AtCommit, ClientOf, BundleOf
<1>9. CASE Op(p, i) = "write"
  <2>1. /\ Write(p) /\ \/ i = 6 /\ What(p) = "client"
                       \/ i = 10 /\ What(p) = "bundle"
    BY <1>1, <1>9, ReleasePlaces, ActionIs
  <2>2. PICK from \in Made(p) : output' = [output EXCEPT ![What(p)] = Content(p, TRUE, from)]
    BY <2>1 DEF Write
  <2>3. file' = file /\ seen' = seen /\ commit' = commit /\ held' = held
    BY <2>1 DEF Write, memory
  <2>4. AtCommit(p) => seen[p] = commit[p] /\ from = commit[p]
    BY <2>1 DEF ReleaseFits, AtCommit, Made
  <2>5. i = 6 => output'["client"] = ClientOf(from)
    BY <2>1, <2>2 DEF Typed, Outputs, Content, ClientOf
  <2>6. i = 10 => output'["bundle"] = BundleOf(from) /\ output'["client"] = output["client"]
    BY <2>1, <2>2 DEF Typed, Outputs, Content, BundleOf, Evidence
  <2> QED
    BY <1>3, <2>1, <2>3, <2>4, <2>5, <2>6
    DEF ReleaseFits, Owns, Recorded, AtCommit
<1>10. CASE Op(p, i) = "read"
  <2>1. /\ Read(p) /\ \/ i = 12 /\ What(p) = "bundle"
                      \/ i = 13 /\ What(p) = "client"
    BY <1>1, <1>10, ReleasePlaces, ActionIs
  <2>2. held' = [held EXCEPT ![p][What(p)] = output[What(p)]]
    BY <2>1 DEF Read
  <2>3. /\ What(p) \in Outputs => held'[p][What(p)] = output[What(p)]
        /\ \A y \in Outputs \ {What(p)} : held'[p][y] = held[p][y]
    <3>1. held = [q \in Jobs |-> held[q]] /\ held[p] = [out \in Outputs |-> held[p][out]]
      BY DEF Typed, OfJobs
    <3>2. held'[p] = [held[p] EXCEPT ![What(p)] = output[What(p)]]
      BY <2>2, <3>1
    <3> QED
      BY <3>1, <3>2
  <2>4. file' = file /\ output' = output /\ seen' = seen /\ commit' = commit
    BY <2>1 DEF Read
  <2>5. /\ i = 12 => held'[p]["bundle"] = output["bundle"]
        /\ i = 13 => held'[p]["client"] = output["client"] /\ held'[p]["bundle"] = held[p]["bundle"]
    BY <2>1, <2>3 DEF Outputs
  <2> QED
    BY <1>3, <2>1, <2>4, <2>5 DEF ReleaseFits, Owns, Recorded, AtCommit, ClientOf, BundleOf
<1>11. CASE Op(p, i) = "seal"
  <2>1. i = 15
    BY <1>1, <1>11, ReleasePlaces
  <2> QED
    BY <2>1 DEF ReleaseFits
<1>12. CASE Op(p, i) = "unlock"
  BY <1>1, <1>12, ReleasePlaces
<1> QED
  BY <1>2, <1>4, <1>5, <1>6, <1>7, <1>8, <1>9, <1>10, <1>11, <1>12

LEMMA PilotGoes ==
  ASSUME Typed, NEW p \in Jobs, Kind[p] = "pilot", NEW i \in 1 .. 20, NEW j \in 1 .. 20,
         Placed(p, i, j), i <= j, \A q \in Jobs : InPlace(q), PilotFits(p, i, j), LaunchKept(p),
         Step(p), ~Fail(p), i + 1 <= j
  PROVE  PilotFits(p, i + 1, j)'
<1>1. /\ i \in 1 .. 18 /\ i \in 1 .. 19 /\ j \in {12, 19} /\ What(p) = Arg(p, i)
      /\ \A op : Doing(p, op) <=> Op(p, i) = op
  BY AtPlace
<1>2. Op(p, i) \in {"lock", "fill", "record", "clean", "embed", "write", "again", "read",
                    "load", "check", "serve", "unlock"}
  BY <1>1, PilotPlaces
<1>3. Proceeds(p)
  BY DEF Proceeds
<1>4. tree' = tree /\ undone' = undone /\ edits' = edits
  BY <1>3, Effects DEF Moves, sources
<1>5. ASSUME commit'[p] = commit[p]
      PROVE  /\ i + 1 \in 2 .. 11 \/ (i + 1 > 1 /\ j = 19) => i = 1 \/ Recorded(p)'
             /\ i >= 6 /\ j = 19 => ClientIs(p)'
  <2>1. i + 1 \in 2 .. 11 \/ (i + 1 > 1 /\ j = 19) => i = 1 \/ Recorded(p)
    BY <1>1 DEF PilotFits
  <2>2. ClientIs(p) => ClientIs(p)'
    BY <1>3, <1>5, ClientKept
  <2> QED
    BY <1>4, <1>5, <2>1, <2>2 DEF PilotFits, Recorded
<1>6. CASE Op(p, i) = "record"
  <2>1. i = 1 /\ Record(p)
    BY <1>1, <1>6, PilotPlaces, ActionIs
  <2>2. tree = head /\ commit' = [commit EXCEPT ![p] = head]
    BY <2>1 DEF Record
  <2>3. commit'[p] \in 0 .. edits
    BY <2>2 DEF Typed, OfJobs
  <2> QED
    BY <1>4, <2>1, <2>3 DEF PilotFits, Recorded
<1>7. CASE Op(p, i) \in {"lock", "fill"}
  <2>1. i \in {2, 3, 7, 8} /\ (Lock(p) \/ Fill(p))
    BY <1>1, <1>7, PilotPlaces, ActionIs
  <2>2. Owns(p)'
    BY <2>1, OwnsNow
  <2>3. commit'[p] = commit[p]
    BY <2>1 DEF Lock, Fill, memory
  <2> QED
    BY <1>5, <2>1, <2>2, <2>3 DEF PilotFits
<1>8. CASE Op(p, i) = "unlock"
  <2>1. i \in {6, 12} /\ Unlock(p)
    BY <1>1, <1>8, PilotPlaces, ActionIs
  <2>2. commit'[p] = commit[p]
    BY <2>1 DEF Unlock, memory
  <2> QED
    BY <1>5, <2>1, <2>2 DEF PilotFits
<1>9. CASE Op(p, i) = "clean"
  <2>1. i \in {4, 9} /\ Clean(p)
    BY <1>1, <1>9, PilotPlaces, ActionIs
  <2>2. seen' = [seen EXCEPT ![p] = tree] /\ file' = file /\ commit' = commit
    BY <2>1 DEF Clean
  <2>3. seen'[p] = tree
    BY <2>2 DEF Typed, OfJobs
  <2> QED
    BY <1>4, <1>5, <2>1, <2>2, <2>3 DEF PilotFits, Owns, AtCommit
<1>10. CASE Op(p, i) = "embed"
  <2>1. i = 10 /\ Embed(p)
    BY <1>1, <1>10, PilotPlaces, ActionIs
  <2>2. seen' = seen /\ file' = file /\ commit' = commit
    BY <2>1 DEF Embed, memory
  <2> QED
    BY <1>4, <1>5, <2>1, <2>2 DEF PilotFits, Owns, AtCommit
<1>11. CASE Op(p, i) = "write"
  <2>1. /\ Write(p) /\ \/ i = 5 /\ What(p) = "client"
                       \/ i = 11 /\ What(p) = "bundle"
    BY <1>1, <1>11, PilotPlaces, ActionIs
  <2>2. seen' = seen /\ file' = file /\ commit' = commit
    BY <2>1 DEF Write, memory
  <2>3. CASE i = 11
    BY <1>4, <1>5, <2>2, <2>3 DEF PilotFits
  <2>4. CASE i = 5
    <3>1. ASSUME AtCommit(p)'
          PROVE  /\ output'["client"] # None => output'["client"].of = commit'[p]
                 /\ \A q \in Jobs : Building(q)' => seen'[q] = commit'[p]
      <4>1. AtCommit(p) /\ seen[p] = commit[p] /\ Owns(p)
        BY <1>4, <2>2, <2>4, <3>1 DEF PilotFits, AtCommit
      <4>2. PICK from \in Made(p) : output' = [output EXCEPT ![What(p)] = Content(p, TRUE, from)]
        BY <2>1 DEF Write
      <4>3. from = commit[p]
        BY <4>1, <4>2 DEF Made, AtCommit
      <4>4. output'["client"] = ClientOf(from)
        BY <2>1, <2>4, <4>2 DEF Typed, Outputs, Content, ClientOf
      <4>5. output'["client"].of = commit'[p]
        BY <2>2, <4>3, <4>4 DEF ClientOf
      <4>6. ASSUME NEW q \in Jobs, Building(q)' PROVE seen'[q] = commit'[p]
        <5>1. CASE q = p
          BY <2>2, <4>1, <5>1
        <5>2. CASE q # p
          <6>1. todo'[q] = todo[q]
            BY <1>3, <5>2, Effects DEF Moves
          <6>2. Building(q)
            BY <4>6, <6>1 DEF Building, Doing
          <6>3. Owns(q)
            BY <6>2, HoldersOwn DEF Building
          <6> QED
            BY <4>1, <5>2, <6>3, OneOwner
        <5> QED
          BY <5>1, <5>2
      <4> QED
        BY <4>5, <4>6
    <3>2. ClientIs(p)'
      BY <3>1 DEF ClientIs
    <3> QED
      BY <1>5, <2>2, <2>4, <3>2 DEF PilotFits
  <2> QED
    BY <2>1, <2>3, <2>4
<1>12. CASE Op(p, i) \in {"again", "check"}
  <2>1. i \in {13, 17, 18} /\ (Again(p) \/ Check(p)) /\ (i = 17 => Again(p)) /\ j = 19
    BY <1>1, <1>12, PilotPlaces, ActionIs
  <2>2. UNCHANGED memory
    BY <2>1 DEF Again, Check
  <2>3. commit' = commit /\ held' = held /\ loaded' = loaded
    BY <2>2 DEF memory
  <2>4. CASE i = 13
    BY <1>5, <2>1, <2>3, <2>4 DEF PilotFits
  <2>5. CASE i = 17
    <3>1. tree = commit[p]
      BY <2>1, <2>5 DEF Again, Same
    <3>2. Authorized(p, loaded[p])'
      BY <2>3, <2>5 DEF PilotFits, Authorized
    <3>3. ~undone' => held'[p]["client"].of = commit'[p] /\ loaded'[p].of = commit'[p]
      BY <1>4, <2>3, <2>5, <3>1 DEF PilotFits, AtCommit
    <3> QED
      BY <1>5, <2>1, <2>3, <2>5, <3>2, <3>3 DEF PilotFits
  <2>6. CASE i = 18
    <3>1. Authorized(p, loaded[p])'
      BY <2>3, <2>6 DEF PilotFits, Authorized
    <3>2. ~undone' => held'[p]["client"].of = commit'[p] /\ loaded'[p].of = commit'[p]
      BY <1>4, <2>3, <2>6 DEF PilotFits
    <3> QED
      BY <1>5, <2>1, <2>3, <2>6, <3>1, <3>2 DEF PilotFits
  <2> QED
    BY <2>1, <2>4, <2>5, <2>6
<1>13. CASE Op(p, i) = "read"
  <2>1. /\ Read(p) /\ \/ i = 14 /\ What(p) = "bundle"
                      \/ i = 15 /\ What(p) = "client"
    BY <1>1, <1>13, PilotPlaces, ActionIs
  <2>2. commit' = commit /\ j = 19
    BY <1>1, <2>1 DEF Read
  <2>3. CASE i = 14
    BY <1>5, <2>2, <2>3 DEF PilotFits
  <2>4. CASE i = 15
    <3>1. held' = [held EXCEPT ![p]["client"] = output["client"]] /\ output["client"] # None
      BY <2>1, <2>4 DEF Read
    <3>2. "client" \in Outputs
      BY DEF Outputs
    <3>3. held'[p]["client"] = output["client"]
      <4>1. held = [q \in Jobs |-> held[q]] /\ held[p] = [out \in Outputs |-> held[p][out]]
        BY DEF Typed, OfJobs
      <4>2. held'[p] = [held[p] EXCEPT !["client"] = output["client"]]
        BY <3>1, <4>1
      <4> QED
        BY <3>2, <4>1, <4>2
    <3>4. ClientIs(p)
      BY <2>2, <2>4 DEF PilotFits
    <3>5. AtCommit(p)' => held'[p]["client"].of = commit'[p]
      BY <1>4, <2>2, <3>1, <3>3, <3>4 DEF ClientIs, AtCommit
    <3> QED
      BY <1>5, <2>2, <2>4, <3>5 DEF PilotFits
  <2> QED
    BY <2>1, <2>3, <2>4
<1>14. CASE Op(p, i) = "load"
  <2>1. i = 16 /\ Load(p) /\ j = 19
    BY <1>1, <1>14, PilotPlaces, ActionIs
  <2>2. /\ output["bundle"] # None /\ Authorized(p, output["bundle"])
        /\ loaded' = [loaded EXCEPT ![p] = output["bundle"]]
        /\ commit' = commit /\ held' = held
    BY <2>1 DEF Load
  <2>3. loaded'[p] = output["bundle"]
    BY <2>2 DEF Typed, OfJobs
  <2>4. Authorized(p, loaded[p])'
    BY <2>2, <2>3 DEF Authorized
  <2>5. Launched(p)
    BY <2>2 DEF Launched, Authorized
  <2>6. AtCommit(p)' => loaded'[p].of = commit'[p] /\ held'[p]["client"].of = commit'[p]
    BY <1>4, <2>1, <2>2, <2>3, <2>5 DEF LaunchKept, AtCommit, PilotFits
  <2> QED
    BY <1>5, <2>1, <2>2, <2>4, <2>6 DEF PilotFits
<1>15. CASE Op(p, i) = "serve"
  BY <1>1, <1>15, PilotPlaces
<1> QED
  BY <1>2, <1>6, <1>7, <1>8, <1>9, <1>10, <1>11, <1>12, <1>13, <1>14, <1>15

LEMMA StepFits ==
  ASSUME Typed, NEW p \in Jobs, \A q \in Jobs : InPlace(q), LaunchKept(p), Step(p)
  PROVE  InPlace(p)'
<1>1. CASE Fail(p)
  BY <1>1, FailingFits
<1>2. CASE ~Fail(p)
  <2>1. PICK i \in 1 .. 20, j \in 1 .. 20 : Placed(p, i, j) /\ (i <= j => Fits(p, i, j))
    BY DEF InPlace
  <2>2. Then(p) /\ todo[p] # <<>>
    BY <1>2, StepIs
  <2>3. i <= j
    BY <2>1, <2>2, AtPlace DEF Placed
  <2>4. ASSUME i + 1 <= j PROVE Fits(p, i + 1, j)'
    <3>1. Kind[p] = "build" => BuildFits(p, i + 1)'
      BY <1>2, <2>1, <2>3, <2>4, BuildGoes DEF Fits
    <3>2. Kind[p] = "release" => ReleaseFits(p, i + 1)'
      BY <1>2, <2>1, <2>3, <2>4, ReleaseGoes DEF Fits
    <3>3. Kind[p] = "pilot" => PilotFits(p, i + 1, j)'
      BY <1>2, <2>1, <2>3, <2>4, PilotGoes DEF Fits
    <3> QED
      BY <3>1, <3>2, <3>3 DEF Fits
  <2> QED
    BY <2>1, <2>2, <2>3, <2>4, GoesOn
<1> QED
  BY <1>1, <1>2

LEMMA OwnFits ==
  ASSUME Typed, NEW p \in Jobs, \A q \in Jobs : InPlace(q), LaunchKept(p), Proceeds(p)
  PROVE  InPlace(p)'
<1>1. CASE Step(p)
  BY <1>1, StepFits
<1>2. CASE Failure(p)
  BY <1>2, FailingFits DEF Failure
<1>3. CASE Crash(p)
  BY <1>3, DyingFits
<1> QED
  BY <1>1, <1>2, <1>3 DEF Proceeds

\* Where a job is that does one of the steps only its own kind has.
LEMMA PlaceOf ==
  ASSUME Typed, NEW p \in Jobs, InPlace(p)
  PROVE  /\ Doing(p, "record") /\ Kind[p] = "pilot" => ~Launched(p)
         /\ Doing(p, "write") /\ Kind[p] = "pilot" /\ What(p) = "bundle" =>
              Recorded(p) /\ (AtCommit(p) => seen[p] = commit[p])
         /\ Doing(p, "seal") =>
              /\ Kind[p] = "release"
              /\ ~undone => /\ held[p]["client"] = ClientOf(commit[p])
                            /\ held[p]["bundle"] = BundleOf(commit[p])
         /\ Doing(p, "serve") =>
              /\ Kind[p] = "pilot" /\ Authorized(p, loaded[p])
              /\ ~undone => held[p]["client"].of = commit[p] /\ loaded[p].of = commit[p]
<1>1. PICK i \in 1 .. 20, j \in 1 .. 20 : Placed(p, i, j) /\ (i <= j => Fits(p, i, j))
  BY DEF InPlace
<1>2. ASSUME todo[p] # <<>>
      PROVE  /\ i <= j /\ Fits(p, i, j) /\ What(p) = Arg(p, i)
             /\ \A op : Doing(p, op) <=> Op(p, i) = op
  <2>1. i <= j
    BY <1>1, <1>2, AtPlace DEF Placed
  <2> QED
    BY <1>1, <2>1, AtPlace
<1>3. SUFFICES ASSUME todo[p] # <<>>
               PROVE  /\ Op(p, i) = "record" /\ Kind[p] = "pilot" => ~Launched(p)
                      /\ Op(p, i) = "write" /\ Kind[p] = "pilot" /\ Arg(p, i) = "bundle" =>
                           Recorded(p) /\ (AtCommit(p) => seen[p] = commit[p])
                      /\ Op(p, i) = "seal" =>
                           /\ Kind[p] = "release"
                           /\ ~undone => /\ held[p]["client"] = ClientOf(commit[p])
                                         /\ held[p]["bundle"] = BundleOf(commit[p])
                      /\ Op(p, i) = "serve" =>
                           /\ Kind[p] = "pilot" /\ Authorized(p, loaded[p])
                           /\ ~undone => held[p]["client"].of = commit[p] /\ loaded[p].of = commit[p]
  BY <1>2 DEF Doing
<1>4. i <= j /\ Fits(p, i, j)
  BY <1>2, <1>3
<1>5. CASE Kind[p] = "build"
  <2>1. i \in 1 .. 11
    BY <1>1, <1>4, <1>5, AtPlace
  <2> QED
    BY <1>5, <2>1, BuildPlaces
<1>6. CASE Kind[p] = "release"
  <2>1. i \in 1 .. 16
    <3>1. j \in {10, 16} /\ i \in Nat /\ i >= 1
      BY <1>1, <1>6, AtPlace
    <3> QED
      BY <1>4, <3>1
  <2>2. /\ Op(p, i) = "seal" => i = 15
        /\ Op(p, i) # "serve"
    BY <1>6, <2>1, ReleasePlaces
  <2> QED
    BY <1>4, <1>6, <2>2 DEF Fits, ReleaseFits
<1>7. CASE Kind[p] = "pilot"
  <2>1. i \in 1 .. 19 /\ j \in {12, 19}
    BY <1>1, <1>4, <1>7, AtPlace
  <2>2. /\ Op(p, i) = "record" => i = 1
        /\ Op(p, i) = "write" /\ Arg(p, i) = "bundle" => i = 11
        /\ Op(p, i) = "serve" => i = 19
        /\ Op(p, i) # "seal"
    BY <1>7, <2>1, PilotPlaces
  <2> QED
    BY <1>4, <1>7, <2>1, <2>2 DEF Fits, PilotFits
<1> QED
  BY <1>5, <1>6, <1>7, ProgramIs

LEMMA OwnLaunch ==
  ASSUME Typed, NEW p \in Jobs, InPlace(p), LaunchKept(p), Proceeds(p)
  PROVE  LaunchKept(p)'
<1> SUFFICES ASSUME Kind[p] = "pilot", Launched(p)'
             PROVE  Recorded(p)' /\ (AtCommit(p)' => output'["bundle"].of = commit'[p])
  BY DEF LaunchKept
<1>1. tree' = tree /\ undone' = undone /\ edits' = edits
  BY Effects DEF Moves, sources
<1>2. commit' = commit \/ Doing(p, "record")
  BY DEF Proceeds, Step, Failure, Crash, Lock, Fill, Join, Unlock, Clean, Embed, Write, Record, Again,
         Read, Seal, Load, Check, Serve, Fail, memory
<1>3. CASE Launched(p) /\ output'["bundle"] = output["bundle"]
  <2>1. commit' = commit
    BY <1>2, <1>3, PlaceOf
  <2> QED
    BY <1>1, <1>3, <2>1 DEF LaunchKept, Recorded, AtCommit
<1>4. ASSUME Write(p), What(p) = "bundle", NEW from \in Made(p),
             output'["bundle"] = Content(p, TRUE, from)
      PROVE  Recorded(p)' /\ (AtCommit(p)' => output'["bundle"].of = commit'[p])
  <2>1. commit' = commit /\ Doing(p, "write")
    BY <1>4 DEF Write, memory
  <2>2. Recorded(p) /\ (AtCommit(p) => seen[p] = commit[p])
    BY <1>4, <2>1, PlaceOf
  <2>3. AtCommit(p) => from = commit[p]
    BY <1>4, <2>2 DEF AtCommit, Made
  <2>4. output'["bundle"].of = from
    BY <1>4 DEF Content
  <2> QED
    BY <1>1, <2>1, <2>2, <2>3, <2>4 DEF Recorded, AtCommit
<1> QED
  BY <1>3, <1>4, LaunchedBefore

LEMMA OwnResults ==
  ASSUME Typed, NEW p \in Jobs, InPlace(p), SealedWell(p), ServedWell(p), Proceeds(p)
  PROVE  SealedWell(p)' /\ ServedWell(p)'
<1>1. undone' = undone
  BY Effects DEF Moves, sources
<1>2. CASE result' = result
  BY <1>1, <1>2, ResultsKept
<1>3. CASE Seal(p)
  <2>1. result'[p] = [commit |-> commit[p], client |-> held[p]["client"],
                      bundle |-> held[p]["bundle"]]
    BY <1>3 DEF Seal, Typed, OfJobs
  <2>2. /\ Kind[p] = "release"
        /\ ~undone => /\ held[p]["client"] = ClientOf(commit[p])
                      /\ held[p]["bundle"] = BundleOf(commit[p])
    BY <1>3, PlaceOf DEF Seal
  <2> QED
    BY <1>1, <2>1, <2>2 DEF SealedWell, ServedWell, Done, ClientOf, BundleOf
<1>4. CASE Serve(p) /\ result' # result
  <2>1. /\ output["client"] = loaded[p].evidence.client
        /\ result' = [result EXCEPT ![p] =
             [commit |-> commit[p], client |-> output["client"], bundle |-> loaded[p]]]
    BY <1>4 DEF Serve, Fail, memory
  <2>2. result'[p] = [commit |-> commit[p], client |-> output["client"], bundle |-> loaded[p]]
    BY <2>1 DEF Typed, OfJobs
  <2>3. /\ Kind[p] = "pilot" /\ Authorized(p, loaded[p])
        /\ ~undone => held[p]["client"].of = commit[p] /\ loaded[p].of = commit[p]
    BY <1>4, PlaceOf DEF Serve
  <2>4. /\ loaded[p].evidence.launcher = p /\ loaded[p].evidence.commit = commit[p]
        /\ output["client"] = held[p]["client"]
    BY <2>1, <2>3 DEF Authorized
  <2>5. /\ result'[p].commit = commit[p] /\ result'[p].client = output["client"]
        /\ result'[p].bundle = loaded[p]
    BY <2>2
  <2>6. SealedWell(p)'
    BY <2>3 DEF SealedWell, Done
  <2>7. ServedWell(p)'
    <3> DEFINE r == result'[p]
    <3>1. /\ r.bundle.evidence.launcher = p /\ r.bundle.evidence.commit = r.commit
          /\ r.client = r.bundle.evidence.client
      BY <2>1, <2>4, <2>5
    <3>2. ~undone' => r.client.of = r.commit /\ r.bundle.of = r.commit
      BY <1>1, <2>3, <2>4, <2>5
    <3> HIDE DEF r
    <3>3. r = result'[p]
      BY DEF r
    <3> QED
      BY <3>1, <3>2, <3>3 DEF ServedWell
  <2> QED
    BY <2>6, <2>7
<1> QED
  BY <1>2, <1>3, <1>4
  DEF Proceeds, Step, Failure, Crash, Lock, Fill, Join, Unlock, Clean, Embed, Write, Record, Again,
      Read, Seal, Load, Check, Serve, Fail, memory

-----------------------------------------------------------------------------
(* The theorems.                                                           *)

LEMMA WorkAtFirst == Init => WorkInv
<1> SUFFICES ASSUME Init PROVE WorkInv
  OBVIOUS
<1>1. todo = [p \in Jobs |-> Program(p)]
  BY DEF Init, Program
<1>2. \A p \in Jobs : Program(p) \in Seq(Work)
  BY ProgramIs, BuildJobIs, ReleaseJobIs, PilotJobIs
<1>3. Typed
  <2>1. todo \in [Jobs -> Seq(Work)]
    BY <1>1, <1>2
  <2>2. /\ file = None /\ edits = 0 /\ tree = 0 /\ head = 0 /\ undone = FALSE
        /\ output = [out \in Outputs |-> None]
    BY DEF Init, Nothing
  <2>3. /\ OfJobs(seen) /\ OfJobs(commit) /\ OfJobs(held) /\ OfJobs(loaded) /\ OfJobs(result)
        /\ \A p \in Jobs : held[p] = [out \in Outputs |-> held[p][out]]
    BY DEF Init, OfJobs, Nothing
  <2>4. edits \in Nat /\ tree \in 0 .. edits /\ head \in 0 .. edits
    BY <2>2
  <2>5. output = [out \in Outputs |-> output[out]]
    BY <2>2
  <2> QED
    BY <2>1, <2>2, <2>3, <2>4, <2>5, Zenon DEF Typed
<1>4. ASSUME NEW p \in Jobs PROVE JobOK(p)
  <2>1. PICK j \in {11, 16, 19} : j \in Last(p) /\ Len(Program(p)) = j
    BY ProgramIs, LastIs, BuildJobIs, ReleaseJobIs, PilotJobIs
  <2>2. Placed(p, 1, j)
    <3>1. (j + 1) - 1 = j /\ 1 \in 1 .. j + 1 /\ \A k \in 1 .. j : (k + 1) - 1 = k
      BY <2>1
    <3>2. todo[p] = Program(p)
      BY <1>1
    <3> QED
      BY <1>2, <2>1, <3>1, <3>2 DEF Placed
  <2>3. ~Launched(p)
    BY DEF Launched, Init, Nothing, Outputs
  <2>4. Fits(p, 1, j)
    BY <2>3 DEF Fits, BuildFits, ReleaseFits, PilotFits
  <2>5. InPlace(p)
    <3>1. 1 \in 1 .. 20 /\ j \in 1 .. 20
      BY <2>1
    <3> QED
      BY <2>2, <2>4, <3>1 DEF InPlace
  <2>6. result[p] = None
    BY DEF Init
  <2> QED
    BY <2>3, <2>5, <2>6 DEF JobOK, LaunchKept, SealedWell, ServedWell, Done
<1> QED
  BY <1>3, <1>4 DEF WorkInv

LEMMA WorkKept == WorkInv /\ [Next]_vars => WorkInv'
<1> SUFFICES ASSUME WorkInv, [Next]_vars PROVE WorkInv'
  OBVIOUS
<1>1. Typed /\ \A q \in Jobs : JobOK(q) /\ InPlace(q)
  BY DEF WorkInv, JobOK
<1>2. ASSUME NEW p \in Jobs, Proceeds(p) PROVE WorkInv'
  <2>1. Typed'
    BY <1>1, <1>2, Effects DEF Moves
  <2>2. ASSUME NEW q \in Jobs \ {p} PROVE JobOK(q)'
    BY <1>1, <1>2, <2>2, OthersSpared, SparedOK
  <2>3. JobOK(p)'
    BY <1>1, <1>2, OwnFits, OwnLaunch, OwnResults DEF JobOK
  <2> QED
    BY <2>1, <2>2, <2>3 DEF WorkInv
<1>3. CASE Outside
  <2>1. Typed'
    BY <1>1, <1>3, OutsideTyped
  <2>2. ASSUME NEW q \in Jobs PROVE JobOK(q)'
    BY <1>1, <1>3, OutsideSpares, SparedOK
  <2> QED
    BY <2>1, <2>2 DEF WorkInv
<1>4. CASE UNCHANGED vars
  <2>1. UNCHANGED <<file, sources, output, todo, memory>>
    BY <1>4 DEF vars
  <2>2. Typed'
    BY <1>1, <2>1 DEF Typed, OfJobs, sources, memory
  <2>3. ASSUME NEW q \in Jobs PROVE JobOK(q)'
    <3>1. ClientIs(q) => ClientIs(q)'
      BY <2>1 DEF ClientIs, AtCommit, Building, Doing, sources, memory
    <3>2. Spared(q)
      BY <1>1, <2>1, <3>1
      DEF Typed, Spared, Remembers, Owns, AtCommit, Launched, sources, memory
    <3> QED
      BY <1>1, <3>2, SparedOK
  <2> QED
    BY <2>2, <2>3 DEF WorkInv
<1> QED
  BY <1>2, <1>3, <1>4 DEF Next, Finished, Outside, Proceeds

\* Every job is at a place of its program and keeps what that place promises:
\* the inductive invariant of all that follows.
THEOREM WorkInvHolds == Spec => []WorkInv
  BY WorkAtFirst, WorkKept, PTL DEF Spec

\* What a release seals is of the commit it reports, client and server, for any
\* number of builds, releases and pilots beside it and any number of edits and
\* mishaps (createRelease, buildViteTarget, buildServer).
THEOREM SealedReleases == Spec => []SealedIsOfItsCommit
<1>1. WorkInv => SealedIsOfItsCommit
  BY DEF WorkInv, JobOK, SealedWell, SealedIsOfItsCommit, ClientOf, BundleOf
<1> QED
  BY <1>1, WorkInvHolds, PTL

\* What a pilot serves is its own launcher's, and of the commit it reports
\* (runScreenPilotLauncher, assertScreenPilotCapability).
THEOREM ServedPilots == Spec => []PilotIsOfItsLauncher
<1>1. WorkInv => PilotIsOfItsLauncher
  BY DEF WorkInv, JobOK, ServedWell, PilotIsOfItsLauncher
<1> QED
  BY <1>1, WorkInvHolds, PTL

\* Nobody else changes an output while a release has the lock.
THEOREM ReleasesUndisturbed == Spec => ReleaseIsUndisturbed
<1>1. WorkInv /\ [Next]_vars =>
        [\A p \in Jobs :
           Kind[p] = "release" /\ Owns(p) /\ file.written /\ output' # output =>
             todo'[p] # todo[p]]_vars
  <2> SUFFICES ASSUME WorkInv, Next, NEW p \in Jobs, Owns(p), output' # output
               PROVE  todo'[p] # todo[p]
    OBVIOUS
  <2>1. Typed /\ \A q \in Jobs : InPlace(q)
    BY DEF WorkInv, JobOK
  <2>2. PICK q \in Jobs : Proceeds(q)
    BY DEF Next, Proceeds, RemoveStale, Edit, Commit, Restore, Finished, vars
  <2>3. q = p
    BY <2>1, <2>2, OneToucher, OneOwner
  <2>4. todo[p] \in Seq(Work) /\ todo[p] # <<>> /\ Head(todo[p])[1] # "unlock"
    BY <2>1, <2>2, <2>3, OutputMoves DEF Clean, Write, Doing, Typed
  <2>5. CASE todo'[p] = Tail(todo[p])
    <3>1. Len(Tail(todo[p])) = Len(todo[p]) - 1 /\ Len(todo[p]) \in Nat
      BY <2>4
    <3>2. Len(Tail(todo[p])) # Len(todo[p])
      BY <3>1
    <3> QED
      BY <2>5, <3>2
  <2>6. CASE todo'[p] = <<>> \/ todo'[p] = <<<<"unlock", "own">>>>
    <3>1. Head(<<<<"unlock", "own">>>>)[1] = "unlock"
      OBVIOUS
    <3> QED
      BY <2>4, <2>6, <3>1
  <2>7. todo'[p] = Tail(todo[p]) \/ Fail(p)
    BY <2>1, <2>2, <2>3, OutputMoves DEF Clean, Write, Failure, Then, Typed
  <2> QED
    BY <2>1, <2>5, <2>6, <2>7, Fails
<1> QED
  BY <1>1, WorkInvHolds, PTL DEF Spec, ReleaseIsUndisturbed

Bounded == edits \in 0 .. MaxEdits /\ mishaps \in 0 .. MaxMishaps

LEMMA BoundedKept == Bounded /\ [Next]_vars => Bounded'
<1> SUFFICES ASSUME Bounded, [Next]_vars PROVE Bounded'
  OBVIOUS
<1>1. edits' = edits \/ (edits < MaxEdits /\ edits' = edits + 1)
  BY DEF Next, Step, Failure, Crash, Lock, Fill, Join, Unlock, Clean, Embed, Write, Record, Again,
         Read, Seal, Load, Check, Serve, RemoveStale, Edit, Commit, Restore, Finished, vars, sources
<1>2. mishaps' = mishaps \/ Mishap
  BY DEF Next, Step, Failure, Crash, Lock, Fill, Join, Unlock, Clean, Embed, Write, Record, Again,
         Read, Seal, Load, Check, Serve, RemoveStale, Edit, Commit, Restore, Finished, vars
<1> QED
  BY <1>1, <1>2, BoundAssumption DEF Bounded, Mishap

\* The types, for any number of jobs: what remains to a job are steps of its
\* programs, whatever failed or died, and the lock file is a job's.
THEOREM WorkTypes == Spec => []TypeOK
<1>1. Init => Bounded
  BY BoundAssumption DEF Init, Bounded
<1>2. WorkInv /\ Bounded => TypeOK
  <2> SUFFICES ASSUME WorkInv, Bounded PROVE TypeOK
    OBVIOUS
  <2>1. {tree, head, edits} \subseteq 0 .. MaxEdits
    BY BoundAssumption DEF WorkInv, Typed, Bounded
  <2>2. ASSUME NEW p \in Jobs
        PROVE  todo[p] \in Seq(Ops \X (Outputs \union {"own", "lent", "head", "copy"}))
    <3> DEFINE T == Ops \X (Outputs \union {"own", "lent", "head", "copy"})
    <3>1. Work \subseteq T
      BY DEF Work, Ops, Outputs
    <3>2. todo[p] \in Seq(Work)
      BY DEF WorkInv, Typed
    <3> HIDE DEF T
    <3>3. todo[p] \in Seq(T)
      BY <3>1, <3>2
    <3> QED
      BY <3>3 DEF T
  <2>3. DOMAIN output = Outputs
    BY DEF WorkInv, Typed
  <2> QED
    BY <2>1, <2>2, <2>3 DEF WorkInv, Typed, Bounded, TypeOK
<1> QED
  BY <1>1, <1>2, WorkAtFirst, WorkKept, BoundedKept, PTL DEF Spec
=============================================================================
