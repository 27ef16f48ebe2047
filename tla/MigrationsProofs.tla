------------------------- MODULE MigrationsProofs -------------------------
(***************************************************************************)
(* Proofs about Migrations: what the stamp tells of the schema, and which    *)
(* cut runs a later one stumbles over, for any number of runners and runs.   *)
(***************************************************************************)
EXTENDS Migrations, TLAPS

-----------------------------------------------------------------------------
(* The revisions, read as one table                                        *)

Ways == {"up", "down"}
Revisions == 7..10
Script(way, rev) == IF way = "up" THEN Upgrade[rev] ELSE Downgrade[rev]
KindAt(way, rev, i) == Script(way, rev)[i].kind
ObjectAt(way, rev, i) == Script(way, rev)[i].object

\* Where a script commits in between; the downgrade of 010 does not.
Middle(way, rev) ==
  IF way = "up" THEN IF rev = 7 THEN 5 ELSE 2 ELSE IF rev = 8 THEN 1 ELSE 2

\* The stamp before and after it.
Before(way, rev) == IF way = "up" THEN rev - 1 ELSE rev
After(way, rev) == IF way = "up" THEN rev ELSE rev - 1

Owns(rev) == Makes(rev) \cup Removes(rev)
Arriving(way, rev) == IF way = "up" THEN Makes(rev) ELSE Removes(rev)
Leaving(way, rev) == IF way = "up" THEN Removes(rev) ELSE Makes(rev)
Objects == UNION {Owns(rev) : rev \in Revisions}

\* The indexes built concurrently, outside any transaction.
Indexes == {"lookup_indexes", "ux_calls_session_dial_sid", "ix_call_sessions_campaign_created",
            "ix_call_sessions_campaign_id", "ix_users_email_lower"}

\* The scripts whose first part makes something that cannot be made twice, and
\* where the first of it is made.
Early == {<<"up", 7>>, <<"up", 10>>, <<"down", 9>>}
First(way, rev) == IF way = "up" /\ rev = 7 THEN 2 ELSE 1

Makers == {"create", "build"}
Takers == {"drop", "unbuild"}
Changes == Makers \cup Takers

\* What the proofs need of a script.  Its statements come in an order: it commits
\* where Middle says; the indexes are built and dropped in its second part, and
\* everything else in the first part of an early script, in the second of any other.
Steps(way, rev) == 1..Len(Script(way, rev))
Timed(way, rev) ==
  \A i \in Steps(way, rev) :
    /\ KindAt(way, rev, i) = "commit" <=> i = Middle(way, rev)
    /\ KindAt(way, rev, i) \in Makers => ObjectAt(way, rev, i) \in Arriving(way, rev)
    /\ KindAt(way, rev, i) \in Takers => ObjectAt(way, rev, i) \in Leaving(way, rev)
    /\ KindAt(way, rev, i) \in {"build", "unbuild"} =>
         i > Middle(way, rev) /\ ObjectAt(way, rev, i) \in Indexes
    /\ KindAt(way, rev, i) \in {"create", "drop"} =>
         /\ ObjectAt(way, rev, i) \notin Indexes
         /\ <<way, rev>> \in Early => i < Middle(way, rev)
         /\ i < Middle(way, rev) => <<way, rev>> \in Early \cup {<<"down", 10>>}
    /\ KindAt(way, rev, i) = "dedupe" => i < Middle(way, rev)

\* It has one statement for each object of its revision.
Alone(way, rev) ==
  \A i, j \in Steps(way, rev) :
    /\ KindAt(way, rev, i) \in Changes /\ KindAt(way, rev, j) \in Changes
    /\ ObjectAt(way, rev, i) = ObjectAt(way, rev, j)
    => i = j
Complete(way, rev) ==
  \A o \in Owns(rev) : \E i \in Steps(way, rev) :
    KindAt(way, rev, i) \in Changes /\ ObjectAt(way, rev, i) = o

WellMade(way, rev) ==
  /\ Len(Script(way, rev)) \in Nat
  /\ Middle(way, rev) \in 1..(Len(Script(way, rev)) + 1)
  /\ Timed(way, rev) /\ Alone(way, rev) /\ Complete(way, rev)
  /\ <<way, rev>> \in Early =>
       /\ First(way, rev) < Middle(way, rev) /\ First(way, rev) \in Steps(way, rev)
       /\ KindAt(way, rev, First(way, rev)) = "create"

\* The eight scripts by name, and the upgrades as Makes and Removes read them.
LEMMA Scripts ==
  /\ Script("up", 7) = Up007 /\ Script("up", 8) = Up008
  /\ Script("up", 9) = Up009 /\ Script("up", 10) = Up010
  /\ Script("down", 7) = Down007 /\ Script("down", 8) = Down008
  /\ Script("down", 9) = Down009 /\ Script("down", 10) = Down010
BY DEF Script, Upgrade, Downgrade

LEMMA Upgrades ==
  /\ Upgrade[7] = Up007 /\ Upgrade[8] = Up008 /\ Upgrade[9] = Up009 /\ Upgrade[10] = Up010
BY DEF Upgrade

Reads(way, rev, i, kind, object) == KindAt(way, rev, i) = kind /\ ObjectAt(way, rev, i) = object

LEMMA ReadsIf ==
  ASSUME NEW way, NEW rev, NEW i, NEW kind, NEW object,
         Script(way, rev)[i] = Do(kind, object)
  PROVE  Reads(way, rev, i, kind, object)
<1>1. Do(kind, object).kind = kind /\ Do(kind, object).object = object
  BY DEF Do
<1> QED
  BY <1>1 DEF Reads, KindAt, ObjectAt

LEMMA CommitIs == Commit.kind = "commit"
BY Zenon DEF Commit, Do

\* The statements of each script, one by one.
LEMMA ReadsUp7 ==
  /\ Len(Script("up", 7)) = 6 /\ Steps("up", 7) = 1..6
  /\ DOMAIN Upgrade[7] = 1..6
  /\ Reads("up", 7, 1, "dedupe", "versions")
  /\ Reads("up", 7, 2, "create", "slot_rules")
  /\ Reads("up", 7, 3, "drop", "campaigns_name_key")
  /\ Reads("up", 7, 4, "create", "ux_campaigns_name_active")
  /\ KindAt("up", 7, 5) = "commit"
  /\ Reads("up", 7, 6, "build", "lookup_indexes")
<1>1. Len(Up007) = 6 /\ DOMAIN Up007 = 1..6
  BY DEF Up007
<1>2. /\ Up007[1] = Do("dedupe", "versions")
      /\ Up007[2] = Do("create", "slot_rules")
      /\ Up007[3] = Do("drop", "campaigns_name_key")
      /\ Up007[4] = Do("create", "ux_campaigns_name_active")
      /\ Up007[5] = Commit
      /\ Up007[6] = Do("build", "lookup_indexes")
  BY DEF Up007
<1>3. Len(Script("up", 7)) = 6 /\ Steps("up", 7) = 1..6
  BY <1>1, Scripts DEF Steps
<1> QED
  BY <1>1, <1>2, <1>3, Scripts, Upgrades, ReadsIf, CommitIs DEF KindAt

LEMMA ReadsUp8 ==
  /\ Len(Script("up", 8)) = 5 /\ Steps("up", 8) = 1..5
  /\ DOMAIN Upgrade[8] = 1..5
  /\ Reads("up", 8, 1, "dedupe", "legs")
  /\ KindAt("up", 8, 2) = "commit"
  /\ Reads("up", 8, 3, "build", "ux_calls_session_dial_sid")
  /\ Reads("up", 8, 4, "build", "ix_call_sessions_campaign_created")
  /\ Reads("up", 8, 5, "unbuild", "ix_call_sessions_campaign_id")
<1>1. Len(Up008) = 5 /\ DOMAIN Up008 = 1..5
  BY DEF Up008
<1>2. /\ Up008[1] = Do("dedupe", "legs")
      /\ Up008[2] = Commit
      /\ Up008[3] = Do("build", "ux_calls_session_dial_sid")
      /\ Up008[4] = Do("build", "ix_call_sessions_campaign_created")
      /\ Up008[5] = Do("unbuild", "ix_call_sessions_campaign_id")
  BY DEF Up008
<1>3. Len(Script("up", 8)) = 5 /\ Steps("up", 8) = 1..5
  BY <1>1, Scripts DEF Steps
<1> QED
  BY <1>1, <1>2, <1>3, Scripts, Upgrades, ReadsIf, CommitIs DEF KindAt

LEMMA ReadsUp9 ==
  /\ Len(Script("up", 9)) = 4 /\ Steps("up", 9) = 1..4
  /\ DOMAIN Upgrade[9] = 1..4
  /\ Reads("up", 9, 1, "check", "emails")
  /\ KindAt("up", 9, 2) = "commit"
  /\ Reads("up", 9, 3, "build", "ix_users_email_lower")
  /\ Reads("up", 9, 4, "drop", "unused_columns")
<1>1. Len(Up009) = 4 /\ DOMAIN Up009 = 1..4
  BY DEF Up009
<1>2. /\ Up009[1] = Do("check", "emails")
      /\ Up009[2] = Commit
      /\ Up009[3] = Do("build", "ix_users_email_lower")
      /\ Up009[4] = Do("drop", "unused_columns")
  BY DEF Up009
<1>3. Len(Script("up", 9)) = 4 /\ Steps("up", 9) = 1..4
  BY <1>1, Scripts DEF Steps
<1> QED
  BY <1>1, <1>2, <1>3, Scripts, Upgrades, ReadsIf, CommitIs DEF KindAt

LEMMA ReadsUp10 ==
  /\ Len(Script("up", 10)) = 3 /\ Steps("up", 10) = 1..3
  /\ DOMAIN Upgrade[10] = 1..3
  /\ Reads("up", 10, 1, "create", "sessions_valid_from")
  /\ KindAt("up", 10, 2) = "commit"
  /\ Reads("up", 10, 3, "ensure", "skipped")
<1>1. Len(Up010) = 3 /\ DOMAIN Up010 = 1..3
  BY DEF Up010
<1>2. /\ Up010[1] = Do("create", "sessions_valid_from")
      /\ Up010[2] = Commit
      /\ Up010[3] = Do("ensure", "skipped")
  BY DEF Up010
<1>3. Len(Script("up", 10)) = 3 /\ Steps("up", 10) = 1..3
  BY <1>1, Scripts DEF Steps
<1> QED
  BY <1>1, <1>2, <1>3, Scripts, Upgrades, ReadsIf, CommitIs DEF KindAt

LEMMA ReadsDown7 ==
  /\ Len(Script("down", 7)) = 6 /\ Steps("down", 7) = 1..6
  /\ Reads("down", 7, 1, "check", "names")
  /\ KindAt("down", 7, 2) = "commit"
  /\ Reads("down", 7, 3, "unbuild", "lookup_indexes")
  /\ Reads("down", 7, 4, "drop", "ux_campaigns_name_active")
  /\ Reads("down", 7, 5, "create", "campaigns_name_key")
  /\ Reads("down", 7, 6, "drop", "slot_rules")
<1>1. Len(Down007) = 6 /\ DOMAIN Down007 = 1..6
  BY DEF Down007
<1>2. /\ Down007[1] = Do("check", "names")
      /\ Down007[2] = Commit
      /\ Down007[3] = Do("unbuild", "lookup_indexes")
      /\ Down007[4] = Do("drop", "ux_campaigns_name_active")
      /\ Down007[5] = Do("create", "campaigns_name_key")
      /\ Down007[6] = Do("drop", "slot_rules")
  BY DEF Down007
<1>3. Len(Script("down", 7)) = 6 /\ Steps("down", 7) = 1..6
  BY <1>1, Scripts DEF Steps
<1> QED
  BY <1>1, <1>2, <1>3, Scripts, Upgrades, ReadsIf, CommitIs DEF KindAt

LEMMA ReadsDown8 ==
  /\ Len(Script("down", 8)) = 4 /\ Steps("down", 8) = 1..4
  /\ KindAt("down", 8, 1) = "commit"
  /\ Reads("down", 8, 2, "build", "ix_call_sessions_campaign_id")
  /\ Reads("down", 8, 3, "unbuild", "ix_call_sessions_campaign_created")
  /\ Reads("down", 8, 4, "unbuild", "ux_calls_session_dial_sid")
<1>1. Len(Down008) = 4 /\ DOMAIN Down008 = 1..4
  BY DEF Down008
<1>2. /\ Down008[1] = Commit
      /\ Down008[2] = Do("build", "ix_call_sessions_campaign_id")
      /\ Down008[3] = Do("unbuild", "ix_call_sessions_campaign_created")
      /\ Down008[4] = Do("unbuild", "ux_calls_session_dial_sid")
  BY DEF Down008
<1>3. Len(Script("down", 8)) = 4 /\ Steps("down", 8) = 1..4
  BY <1>1, Scripts DEF Steps
<1> QED
  BY <1>1, <1>2, <1>3, Scripts, Upgrades, ReadsIf, CommitIs DEF KindAt

LEMMA ReadsDown9 ==
  /\ Len(Script("down", 9)) = 3 /\ Steps("down", 9) = 1..3
  /\ Reads("down", 9, 1, "create", "unused_columns")
  /\ KindAt("down", 9, 2) = "commit"
  /\ Reads("down", 9, 3, "unbuild", "ix_users_email_lower")
<1>1. Len(Down009) = 3 /\ DOMAIN Down009 = 1..3
  BY DEF Down009
<1>2. /\ Down009[1] = Do("create", "unused_columns")
      /\ Down009[2] = Commit
      /\ Down009[3] = Do("unbuild", "ix_users_email_lower")
  BY DEF Down009
<1>3. Len(Script("down", 9)) = 3 /\ Steps("down", 9) = 1..3
  BY <1>1, Scripts DEF Steps
<1> QED
  BY <1>1, <1>2, <1>3, Scripts, Upgrades, ReadsIf, CommitIs DEF KindAt

LEMMA ReadsDown10 ==
  /\ Len(Script("down", 10)) = 1 /\ Steps("down", 10) = 1..1
  /\ Reads("down", 10, 1, "drop", "sessions_valid_from")
<1>1. Len(Down010) = 1 /\ DOMAIN Down010 = 1..1
  BY DEF Down010
<1>2. /\ Down010[1] = Do("drop", "sessions_valid_from")
  BY DEF Down010
<1>3. Len(Script("down", 10)) = 1 /\ Steps("down", 10) = 1..1
  BY <1>1, Scripts DEF Steps
<1> QED
  BY <1>1, <1>2, <1>3, Scripts, Upgrades, ReadsIf, CommitIs DEF KindAt

\* Where each script commits.
LEMMA Commits ==
  \A way \in Ways, rev \in Revisions :
    <<way, rev>> # <<"down", 10>> => Script(way, rev)[Middle(way, rev)] = Commit
<1> Revisions = {7, 8, 9, 10}
  BY DEF Revisions
<1>1. Script("up", 7)[Middle("up", 7)] = Commit
  BY Scripts DEF Middle, Up007
<1>2. Script("up", 8)[Middle("up", 8)] = Commit
  BY Scripts DEF Middle, Up008
<1>3. Script("up", 9)[Middle("up", 9)] = Commit
  BY Scripts DEF Middle, Up009
<1>4. Script("up", 10)[Middle("up", 10)] = Commit
  BY Scripts DEF Middle, Up010
<1>5. Script("down", 7)[Middle("down", 7)] = Commit
  BY Scripts DEF Middle, Down007
<1>6. Script("down", 8)[Middle("down", 8)] = Commit
  BY Scripts DEF Middle, Down008
<1>7. Script("down", 9)[Middle("down", 9)] = Commit
  BY Scripts DEF Middle, Down009
<1> QED
  BY <1>1, <1>2, <1>3, <1>4, <1>5, <1>6, <1>7 DEF Ways

\* Makes and Removes, in the words of the table.
LEMMA MadeBy ==
  ASSUME NEW rev \in Revisions, NEW o
  PROVE  /\ o \in Makes(rev) <=> \E i \in DOMAIN Upgrade[rev] :
              KindAt("up", rev, i) \in Makers /\ ObjectAt("up", rev, i) = o
         /\ o \in Removes(rev) <=> \E i \in DOMAIN Upgrade[rev] :
              KindAt("up", rev, i) \in Takers /\ ObjectAt("up", rev, i) = o
BY DEF Makes, Removes, KindAt, ObjectAt, Script, Makers, Takers

\* What each revision makes and removes.
LEMMA Made ==
  /\ Makes(7) = {"slot_rules", "ux_campaigns_name_active", "lookup_indexes"}
  /\ Removes(7) = {"campaigns_name_key"}
  /\ Makes(8) = {"ux_calls_session_dial_sid", "ix_call_sessions_campaign_created"}
  /\ Removes(8) = {"ix_call_sessions_campaign_id"}
  /\ Makes(9) = {"ix_users_email_lower"}
  /\ Removes(9) = {"unused_columns"}
  /\ Makes(10) = {"sessions_valid_from"}
  /\ Removes(10) = {}
<1> Revisions = {7, 8, 9, 10}
  BY DEF Revisions
<1>1. ASSUME NEW o
      PROVE  /\ o \in Makes(7) <=> o \in {"slot_rules", "ux_campaigns_name_active", "lookup_indexes"}
             /\ o \in Removes(7) <=> o \in {"campaigns_name_key"}
  <2>1. \A i \in 1..6 : i = 1 \/ i = 2 \/ i = 3 \/ i = 4 \/ i = 5 \/ i = 6
    OBVIOUS
  <2> QED
    BY <2>1, MadeBy, ReadsUp7 DEF Reads, Makers, Takers
<1>2. ASSUME NEW o
      PROVE  /\ o \in Makes(8) <=> o \in {"ux_calls_session_dial_sid", "ix_call_sessions_campaign_created"}
             /\ o \in Removes(8) <=> o \in {"ix_call_sessions_campaign_id"}
  <2>1. \A i \in 1..5 : i = 1 \/ i = 2 \/ i = 3 \/ i = 4 \/ i = 5
    OBVIOUS
  <2> QED
    BY <2>1, MadeBy, ReadsUp8 DEF Reads, Makers, Takers
<1>3. ASSUME NEW o
      PROVE  /\ o \in Makes(9) <=> o \in {"ix_users_email_lower"}
             /\ o \in Removes(9) <=> o \in {"unused_columns"}
  <2>1. \A i \in 1..4 : i = 1 \/ i = 2 \/ i = 3 \/ i = 4
    OBVIOUS
  <2> QED
    BY <2>1, MadeBy, ReadsUp9 DEF Reads, Makers, Takers
<1>4. ASSUME NEW o
      PROVE  /\ o \in Makes(10) <=> o \in {"sessions_valid_from"}
             /\ o \in Removes(10) <=> o \in {}
  <2>1. \A i \in 1..3 : i = 1 \/ i = 2 \/ i = 3
    OBVIOUS
  <2> QED
    BY <2>1, MadeBy, ReadsUp10 DEF Reads, Makers, Takers
<1> QED
  BY <1>1, <1>2, <1>3, <1>4

\* Every script is well made.
LEMMA WellMadeUp7 == WellMade("up", 7)
<1> USE ReadsUp7 DEF Reads
<1>1. \A i \in 1..6 : i = 1 \/ i = 2 \/ i = 3 \/ i = 4 \/ i = 5 \/ i = 6
  OBVIOUS
<1>2. /\ Middle("up", 7) = 5 /\ Arriving("up", 7) = Makes(7) /\ Leaving("up", 7) = Removes(7)
      /\ <<"up", 7>> \in Early /\ First("up", 7) = 2
  BY DEF Middle, Arriving, Leaving, Early, First
<1>3. Timed("up", 7)
  BY <1>1, <1>2, Made DEF Timed, Makers, Takers, Indexes
<1>4. Alone("up", 7)
  BY <1>1 DEF Alone, Changes, Makers, Takers
<1>5. Complete("up", 7)
  BY <1>1, Made DEF Complete, Changes, Makers, Takers, Owns
<1> QED
  BY <1>1, <1>2, <1>3, <1>4, <1>5 DEF WellMade

LEMMA WellMadeUp8 == WellMade("up", 8)
<1> USE ReadsUp8 DEF Reads
<1>1. \A i \in 1..5 : i = 1 \/ i = 2 \/ i = 3 \/ i = 4 \/ i = 5
  OBVIOUS
<1>2. /\ Middle("up", 8) = 2 /\ Arriving("up", 8) = Makes(8) /\ Leaving("up", 8) = Removes(8)
      /\ <<"up", 8>> \notin Early \cup {<<"down", 10>>}
  BY DEF Middle, Arriving, Leaving, Early, First
<1>3. Timed("up", 8)
  BY <1>1, <1>2, Made DEF Timed, Makers, Takers, Indexes
<1>4. Alone("up", 8)
  BY <1>1 DEF Alone, Changes, Makers, Takers
<1>5. Complete("up", 8)
  BY <1>1, Made DEF Complete, Changes, Makers, Takers, Owns
<1> QED
  BY <1>1, <1>2, <1>3, <1>4, <1>5 DEF WellMade

LEMMA WellMadeUp9 == WellMade("up", 9)
<1> USE ReadsUp9 DEF Reads
<1>1. \A i \in 1..4 : i = 1 \/ i = 2 \/ i = 3 \/ i = 4
  OBVIOUS
<1>2. /\ Middle("up", 9) = 2 /\ Arriving("up", 9) = Makes(9) /\ Leaving("up", 9) = Removes(9)
      /\ <<"up", 9>> \notin Early \cup {<<"down", 10>>}
  BY DEF Middle, Arriving, Leaving, Early, First
<1>3. Timed("up", 9)
  BY <1>1, <1>2, Made DEF Timed, Makers, Takers, Indexes
<1>4. Alone("up", 9)
  BY <1>1 DEF Alone, Changes, Makers, Takers
<1>5. Complete("up", 9)
  BY <1>1, Made DEF Complete, Changes, Makers, Takers, Owns
<1> QED
  BY <1>1, <1>2, <1>3, <1>4, <1>5 DEF WellMade

LEMMA WellMadeUp10 == WellMade("up", 10)
<1> USE ReadsUp10 DEF Reads
<1>1. \A i \in 1..3 : i = 1 \/ i = 2 \/ i = 3
  OBVIOUS
<1>2. /\ Middle("up", 10) = 2 /\ Arriving("up", 10) = Makes(10) /\ Leaving("up", 10) = Removes(10)
      /\ <<"up", 10>> \in Early /\ First("up", 10) = 1
  BY DEF Middle, Arriving, Leaving, Early, First
<1>3. Timed("up", 10)
  BY <1>1, <1>2, Made DEF Timed, Makers, Takers, Indexes
<1>4. Alone("up", 10)
  BY <1>1 DEF Alone, Changes, Makers, Takers
<1>5. Complete("up", 10)
  BY <1>1, Made DEF Complete, Changes, Makers, Takers, Owns
<1> QED
  BY <1>1, <1>2, <1>3, <1>4, <1>5 DEF WellMade

LEMMA WellMadeDown7 == WellMade("down", 7)
<1> USE ReadsDown7 DEF Reads
<1>1. \A i \in 1..6 : i = 1 \/ i = 2 \/ i = 3 \/ i = 4 \/ i = 5 \/ i = 6
  OBVIOUS
<1>2. /\ Middle("down", 7) = 2 /\ Arriving("down", 7) = Removes(7) /\ Leaving("down", 7) = Makes(7)
      /\ <<"down", 7>> \notin Early \cup {<<"down", 10>>}
  BY DEF Middle, Arriving, Leaving, Early, First
<1>3. Timed("down", 7)
  BY <1>1, <1>2, Made DEF Timed, Makers, Takers, Indexes
<1>4. Alone("down", 7)
  BY <1>1 DEF Alone, Changes, Makers, Takers
<1>5. Complete("down", 7)
  BY <1>1, Made DEF Complete, Changes, Makers, Takers, Owns
<1> QED
  BY <1>1, <1>2, <1>3, <1>4, <1>5 DEF WellMade

LEMMA WellMadeDown8 == WellMade("down", 8)
<1> USE ReadsDown8 DEF Reads
<1>1. \A i \in 1..4 : i = 1 \/ i = 2 \/ i = 3 \/ i = 4
  OBVIOUS
<1>2. /\ Middle("down", 8) = 1 /\ Arriving("down", 8) = Removes(8) /\ Leaving("down", 8) = Makes(8)
      /\ <<"down", 8>> \notin Early \cup {<<"down", 10>>}
  BY DEF Middle, Arriving, Leaving, Early, First
<1>3. Timed("down", 8)
  BY <1>1, <1>2, Made DEF Timed, Makers, Takers, Indexes
<1>4. Alone("down", 8)
  BY <1>1 DEF Alone, Changes, Makers, Takers
<1>5. Complete("down", 8)
  BY <1>1, Made DEF Complete, Changes, Makers, Takers, Owns
<1> QED
  BY <1>1, <1>2, <1>3, <1>4, <1>5 DEF WellMade

LEMMA WellMadeDown9 == WellMade("down", 9)
<1> USE ReadsDown9 DEF Reads
<1>1. \A i \in 1..3 : i = 1 \/ i = 2 \/ i = 3
  OBVIOUS
<1>2. /\ Middle("down", 9) = 2 /\ Arriving("down", 9) = Removes(9) /\ Leaving("down", 9) = Makes(9)
      /\ <<"down", 9>> \in Early /\ First("down", 9) = 1
  BY DEF Middle, Arriving, Leaving, Early, First
<1>3. Timed("down", 9)
  BY <1>1, <1>2, Made DEF Timed, Makers, Takers, Indexes
<1>4. Alone("down", 9)
  BY <1>1 DEF Alone, Changes, Makers, Takers
<1>5. Complete("down", 9)
  BY <1>1, Made DEF Complete, Changes, Makers, Takers, Owns
<1> QED
  BY <1>1, <1>2, <1>3, <1>4, <1>5 DEF WellMade

LEMMA WellMadeDown10 == WellMade("down", 10)
<1> USE ReadsDown10 DEF Reads
<1>1. \A i \in 1..1 : i = 1
  OBVIOUS
<1>2. /\ Middle("down", 10) = 2 /\ Arriving("down", 10) = Removes(10) /\ Leaving("down", 10) = Makes(10)
      /\ <<"down", 10>> \notin Early
  BY DEF Middle, Arriving, Leaving, Early, First
<1>3. Timed("down", 10)
  BY <1>1, <1>2, Made DEF Timed, Makers, Takers, Indexes
<1>4. Alone("down", 10)
  BY <1>1 DEF Alone, Changes, Makers, Takers
<1>5. Complete("down", 10)
  BY <1>1, Made DEF Complete, Changes, Makers, Takers, Owns
<1> QED
  BY <1>1, <1>2, <1>3, <1>4, <1>5 DEF WellMade

LEMMA ScriptsWellMade == \A way \in Ways, rev \in Revisions : WellMade(way, rev)
<1> Revisions = {7, 8, 9, 10}
  BY DEF Revisions
<1> QED
  BY WellMadeUp7, WellMadeUp8, WellMadeUp9, WellMadeUp10,
     WellMadeDown7, WellMadeDown8, WellMadeDown9, WellMadeDown10 DEF Ways

\* An object belongs to one revision.
LEMMA OneOwner ==
  ASSUME NEW v \in Revisions, NEW w \in Revisions, NEW o \in Owns(v), o \in Owns(w)
  PROVE  v = w /\ ~(o \in Makes(v) /\ o \in Removes(v))
<1> Revisions = {7, 8, 9, 10}
  BY DEF Revisions
<1> QED
  BY Made DEF Owns

\* The schema of a stamp, object by object.
LEMMA SchemaIs ==
  ASSUME NEW s \in 6..10, NEW rev \in Revisions, NEW o \in Owns(rev)
  PROVE  o \in SchemaAt(s) <=> (o \in Makes(rev) <=> rev <= s)
<1>1. 6..10 = {6, 7, 8, 9, 10} /\ Revisions = {7, 8, 9, 10}
  BY DEF Revisions
<1>2. o \in Schema006 <=> o \in Removes(rev)
  BY <1>1, Made DEF Owns, Schema006
<1>3. o \in UNION {Makes(r) : r \in 7..s} <=> (o \in Makes(rev) /\ rev <= s)
  <2>1. \A r \in 7..s : r \in Revisions /\ r <= s
    BY DEF Revisions
  <2>2. rev <= s => rev \in 7..s
    BY DEF Revisions
  <2> QED
    BY <2>1, <2>2, OneOwner DEF Owns
<1>4. o \in UNION {Removes(r) : r \in 7..s} <=> (o \in Removes(rev) /\ rev <= s)
  <2>1. \A r \in 7..s : r \in Revisions /\ r <= s
    BY DEF Revisions
  <2>2. rev <= s => rev \in 7..s
    BY DEF Revisions
  <2> QED
    BY <2>1, <2>2, OneOwner DEF Owns
<1> QED
  BY <1>2, <1>3, <1>4, OneOwner DEF SchemaAt, Owns

\* Every object belongs to a revision.
LEMMA SchemaOwned == \A s \in 6..10 : SchemaAt(s) \subseteq Objects
<1>1. \A r \in 7..10 : Makes(r) \subseteq Objects
  BY DEF Objects, Owns, Revisions
<1>2. Schema006 \subseteq Objects
  <2>1. Removes(7) \cup Removes(8) \cup Removes(9) \subseteq Objects
    BY DEF Objects, Owns, Revisions
  <2> QED
    BY <2>1, Made DEF Schema006
<1>3. \A s \in 6..10 : UNION {Makes(r) : r \in 7..s} \subseteq Objects
  BY <1>1
<1> QED
  BY <1>2, <1>3 DEF SchemaAt

\* What a script brings and takes away is the difference between two stamps.
LEMMA Stamps ==
  ASSUME NEW way \in Ways, NEW rev \in Revisions
  PROVE  /\ Before(way, rev) \in 6..10 /\ After(way, rev) \in 6..10
         /\ \A o \in Arriving(way, rev) :
              o \in Owns(rev) /\ o \in SchemaAt(After(way, rev)) /\ o \notin SchemaAt(Before(way, rev))
         /\ \A o \in Leaving(way, rev) :
              o \in Owns(rev) /\ o \notin SchemaAt(After(way, rev)) /\ o \in SchemaAt(Before(way, rev))
         /\ \A v \in Revisions : \A o \in Owns(v) :
              v # rev => (o \in SchemaAt(After(way, rev)) <=> o \in SchemaAt(Before(way, rev)))
<1>1. Before(way, rev) \in 6..10 /\ After(way, rev) \in 6..10
  BY DEF Before, After, Revisions, Ways
<1>2. \A o \in Owns(rev) : ~(o \in Makes(rev) /\ o \in Removes(rev))
  BY OneOwner
<1>3. \A o \in Owns(rev) : /\ o \in SchemaAt(After(way, rev)) <=> (o \in Makes(rev) <=> rev <= After(way, rev))
                           /\ o \in SchemaAt(Before(way, rev)) <=> (o \in Makes(rev) <=> rev <= Before(way, rev))
  BY <1>1, SchemaIs
<1>4. ASSUME NEW v \in Revisions, NEW o \in Owns(v), v # rev
      PROVE  o \in SchemaAt(After(way, rev)) <=> o \in SchemaAt(Before(way, rev))
  <2>1. /\ o \in SchemaAt(After(way, rev)) <=> (o \in Makes(v) <=> v <= After(way, rev))
        /\ o \in SchemaAt(Before(way, rev)) <=> (o \in Makes(v) <=> v <= Before(way, rev))
    BY <1>1, SchemaIs
  <2>2. v <= After(way, rev) <=> v <= Before(way, rev)
    BY <1>4 DEF After, Before, Revisions, Ways
  <2> QED
    BY <2>1, <2>2
<1>5. /\ way = "up" => After(way, rev) = rev /\ Before(way, rev) = rev - 1
      /\ way = "down" => After(way, rev) = rev - 1 /\ Before(way, rev) = rev
  BY DEF After, Before
<1>6. \A o \in Arriving(way, rev) :
        o \in Owns(rev) /\ o \in SchemaAt(After(way, rev)) /\ o \notin SchemaAt(Before(way, rev))
  BY <1>2, <1>3, <1>5 DEF Arriving, Owns, Ways, Revisions
<1>7. \A o \in Leaving(way, rev) :
        o \in Owns(rev) /\ o \notin SchemaAt(After(way, rev)) /\ o \in SchemaAt(Before(way, rev))
  BY <1>2, <1>3, <1>5 DEF Leaving, Owns, Ways, Revisions
<1> QED
  BY <1>1, <1>4, <1>6, <1>7

-----------------------------------------------------------------------------
(* The inductive invariant                                                 *)

Job == [pc : {"idle", "queued", "running"}, way : Ways, rev : Revisions, next : Nat \ {0}]

\* What each variable holds.  An invalid index is there, and is an index.
ShapeOK ==
  /\ schema \subseteq Objects /\ view \subseteq Objects
  /\ invalid \subseteq schema \cap Indexes
  /\ stamp \in 6..10
  /\ lock \in Runners \cup {Nobody}
  /\ run \in [Runners -> Job]
  /\ cut \subseteq Ways \X Revisions
  /\ stuck \in BOOLEAN

\* The holder of the lock runs, alone, the script its stamp asks for.
Turns ==
  \A r \in Runners :
    /\ run[r].pc = "running" <=> lock = r
    /\ run[r].pc # "running" => run[r].next = 1
    /\ run[r].pc = "running" =>
         /\ run[r].next <= Len(Script(run[r].way, run[r].rev)) + 1
         /\ stamp = Before(run[r].way, run[r].rev)

\* A script cut between its commits has not been stamped since.
Unstamped ==
  \A rev \in Revisions :
    /\ <<"up", rev>> \in cut => stamp < rev
    /\ <<"down", rev>> \in cut => stamp >= rev

\* A script is half-way when it was cut there, or runs and is past its first commit.
HalfWay(way, rev) ==
  \/ <<way, rev>> \in cut
  \/ \E r \in Runners : /\ run[r].pc = "running" /\ run[r].way = way /\ run[r].rev = rev
                        /\ run[r].next > Middle(way, rev)

\* An object is as the stamp says unless a script of its revision is half-way and
\* has, or may have, touched it: an index in the second part, anything else that
\* an early script makes or drops in the first.
Right(o) == (o \in schema <=> o \in SchemaAt(stamp)) /\ o \notin invalid
Untouched(rev, o) ==
  \A way \in Ways : HalfWay(way, rev) => o \notin Indexes /\ <<way, rev>> \notin Early
Settled == \A rev \in Revisions : \A o \in Owns(rev) : Untouched(rev, o) => Right(o)

\* What the open transaction sees: of its script's objects, those whose statements
\* were made are as the next stamp asks, the others as committed; so is the rest.
\* Indexes are committed as they are built, and the first part when it ends.
Reflected(way, rev, next, i) ==
  KindAt(way, rev, i) \in Changes =>
    IF i < next
    THEN /\ ObjectAt(way, rev, i) \in view <=> ObjectAt(way, rev, i) \in SchemaAt(After(way, rev))
         /\ ObjectAt(way, rev, i) \notin invalid
         /\ ObjectAt(way, rev, i) \in Indexes \/ (i < Middle(way, rev) /\ Middle(way, rev) < next) =>
              (ObjectAt(way, rev, i) \in schema <=> ObjectAt(way, rev, i) \in view)
    ELSE ObjectAt(way, rev, i) \in view <=> ObjectAt(way, rev, i) \in schema
Sees(way, rev, next) ==
  /\ \A i \in Steps(way, rev) : Reflected(way, rev, next, i)
  /\ \A o \in Objects \ Owns(rev) : o \in view <=> o \in schema
  /\ next > Middle(way, rev) => deduped = {}
Progress ==
  \A r \in Runners : run[r].pc = "running" => Sees(run[r].way, run[r].rev, run[r].next)

\* No row breaks a rule that a valid index or a constraint enforces, committed or
\* as the open transaction has it.
RulesHold ==
  /\ dups \cap Enforced(schema \ invalid) = {}
  /\ lock # Nobody => (dups \ deduped) \cap Enforced(view \ invalid) = {}

\* After an early script was cut, what it made first is there, and no run of it
\* gets past the statement that makes it.
Blocked ==
  \A way \in Ways, rev \in Revisions : <<way, rev>> \in Early \cap cut =>
    /\ ObjectAt(way, rev, First(way, rev)) \in schema
    /\ \A r \in Runners : run[r].pc = "running" /\ run[r].way = way /\ run[r].rev = rev =>
         run[r].next <= First(way, rev)

MigrationInv ==
  /\ ShapeOK /\ Turns /\ Unstamped /\ Settled /\ Progress /\ RulesHold
  /\ Blocked /\ OnlySomeGetStuck

-----------------------------------------------------------------------------
(* The moves of a run                                                      *)

\* A run is about to make statement `next` of a script.
Working(way, rev, next) == [pc |-> "running", way |-> way, rev |-> rev, next |-> next]
At(r, way, rev, next) == run[r] = Working(way, rev, next)

\* The fields of a run at work.
LEMMA WorkingIs ==
  ASSUME NEW way, NEW rev, NEW next
  PROVE  /\ Working(way, rev, next).pc = "running" /\ Working(way, rev, next).way = way
         /\ Working(way, rev, next).rev = rev /\ Working(way, rev, next).next = next
BY DEF Working

\* A run at work is at a statement of a script, or past the last.
LEMMA AtWork ==
  ASSUME ShapeOK, Turns, NEW r \in Runners, run[r].pc = "running"
  PROVE  \E way \in Ways, rev \in Revisions, next \in Nat \ {0} :
           /\ At(r, way, rev, next)
           /\ next <= Len(Script(way, rev)) + 1
           /\ Revision(r) = Script(way, rev)
<1>1. run[r] \in Job
  BY DEF ShapeOK
<1>2. PICK way \in Ways, rev \in Revisions, next \in Nat \ {0} :
        run[r] = [pc |-> "running", way |-> way, rev |-> rev, next |-> next]
  BY <1>1 DEF Job
<1>3. run[r].way = way /\ run[r].rev = rev /\ run[r].next = next
  BY <1>2
<1>4. Revision(r) = Script(way, rev)
  BY <1>3 DEF Revision, Script
<1>5. next <= Len(Script(way, rev)) + 1
  BY <1>3 DEF Turns
<1> QED
  BY <1>2, <1>4, <1>5 DEF At, Working

\* Nobody else is at work, and the stamp is the one the script starts from.
LEMMA WorksAlone ==
  ASSUME Turns, NEW r \in Runners, NEW way, NEW rev, NEW next, At(r, way, rev, next)
  PROVE  /\ lock = r /\ stamp = Before(way, rev)
         /\ \A s \in Runners : s # r => run[s].pc # "running"
         /\ next <= Len(Script(way, rev)) + 1
         /\ run[r].pc = "running" /\ run[r].way = way /\ run[r].rev = rev /\ run[r].next = next
BY WorkingIs DEF At, Turns

\* One statement is made; no revision is stamped and no run ends.
Moves(r, way, rev, next) ==
  /\ At(r, way, rev, next) /\ next \in Steps(way, rev)
  /\ run' = [run EXCEPT ![r] = Working(way, rev, next + 1)]
  /\ lock' = lock /\ stamp' = stamp /\ cut' = cut

\* A statement that goes forward is a move, of the kind and the object that the table has.
LEMMA MovesOf ==
  ASSUME ShapeOK, Turns, NEW r \in Runners, NEW kind, Doing(r, kind), Forward(r),
         lock' = lock, stamp' = stamp, cut' = cut
  PROVE  \E way \in Ways, rev \in Revisions, next \in Nat \ {0} :
           /\ Moves(r, way, rev, next)
           /\ KindAt(way, rev, next) = kind /\ ObjectAt(way, rev, next) = Statement(r).object
<1>1. PICK way \in Ways, rev \in Revisions, next \in Nat \ {0} :
        At(r, way, rev, next) /\ Revision(r) = Script(way, rev)
  BY AtWork DEF Doing
<1>2. run[r] = Working(way, rev, next) /\ run[r].next = next
  BY <1>1, WorkingIs DEF At
<1>3. Statement(r) = Script(way, rev)[next]
  BY <1>1, <1>2 DEF Statement
<1>4. next \in Steps(way, rev)
  <2>1. Len(Script(way, rev)) \in Nat
    BY ScriptsWellMade DEF WellMade
  <2> QED
    BY <1>1, <1>2, <2>1 DEF Doing, Steps
<1>5. [run[r] EXCEPT !.next = @ + 1] = Working(way, rev, next + 1)
  BY <1>2 DEF Working
<1>6. run' = [run EXCEPT ![r] = Working(way, rev, next + 1)]
  BY <1>5 DEF Forward
<1> QED
  BY <1>1, <1>3, <1>4, <1>6 DEF Moves, Doing, KindAt, ObjectAt

\* What a move does to the turns, and to what is half-way.
LEMMA Moved ==
  ASSUME ShapeOK, Turns, Unstamped, NEW r \in Runners,
         NEW way \in Ways, NEW rev \in Revisions, NEW next \in Nat \ {0},
         Moves(r, way, rev, next)
  PROVE  /\ Turns' /\ Unstamped' /\ run' \in [Runners -> Job]
         /\ At(r, way, rev, next + 1)'
         /\ \A s \in Runners : s # r => run'[s] = run[s] /\ run'[s].pc # "running"
         /\ Middle(way, rev) \in Nat
         /\ \A w \in Ways, v \in Revisions :
              HalfWay(w, v)' <=> HalfWay(w, v) \/ (w = way /\ v = rev /\ next >= Middle(way, rev))
<1>1. /\ lock = r /\ stamp = Before(way, rev)
      /\ \A s \in Runners : s # r => run[s].pc # "running"
  BY WorksAlone DEF Moves
<1>2. /\ run[r] = Working(way, rev, next)
      /\ run' = [run EXCEPT ![r] = Working(way, rev, next + 1)]
      /\ run \in [Runners -> Job]
  BY DEF Moves, At, ShapeOK
<1>3. /\ run'[r] = Working(way, rev, next + 1)
      /\ \A s \in Runners : s # r => run'[s] = run[s] /\ run'[s].pc # "running"
  BY <1>1, <1>2
<1>4. run' \in [Runners -> Job]
  <2>1. Working(way, rev, next + 1) \in Job
    BY DEF Working, Job
  <2> QED
    BY <1>2, <2>1
<1>5. Middle(way, rev) \in Nat
  BY DEF Middle
<1>6. Len(Script(way, rev)) \in Nat /\ next <= Len(Script(way, rev))
  BY ScriptsWellMade DEF WellMade, Moves, Steps
<1>7. Turns'
  <2> SUFFICES ASSUME NEW s \in Runners
               PROVE  /\ run'[s].pc = "running" <=> lock' = s
                      /\ run'[s].pc # "running" => run'[s].next = 1
                      /\ run'[s].pc = "running" =>
                           /\ run'[s].next <= Len(Script(run'[s].way, run'[s].rev)) + 1
                           /\ stamp' = Before(run'[s].way, run'[s].rev)
    BY DEF Turns
  <2>1. CASE s = r
    BY <1>1, <1>3, <1>6, <2>1, WorkingIs DEF Moves
  <2>2. CASE s # r
    BY <1>1, <1>3, <2>2 DEF Moves, Turns
  <2> QED
    BY <2>1, <2>2
<1>8. Unstamped'
  BY DEF Unstamped, Moves
<1>9. ASSUME NEW w \in Ways, NEW v \in Revisions
      PROVE  HalfWay(w, v)' <=> HalfWay(w, v) \/ (w = way /\ v = rev /\ next >= Middle(way, rev))
  <2>1. HalfWay(w, v)' <=>
          <<w, v>> \in cut \/ (w = way /\ v = rev /\ next + 1 > Middle(way, rev))
    BY <1>3, WorkingIs DEF HalfWay, Moves
  <2>2. HalfWay(w, v) <=>
          <<w, v>> \in cut \/ (w = way /\ v = rev /\ next > Middle(way, rev))
    BY <1>1, <1>2, WorkingIs DEF HalfWay
  <2> QED
    BY <1>5, <2>1, <2>2
<1> QED
  BY <1>3, <1>4, <1>5, <1>7, <1>8, <1>9 DEF At

\* The statement at hand changes one object of its revision, its own.
LEMMA Touches ==
  ASSUME NEW way \in Ways, NEW rev \in Revisions, NEW next \in Steps(way, rev)
  PROVE  /\ KindAt(way, rev, next) \in Changes => ObjectAt(way, rev, next) \in Owns(rev)
         /\ KindAt(way, rev, next) \in Makers =>
              /\ ObjectAt(way, rev, next) \in SchemaAt(After(way, rev))
              /\ ObjectAt(way, rev, next) \notin SchemaAt(Before(way, rev))
         /\ KindAt(way, rev, next) \in Takers =>
              /\ ObjectAt(way, rev, next) \notin SchemaAt(After(way, rev))
              /\ ObjectAt(way, rev, next) \in SchemaAt(Before(way, rev))
<1>1. Timed(way, rev)
  BY ScriptsWellMade DEF WellMade
<1> QED
  BY <1>1, Stamps DEF Timed, Changes

\* A statement of a part: what it leaves of the invariant, from what it does to its
\* own object.
LEMMA Stated ==
  ASSUME MigrationInv, NEW r \in Runners,
         NEW way \in Ways, NEW rev \in Revisions, NEW next \in Nat \ {0}, NEW p,
         Moves(r, way, rev, next), p = ObjectAt(way, rev, next),
         KindAt(way, rev, next) # "commit",
         deduped' = deduped \/ next < Middle(way, rev),
         \A o \in Objects : \/ KindAt(way, rev, next) \in Changes /\ o = p
                            \/ /\ o \in schema' <=> o \in schema
                               /\ o \in view' <=> o \in view
                               /\ o \in invalid' <=> o \in invalid,
         KindAt(way, rev, next) \in Changes =>
           /\ p \in view' <=> p \in SchemaAt(After(way, rev))
           /\ p \notin invalid'
           /\ p \in Indexes => (p \in schema' <=> p \in view')
           /\ p \notin Indexes => (p \in schema' <=> p \in schema),
         KindAt(way, rev, next) = "create" => p \notin view
  PROVE  Turns' /\ Unstamped' /\ Settled' /\ Progress' /\ Blocked'
<1> USE DEF MigrationInv
<1>1. /\ Turns' /\ Unstamped'
      /\ At(r, way, rev, next + 1)'
      /\ \A s \in Runners : s # r => run'[s] = run[s] /\ run'[s].pc # "running"
      /\ Middle(way, rev) \in Nat
  BY Moved
<1>2. next \in Steps(way, rev) /\ Timed(way, rev) /\ Alone(way, rev)
      /\ Len(Script(way, rev)) \in Nat
  BY ScriptsWellMade DEF WellMade, Moves
<1>3. next # Middle(way, rev)
  BY <1>2 DEF Timed
<1>4. /\ run[r].pc = "running" /\ run[r].way = way /\ run[r].rev = rev /\ run[r].next = next
      /\ lock = r /\ stamp = Before(way, rev)
  BY WorksAlone DEF Moves
<1>5. \A w \in Ways, v \in Revisions : HalfWay(w, v)' <=> HalfWay(w, v)
  <2>1. \A w \in Ways, v \in Revisions :
          HalfWay(w, v)' <=> HalfWay(w, v) \/ (w = way /\ v = rev /\ next >= Middle(way, rev))
    BY Moved
  <2>2. next >= Middle(way, rev) => next > Middle(way, rev)
    BY <1>1, <1>3
  <2>3. next > Middle(way, rev) => HalfWay(way, rev)
    BY <1>4 DEF HalfWay
  <2> QED
    BY <2>1, <2>2, <2>3
<1>6. Sees(way, rev, next)
  BY <1>4 DEF Progress
<1>7. p \in Owns(rev) \/ KindAt(way, rev, next) \notin Changes
  BY <1>2, Touches
<1>8. Settled'
  <2> SUFFICES ASSUME NEW v \in Revisions, NEW o \in Owns(v), Untouched(v, o)'
               PROVE  Right(o)'
    BY DEF Settled
  <2>1. Untouched(v, o)
    BY <1>5 DEF Untouched
  <2>2. Right(o)
    BY <2>1 DEF Settled
  <2>3. o \in Objects
    BY DEF Objects
  <2>4. CASE KindAt(way, rev, next) \in Changes /\ o = p
    <3>1. v = rev
      BY <1>7, <2>4, OneOwner
    <3>2. CASE KindAt(way, rev, next) \in {"build", "unbuild"}
      <4>1. next > Middle(way, rev) /\ p \in Indexes
        BY <1>2, <3>2 DEF Timed
      <4>2. HalfWay(way, rev)
        BY <1>4, <4>1 DEF HalfWay
      <4> QED
        BY <2>1, <2>4, <3>1, <4>1, <4>2 DEF Untouched
    <3>3. CASE KindAt(way, rev, next) \in {"create", "drop"}
      <4>1. p \notin Indexes
        BY <1>2, <3>3 DEF Timed
      <4> QED
        BY <2>2, <2>4, <4>1 DEF Right, Moves
    <3> QED
      BY <2>4, <3>2, <3>3 DEF Changes, Makers, Takers
  <2>5. CASE ~(KindAt(way, rev, next) \in Changes /\ o = p)
    BY <2>2, <2>3, <2>5 DEF Right, Moves
  <2> QED
    BY <2>4, <2>5
<1>9. Sees(way, rev, next + 1)'
  <2>1. ASSUME NEW i \in Steps(way, rev), KindAt(way, rev, i) \in Changes
        PROVE  Reflected(way, rev, next + 1, i)'
    <3> DEFINE o == ObjectAt(way, rev, i)
    <3>1. o \in Objects /\ i \in Nat
      BY <1>2, <2>1, Touches DEF Objects, Steps
    <3>2. Reflected(way, rev, next, i)
      BY <1>6 DEF Sees
    <3>3. CASE i = next
      <4>1. i < next + 1 /\ ~(i < Middle(way, rev) /\ Middle(way, rev) < next + 1)
        BY <1>1, <3>1, <3>3
      <4> QED
        BY <2>1, <3>3, <4>1 DEF Reflected
    <3>4. CASE i # next
      <4>1. o # p \/ KindAt(way, rev, next) \notin Changes
        BY <1>2, <2>1, <3>4 DEF Alone
      <4>2. /\ o \in schema' <=> o \in schema
            /\ o \in view' <=> o \in view
            /\ o \in invalid' <=> o \in invalid
        BY <3>1, <4>1
      <4>3. /\ i < next + 1 <=> i < next
            /\ Middle(way, rev) < next + 1 <=> Middle(way, rev) < next
        BY <1>1, <1>3, <3>1, <3>4
      <4> QED
        BY <2>1, <3>2, <4>2, <4>3 DEF Reflected
    <3> QED
      BY <3>3, <3>4
  <2>2. ASSUME NEW i \in Steps(way, rev)
        PROVE  Reflected(way, rev, next + 1, i)'
    BY <2>1 DEF Reflected
  <2>3. ASSUME NEW o \in Objects \ Owns(rev)
        PROVE  o \in view' <=> o \in schema'
    BY <1>6, <1>7, <2>3 DEF Sees
  <2>4. next + 1 > Middle(way, rev) => deduped' = {}
    BY <1>1, <1>3, <1>6 DEF Sees
  <2> QED
    BY <2>2, <2>3, <2>4 DEF Sees
<1>10. Progress'
  <2> SUFFICES ASSUME NEW s \in Runners, run'[s].pc = "running"
               PROVE  Sees(run[s].way, run[s].rev, run[s].next)'
    BY DEF Progress
  <2>1. s = r
    BY <1>1
  <2> QED
    BY <1>1, <1>9, <2>1, WorkingIs DEF At
<1>11. Blocked'
  <2> SUFFICES ASSUME NEW w \in Ways, NEW v \in Revisions, <<w, v>> \in Early \cap cut
               PROVE  /\ ObjectAt(w, v, First(w, v)) \in schema'
                      /\ \A s \in Runners :
                           run'[s].pc = "running" /\ run'[s].way = w /\ run'[s].rev = v =>
                             run'[s].next <= First(w, v)
    BY DEF Blocked, Moves
  <2> DEFINE first == ObjectAt(w, v, First(w, v))
  <2>1. /\ First(w, v) \in Steps(w, v) /\ KindAt(w, v, First(w, v)) = "create"
        /\ Timed(w, v)
    BY ScriptsWellMade DEF WellMade
  <2>2. first \in schema /\ first \in Objects /\ first \notin Indexes
    BY <2>1, Touches DEF Blocked, Timed, Changes, Makers, Objects
  <2>3. first \in schema'
    BY <2>2
  <2>4. ASSUME w = way, v = rev PROVE next + 1 <= First(w, v)
    <3>1. next <= First(w, v) /\ First(w, v) \in Nat
      BY <1>4, <2>1, <2>4 DEF Blocked, Steps
    <3>2. next # First(w, v)
      <4> SUFFICES ASSUME next = First(w, v) PROVE FALSE
        OBVIOUS
      <4>1. first \notin view
        BY <2>1, <2>4
      <4>2. Reflected(way, rev, next, next)
        BY <1>2, <1>6 DEF Sees
      <4>3. first \in view <=> first \in schema
        BY <2>1, <2>4, <4>2 DEF Reflected, Changes, Makers
      <4> QED
        BY <2>2, <4>1, <4>3
    <3> QED
      BY <3>1, <3>2
  <2> QED
    BY <1>1, <2>3, <2>4, WorkingIs DEF At
<1> QED
  BY <1>1, <1>8, <1>10, <1>11

-----------------------------------------------------------------------------
(* The statements                                                          *)

\* Nothing of D is enforced by S, object by object.
LEMMA EnforcedIs ==
  ASSUME NEW D, NEW S
  PROVE  D \cap Enforced(S) = {} <=> \A o \in S : Unique(o) => RuleOf[o] \notin D
BY DEF Enforced, Unique

\* A step that stumbles over nothing and forgets no cut keeps OnlySomeGetStuck.
LEMMA StuckStays ==
  ASSUME OnlySomeGetStuck, stuck' = stuck, cut' = cut
  PROVE  OnlySomeGetStuck'
BY DEF OnlySomeGetStuck

\* What a statement changes is an object of the table.
LEMMA OwnObject ==
  ASSUME NEW way \in Ways, NEW rev \in Revisions, NEW next \in Steps(way, rev),
         KindAt(way, rev, next) \in Changes
  PROVE  ObjectAt(way, rev, next) \in Objects
BY Touches DEF Objects

\* A deduplication, a pre-check or an added enum value changes no object.
LEMMA QuietStep ==
  ASSUME MigrationInv, NEW r \in Runners, Dedupe(r) \/ Check(r) \/ Ensure(r)
  PROVE  MigrationInv'
<1> USE DEF MigrationInv
<1>1. PICK kind \in {"dedupe", "check", "ensure"} :
        /\ Doing(r, kind) /\ Forward(r)
        /\ kind # "dedupe" => deduped' = deduped
        /\ deduped \subseteq deduped'
  BY DEF Dedupe, Check, Ensure
<1>2. UNCHANGED <<schema, invalid, stamp, dups, view, lock, runs, cut, stuck>>
  BY DEF Dedupe, Check, Ensure, database
<1>3. PICK way \in Ways, rev \in Revisions, next \in Nat \ {0} :
        Moves(r, way, rev, next) /\ KindAt(way, rev, next) = kind
  BY <1>1, <1>2, MovesOf
<1>4. deduped' = deduped \/ next < Middle(way, rev)
  BY <1>1, <1>3, ScriptsWellMade DEF WellMade, Timed, Moves
<1>5. ShapeOK'
  BY <1>2, <1>3, Moved DEF ShapeOK
<1>6. Turns' /\ Unstamped' /\ Settled' /\ Progress' /\ Blocked'
  BY <1>1, <1>2, <1>3, <1>4, Stated DEF Changes, Makers, Takers
<1>7. RulesHold'
  <2>1. dups' \cap Enforced(schema' \ invalid') = {}
    BY <1>2 DEF RulesHold, Enforced
  <2>2. lock' # Nobody => (dups' \ deduped') \cap Enforced(view' \ invalid') = {}
    BY <1>1, <1>2 DEF RulesHold, Enforced
  <2> QED
    BY <2>1, <2>2 DEF RulesHold, Enforced
<1> QED
  BY <1>2, <1>5, <1>6, <1>7, StuckStays

\* Something is created in the open transaction, unless rows break its rule.
LEMMA CreateStep ==
  ASSUME MigrationInv, NEW r \in Runners, Create(r)
  PROVE  MigrationInv'
<1> USE DEF MigrationInv
<1>1. /\ Doing(r, "create") /\ Forward(r)
      /\ Statement(r).object \notin view /\ ~Breached(Statement(r).object)
      /\ view' = view \cup {Statement(r).object}
      /\ UNCHANGED <<schema, invalid, stamp, dups, deduped, lock, runs, cut, stuck>>
  BY DEF Create, database
<1>2. PICK way \in Ways, rev \in Revisions, next \in Nat \ {0} :
        /\ Moves(r, way, rev, next) /\ KindAt(way, rev, next) = "create"
        /\ ObjectAt(way, rev, next) = Statement(r).object
  BY <1>1, MovesOf
<1> DEFINE p == ObjectAt(way, rev, next)
<1>3. p \in Objects /\ p \notin Indexes /\ p \in SchemaAt(After(way, rev))
  BY <1>2, OwnObject, Touches, ScriptsWellMade DEF WellMade, Timed, Moves, Changes, Makers
<1>4. ShapeOK'
  BY <1>1, <1>2, <1>3, Moved DEF ShapeOK
<1>5. Turns' /\ Unstamped' /\ Settled' /\ Progress' /\ Blocked'
  <2>1. p \notin invalid
    BY <1>3 DEF ShapeOK
  <2> QED
    BY <1>1, <1>2, <1>3, <2>1, Stated DEF Changes, Makers, Takers
<1>6. RulesHold'
  <2>1. dups' \cap Enforced(schema' \ invalid') = {}
    BY <1>1 DEF RulesHold, Enforced
  <2>2. lock # Nobody =>
          \A o \in view \ invalid : Unique(o) => RuleOf[o] \notin dups \ deduped
    BY EnforcedIs DEF RulesHold
  <2>3. lock # Nobody =>
          \A o \in view' \ invalid' : Unique(o) => RuleOf[o] \notin dups' \ deduped'
    BY <1>1, <2>2 DEF Breached
  <2>4. lock' # Nobody => (dups' \ deduped') \cap Enforced(view' \ invalid') = {}
    BY <1>1, <2>3, EnforcedIs
  <2> QED
    BY <2>1, <2>4 DEF RulesHold, Enforced
<1> QED
  BY <1>1, <1>4, <1>5, <1>6, StuckStays

\* Something is dropped in the open transaction.
LEMMA DropStep ==
  ASSUME MigrationInv, NEW r \in Runners, Drop(r)
  PROVE  MigrationInv'
<1> USE DEF MigrationInv
<1>1. /\ Doing(r, "drop") /\ Forward(r)
      /\ view' = view \ {Statement(r).object}
      /\ UNCHANGED <<schema, invalid, stamp, dups, deduped, lock, runs, cut, stuck>>
  BY DEF Drop, database
<1>2. PICK way \in Ways, rev \in Revisions, next \in Nat \ {0} :
        /\ Moves(r, way, rev, next) /\ KindAt(way, rev, next) = "drop"
        /\ ObjectAt(way, rev, next) = Statement(r).object
  BY <1>1, MovesOf
<1> DEFINE p == ObjectAt(way, rev, next)
<1>3. p \in Objects /\ p \notin Indexes /\ p \notin SchemaAt(After(way, rev))
  <2>1. next \in Steps(way, rev) /\ Timed(way, rev)
    BY <1>2, ScriptsWellMade DEF WellMade, Moves
  <2>2. p \notin Indexes
    BY <1>2, <2>1 DEF Timed
  <2> QED
    BY <1>2, <2>1, <2>2, OwnObject, Touches DEF Changes, Takers
<1>4. ShapeOK'
  BY <1>1, <1>2, <1>3, Moved DEF ShapeOK
<1>5. Turns' /\ Unstamped' /\ Settled' /\ Progress' /\ Blocked'
  <2>1. p \notin invalid
    BY <1>3 DEF ShapeOK
  <2> QED
    BY <1>1, <1>2, <1>3, <2>1, Stated DEF Changes, Makers, Takers
<1>6. RulesHold'
  BY <1>1 DEF RulesHold, Enforced
<1> QED
  BY <1>1, <1>4, <1>5, <1>6, StuckStays

\* An index that stands is valid, so its rule holds; one built now is built on rows
\* that keep it, and the second part has nothing deduplicated that is not committed.
LEMMA BuildStep ==
  ASSUME MigrationInv, NEW r \in Runners, Build(r)
  PROVE  MigrationInv'
<1> USE DEF MigrationInv
<1>1. PICK p : p = Statement(r).object
  OBVIOUS
<1>2. /\ Doing(r, "build") /\ Forward(r)
      /\ Standing(p) \/ ~Breached(p)
      /\ schema' = schema \cup {p} /\ view' = view \cup {p}
      /\ invalid' = IF Standing(p) THEN invalid ELSE invalid \ {p}
      /\ UNCHANGED <<stamp, dups, deduped, lock, runs, cut, stuck>>
  BY <1>1 DEF Build
<1>3. PICK way \in Ways, rev \in Revisions, next \in Nat \ {0} :
        /\ Moves(r, way, rev, next) /\ KindAt(way, rev, next) = "build"
        /\ ObjectAt(way, rev, next) = p
  BY <1>1, <1>2, MovesOf
<1>4. /\ p \in Objects /\ p \in Indexes /\ p \in SchemaAt(After(way, rev))
      /\ next > Middle(way, rev)
  BY <1>3, OwnObject, Touches, ScriptsWellMade DEF WellMade, Timed, Moves, Changes, Makers
<1>5. invalid' = invalid \ {p}
  BY <1>2 DEF Standing
<1>6. ShapeOK'
  BY <1>2, <1>3, <1>4, <1>5, Moved DEF ShapeOK
<1>7. Turns' /\ Unstamped' /\ Settled' /\ Progress' /\ Blocked'
  BY <1>2, <1>3, <1>4, <1>5, Stated DEF Changes, Makers, Takers
<1>8. deduped = {} /\ lock # Nobody
  <2>1. /\ run[r].pc = "running" /\ run[r].way = way /\ run[r].rev = rev /\ run[r].next = next
        /\ lock = r
    BY <1>3, WorksAlone DEF Moves
  <2> QED
    BY <1>4, <2>1, ConstantsOK DEF Progress, Sees
<1>9. RulesHold'
  <2>1. \A o \in schema \ invalid : Unique(o) => RuleOf[o] \notin dups
    BY EnforcedIs DEF RulesHold
  <2>2. lock # Nobody =>
          \A o \in view \ invalid : Unique(o) => RuleOf[o] \notin dups \ deduped
    BY EnforcedIs DEF RulesHold
  <2>3. Unique(p) => RuleOf[p] \notin dups
    BY <1>2, <1>8, <2>1 DEF Standing, Breached
  <2>4. \A o \in schema' \ invalid' : Unique(o) => RuleOf[o] \notin dups'
    BY <1>2, <1>5, <2>1, <2>3
  <2>5. \A o \in view' \ invalid' : Unique(o) => RuleOf[o] \notin dups' \ deduped'
    BY <1>2, <1>5, <1>8, <2>2, <2>3
  <2>6. dups' \cap Enforced(schema' \ invalid') = {}
    BY <2>4, EnforcedIs
  <2>7. (dups' \ deduped') \cap Enforced(view' \ invalid') = {}
    BY <2>5, EnforcedIs
  <2> QED
    BY <2>6, <2>7 DEF RulesHold, Enforced
<1> QED
  BY <1>2, <1>6, <1>7, <1>9, StuckStays

\* An index is dropped at once, valid or not.
LEMMA UnbuildStep ==
  ASSUME MigrationInv, NEW r \in Runners, Unbuild(r)
  PROVE  MigrationInv'
<1> USE DEF MigrationInv
<1>1. PICK p : p = Statement(r).object
  OBVIOUS
<1>2. /\ Doing(r, "unbuild") /\ Forward(r)
      /\ schema' = schema \ {p} /\ view' = view \ {p} /\ invalid' = invalid \ {p}
      /\ UNCHANGED <<stamp, dups, deduped, lock, runs, cut, stuck>>
  BY <1>1 DEF Unbuild
<1>3. PICK way \in Ways, rev \in Revisions, next \in Nat \ {0} :
        /\ Moves(r, way, rev, next) /\ KindAt(way, rev, next) = "unbuild"
        /\ ObjectAt(way, rev, next) = p
  BY <1>1, <1>2, MovesOf
<1>4. p \in Objects /\ p \in Indexes /\ p \notin SchemaAt(After(way, rev))
  <2>1. next \in Steps(way, rev) /\ Timed(way, rev)
    BY <1>3, ScriptsWellMade DEF WellMade, Moves
  <2>2. p \in Indexes
    BY <1>3, <2>1 DEF Timed
  <2> QED
    BY <1>3, <2>1, <2>2, OwnObject, Touches DEF Changes, Takers
<1>5. ShapeOK'
  BY <1>2, <1>3, Moved DEF ShapeOK
<1>6. Turns' /\ Unstamped' /\ Settled' /\ Progress' /\ Blocked'
  BY <1>2, <1>3, <1>4, Stated DEF Changes, Makers, Takers
<1>7. RulesHold'
  <2>1. schema' \ invalid' \subseteq schema \ invalid /\ view' \ invalid' \subseteq view \ invalid
    BY <1>2
  <2> QED
    BY <1>2, <2>1 DEF RulesHold, Enforced
<1> QED
  BY <1>2, <1>5, <1>6, <1>7, StuckStays

-----------------------------------------------------------------------------
(* The commits                                                             *)

\* Each object of a script has its statement, so an invalid index is in view.
LEMMA InvalidSeen ==
  ASSUME ShapeOK, NEW way \in Ways, NEW rev \in Revisions, NEW next, Sees(way, rev, next)
  PROVE  invalid \subseteq view
<1> SUFFICES ASSUME NEW o \in invalid PROVE o \in view
  OBVIOUS
<1>1. o \in schema /\ o \in Objects
  BY DEF ShapeOK
<1>2. CASE o \in Owns(rev)
  <2>1. PICK i \in Steps(way, rev) : KindAt(way, rev, i) \in Changes /\ ObjectAt(way, rev, i) = o
    BY <1>2, ScriptsWellMade DEF WellMade, Complete
  <2> QED
    BY <1>1, <2>1 DEF Sees, Reflected
<1>3. CASE o \notin Owns(rev)
  BY <1>1, <1>3 DEF Sees
<1> QED
  BY <1>2, <1>3

\* A script at its commit or past it is none that a cut early one keeps blocked, and
\* leaves what that one made first alone.
LEMMA EarlyElsewhere ==
  ASSUME MigrationInv, NEW r \in Runners,
         NEW way \in Ways, NEW rev \in Revisions, NEW next \in Nat \ {0},
         At(r, way, rev, next), next >= Middle(way, rev),
         NEW w \in Ways, NEW v \in Revisions, <<w, v>> \in Early \cap cut
  PROVE  v # rev /\ ObjectAt(w, v, First(w, v)) \in view
<1> USE DEF MigrationInv
<1>1. /\ lock = r /\ stamp = Before(way, rev)
      /\ run[r].pc = "running" /\ run[r].way = way /\ run[r].rev = rev /\ run[r].next = next
  BY WorksAlone
<1>2. /\ First(w, v) < Middle(w, v) /\ First(w, v) \in Steps(w, v)
      /\ KindAt(w, v, First(w, v)) = "create"
      /\ Middle(w, v) \in Nat /\ First(w, v) \in Nat
  BY ScriptsWellMade DEF WellMade, Middle, First
<1>3. v # rev
  <2>1. ~(w = way /\ v = rev)
    <3>1. w = way /\ v = rev => next <= First(w, v)
      BY <1>1 DEF Blocked
    <3> QED
      BY <1>2, <3>1
  <2>2. CASE w # way /\ v = rev
    <3>1. CASE w = "up" /\ way = "down"
      <4>1. <<"up", rev>> \in cut /\ stamp = rev
        BY <1>1, <2>2, <3>1 DEF Before
      <4> QED
        BY <4>1 DEF Unstamped, Revisions
    <3>2. CASE w = "down" /\ way = "up"
      <4>1. <<"down", rev>> \in cut /\ stamp = rev - 1
        BY <1>1, <2>2, <3>2 DEF Before
      <4> QED
        BY <4>1 DEF Unstamped, Revisions
    <3> QED
      BY <2>2, <3>1, <3>2 DEF Ways
  <2> QED
    BY <2>1, <2>2
<1>4. /\ ObjectAt(w, v, First(w, v)) \in schema
      /\ ObjectAt(w, v, First(w, v)) \in Owns(v) /\ ObjectAt(w, v, First(w, v)) \in Objects
  BY <1>2, Touches, OwnObject DEF Blocked, Changes, Makers
<1>5. ObjectAt(w, v, First(w, v)) \notin Owns(rev)
  BY <1>3, <1>4, OneOwner
<1>6. Sees(way, rev, next)
  BY <1>1 DEF Progress
<1> QED
  BY <1>3, <1>4, <1>5, <1>6 DEF Sees

\* The first part is committed: what it made is what the next stamp asks for.
LEMMA CommitStep ==
  ASSUME MigrationInv, NEW r \in Runners, CommitFirst(r)
  PROVE  MigrationInv'
<1> USE DEF MigrationInv
<1>1. /\ Doing(r, "commit") /\ Forward(r)
      /\ schema' = view /\ dups' = dups \ deduped /\ deduped' = {}
      /\ UNCHANGED <<invalid, stamp, view, lock, runs, cut, stuck>>
  BY DEF CommitFirst
<1>2. PICK way \in Ways, rev \in Revisions, next \in Nat \ {0} :
        Moves(r, way, rev, next) /\ KindAt(way, rev, next) = "commit"
  BY <1>1, MovesOf
<1>3. /\ next \in Steps(way, rev) /\ Timed(way, rev) /\ Alone(way, rev) /\ Complete(way, rev)
      /\ next = Middle(way, rev) /\ Len(Script(way, rev)) \in Nat
  BY <1>2, ScriptsWellMade DEF WellMade, Timed, Moves
<1>4. /\ Turns' /\ Unstamped' /\ run' \in [Runners -> Job]
      /\ At(r, way, rev, next + 1)'
      /\ \A s \in Runners : s # r => run'[s] = run[s] /\ run'[s].pc # "running"
      /\ \A w \in Ways, v \in Revisions :
           HalfWay(w, v)' <=> HalfWay(w, v) \/ (w = way /\ v = rev)
  <2>1. next >= Middle(way, rev)
    BY <1>3
  <2> QED
    BY <1>2, <2>1, Moved
<1>5. /\ lock = r /\ lock # Nobody
      /\ run[r].pc = "running" /\ run[r].way = way /\ run[r].rev = rev /\ run[r].next = next
  BY <1>2, WorksAlone, ConstantsOK DEF Moves
<1>6. Sees(way, rev, next)
  BY <1>5 DEF Progress
<1>7. ShapeOK'
  <2>1. invalid \subseteq view
    BY <1>6, InvalidSeen
  <2> QED
    BY <1>1, <1>4, <2>1 DEF ShapeOK
<1>8. Settled'
  <2> SUFFICES ASSUME NEW v \in Revisions, NEW o \in Owns(v), Untouched(v, o)'
               PROVE  Right(o)'
    BY DEF Settled
  <2>1. Untouched(v, o)
    BY <1>4 DEF Untouched
  <2>2. Right(o)
    BY <2>1 DEF Settled
  <2>3. o \in Objects
    BY DEF Objects
  <2>4. o \in view <=> o \in schema
    <3>1. CASE v # rev
      BY <1>6, <2>3, <3>1, OneOwner DEF Sees
    <3>2. CASE v = rev
      <4>1. PICK i \in Steps(way, rev) :
              KindAt(way, rev, i) \in Changes /\ ObjectAt(way, rev, i) = o
        BY <1>3, <3>2 DEF Complete
      <4>2. o \notin Indexes /\ <<way, rev>> \notin Early
        BY <1>4, <3>2 DEF Untouched
      <4>3. KindAt(way, rev, i) \in {"create", "drop"}
        BY <1>3, <4>1, <4>2 DEF Timed, Changes, Makers, Takers
      <4>4. <<way, rev>> # <<"down", 10>>
        <5> SUFFICES ASSUME way = "down", rev = 10 PROVE FALSE
          OBVIOUS
        <5>1. Steps(way, rev) = 1..1
          BY ReadsDown10
        <5>2. Middle(way, rev) = 2
          BY DEF Middle
        <5> QED
          BY <1>3, <5>1, <5>2
      <4>5. ~(i < next)
        BY <1>3, <4>2, <4>3, <4>4 DEF Timed
      <4> QED
        BY <1>6, <4>1, <4>5 DEF Sees, Reflected
    <3> QED
      BY <3>1, <3>2
  <2> QED
    BY <1>1, <2>2, <2>4 DEF Right
<1>9. Progress'
  <2>1. ASSUME NEW i \in Steps(way, rev) PROVE Reflected(way, rev, next + 1, i)'
    <3>1. Reflected(way, rev, next, i) /\ i \in Nat
      BY <1>3, <1>6 DEF Sees, Steps
    <3>2. KindAt(way, rev, i) \in Changes => i # next
      BY <1>2 DEF Changes, Makers, Takers
    <3>3. i # next => (i < next + 1 <=> i < next)
      BY <3>1
    <3> QED
      BY <1>1, <3>1, <3>2, <3>3 DEF Reflected
  <2>2. Sees(way, rev, next + 1)'
    BY <1>1, <2>1 DEF Sees
  <2> SUFFICES ASSUME NEW s \in Runners, run'[s].pc = "running"
               PROVE  Sees(run[s].way, run[s].rev, run[s].next)'
    BY DEF Progress
  <2>3. s = r
    BY <1>4
  <2> QED
    BY <1>4, <2>2, <2>3, WorkingIs DEF At
<1>10. RulesHold'
  BY <1>1, <1>5 DEF RulesHold, Enforced
<1>11. Blocked'
  <2> SUFFICES ASSUME NEW w \in Ways, NEW v \in Revisions, <<w, v>> \in Early \cap cut
               PROVE  /\ ObjectAt(w, v, First(w, v)) \in schema'
                      /\ \A s \in Runners :
                           run'[s].pc = "running" /\ run'[s].way = w /\ run'[s].rev = v =>
                             run'[s].next <= First(w, v)
    BY <1>1 DEF Blocked
  <2>1. v # rev /\ ObjectAt(w, v, First(w, v)) \in view
    BY <1>2, <1>3, EarlyElsewhere DEF Moves
  <2> QED
    BY <1>1, <1>4, <2>1, WorkingIs DEF At
<1> QED
  BY <1>1, <1>4, <1>7, <1>8, <1>9, <1>10, <1>11, StuckStays

\* The version is written: the script's objects are as the new stamp asks, and what
\* was left half-way is whole again.
LEMMA StampStep ==
  ASSUME MigrationInv, NEW r \in Runners, Stamp(r)
  PROVE  MigrationInv'
<1> USE DEF MigrationInv
<1>1. PICK way \in Ways, rev \in Revisions, next \in Nat \ {0} :
        /\ At(r, way, rev, next) /\ Revision(r) = Script(way, rev)
        /\ next <= Len(Script(way, rev)) + 1
  BY AtWork DEF Stamp
<1>2. /\ lock = r /\ lock # Nobody /\ stamp = Before(way, rev)
      /\ run[r].pc = "running" /\ run[r].way = way /\ run[r].rev = rev /\ run[r].next = next
      /\ \A s \in Runners : s # r => run[s].pc # "running"
  BY <1>1, WorksAlone, ConstantsOK
<1>3. /\ Len(Script(way, rev)) \in Nat /\ Middle(way, rev) \in 1..(Len(Script(way, rev)) + 1)
      /\ Complete(way, rev)
  BY ScriptsWellMade DEF WellMade
<1>4. next = Len(Script(way, rev)) + 1 /\ next >= Middle(way, rev)
  BY <1>1, <1>2, <1>3 DEF Stamp
<1>5. /\ schema' = view /\ dups' = dups \ deduped
      /\ stamp' = After(way, rev) /\ cut' = cut \ {<<way, rev>>}
      /\ UNCHANGED <<invalid, runs, stuck>>
  BY <1>2 DEF Stamp, After
<1>6. \/ /\ way = "up" /\ stamp' < 10
         /\ run' = [run EXCEPT ![r] = Working("up", stamp' + 1, 1)]
         /\ view' = schema' /\ deduped' = {} /\ lock' = lock
      \/ run' = [run EXCEPT ![r] = Idle] /\ lock' = Nobody /\ view' = view /\ deduped' = deduped
  <2>1. CASE way = "up" /\ stamp' < 10
    BY <1>2, <2>1 DEF Stamp, Enter, Working
  <2>2. CASE ~(way = "up" /\ stamp' < 10)
    BY <1>2, <2>2 DEF Stamp
  <2> QED
    BY <2>1, <2>2
<1>7. run \in [Runners -> Job] /\ stamp \in 6..10 /\ stamp' \in 6..10
  BY <1>5, Stamps DEF ShapeOK
<1>8. \/ /\ way = "up" /\ stamp' < 10 /\ stamp' + 1 \in Revisions
         /\ run'[r] = Working("up", stamp' + 1, 1) /\ lock' = r
         /\ view' = schema' /\ deduped' = {}
      \/ run'[r] = Idle /\ lock' = Nobody /\ view' = view
  <2>1. stamp' < 10 => stamp' + 1 \in Revisions
    <3>1. \A v \in 6..10 : v < 10 => v + 1 \in Revisions
      BY DEF Revisions
    <3> QED
      BY <1>7, <3>1
  <2>2. \A job : run' = [run EXCEPT ![r] = job] => run'[r] = job
    BY <1>7
  <2>3. CASE /\ way = "up" /\ stamp' < 10
             /\ run' = [run EXCEPT ![r] = Working("up", stamp' + 1, 1)]
             /\ view' = schema' /\ deduped' = {} /\ lock' = lock
    BY <1>2, <2>1, <2>2, <2>3
  <2>4. CASE run' = [run EXCEPT ![r] = Idle] /\ lock' = Nobody /\ view' = view
    BY <2>2, <2>4
  <2> QED
    BY <1>6, <2>3, <2>4
<1>9. \A s \in Runners : s # r => run'[s] = run[s] /\ run'[s].pc # "running"
  BY <1>2, <1>6, <1>7
<1>10. Sees(way, rev, next)
  BY <1>2 DEF Progress
<1>11. run' \in [Runners -> Job]
  <2>1. Idle \in Job
    BY DEF Idle, Job, Ways, Revisions
  <2>2. \A v \in Revisions : Working("up", v, 1) \in Job
    BY DEF Working, Job, Ways
  <2> QED
    BY <1>6, <1>7, <1>8, <2>1, <2>2
<1>12. ShapeOK'
  <2>1. invalid \subseteq view
    BY <1>10, InvalidSeen
  <2>2. lock' \in Runners \cup {Nobody} /\ view' \subseteq Objects
    BY <1>5, <1>8 DEF ShapeOK
  <2> QED
    BY <1>5, <1>7, <1>11, <2>1, <2>2 DEF ShapeOK
<1>13. Turns'
  <2> SUFFICES ASSUME NEW s \in Runners
               PROVE  /\ run'[s].pc = "running" <=> lock' = s
                      /\ run'[s].pc # "running" => run'[s].next = 1
                      /\ run'[s].pc = "running" =>
                           /\ run'[s].next <= Len(Script(run'[s].way, run'[s].rev)) + 1
                           /\ stamp' = Before(run'[s].way, run'[s].rev)
    BY DEF Turns
  <2>1. CASE s # r
    BY <1>2, <1>8, <1>9, <2>1, ConstantsOK DEF Turns
  <2>2. CASE s = r /\ run'[r] = Idle /\ lock' = Nobody
    BY <2>2, ConstantsOK DEF Idle
  <2>3. CASE s = r /\ run'[r] = Working("up", stamp' + 1, 1) /\ lock' = r /\ stamp' + 1 \in Revisions
    <3>1. Len(Script("up", stamp' + 1)) \in Nat
      BY <2>3, ScriptsWellMade DEF WellMade, Ways
    <3> QED
      BY <1>7, <2>3, <3>1, WorkingIs DEF Before
  <2> QED
    BY <1>8, <2>1, <2>2, <2>3
<1>14. Unstamped'
  BY <1>2, <1>5 DEF Unstamped, Before, After, Ways, Revisions
<1>15. \A w \in Ways, v \in Revisions :
         /\ HalfWay(w, v)' <=> <<w, v>> \in cut'
         /\ v # rev => (HalfWay(w, v) <=> <<w, v>> \in cut')
  <2> SUFFICES ASSUME NEW w \in Ways, NEW v \in Revisions
               PROVE  /\ HalfWay(w, v)' <=> <<w, v>> \in cut'
                      /\ v # rev => (HalfWay(w, v) <=> <<w, v>> \in cut')
    OBVIOUS
  <2>1. \A s \in Runners : run'[s].pc = "running" => run'[s].next = 1
    BY <1>8, <1>9, WorkingIs DEF Idle
  <2>2. ~(1 > Middle(w, v))
    BY DEF Middle
  <2>3. HalfWay(w, v)' <=> <<w, v>> \in cut'
    BY <2>1, <2>2 DEF HalfWay
  <2>4. v # rev => (HalfWay(w, v) <=> <<w, v>> \in cut)
    BY <1>2 DEF HalfWay
  <2> QED
    BY <1>5, <2>3, <2>4
<1>16. Settled'
  <2> SUFFICES ASSUME NEW v \in Revisions, NEW o \in Owns(v), Untouched(v, o)'
               PROVE  Right(o)'
    BY DEF Settled
  <2>1. CASE v = rev
    <3>1. PICK i \in Steps(way, rev) : KindAt(way, rev, i) \in Changes /\ ObjectAt(way, rev, i) = o
      BY <1>3, <2>1 DEF Complete
    <3>2. i < next
      BY <1>3, <1>4 DEF Steps
    <3> QED
      BY <1>5, <1>10, <3>1, <3>2 DEF Sees, Reflected, Right
  <2>2. CASE v # rev
    <3>1. Untouched(v, o)
      BY <1>15, <2>2 DEF Untouched
    <3>2. Right(o)
      BY <3>1 DEF Settled
    <3>3. o \in view <=> o \in schema
      BY <1>10, <2>2, OneOwner DEF Sees, Objects
    <3>4. o \in SchemaAt(After(way, rev)) <=> o \in SchemaAt(Before(way, rev))
      BY <2>2, Stamps
    <3> QED
      BY <1>2, <1>5, <3>2, <3>3, <3>4 DEF Right
  <2> QED
    BY <2>1, <2>2
<1>17. Progress'
  <2> SUFFICES ASSUME NEW s \in Runners, run'[s].pc = "running"
               PROVE  Sees(run[s].way, run[s].rev, run[s].next)'
    BY DEF Progress
  <2>1. s = r /\ run'[r] = Working("up", stamp' + 1, 1) /\ view' = schema' /\ deduped' = {}
    BY <1>8, <1>9 DEF Idle
  <2>2. PICK v : v = stamp' + 1
    OBVIOUS
  <2>3. 1 <= Middle("up", v) /\ \A i \in Steps("up", v) : ~(i < 1)
    BY DEF Middle, Steps
  <2>4. Sees("up", v, 1)'
    BY <2>1, <2>3 DEF Sees, Reflected
  <2>5. run'[s].way = "up" /\ run'[s].rev = v /\ run'[s].next = 1
    BY <2>1, <2>2, WorkingIs
  <2> QED
    BY <2>4, <2>5
<1>18. RulesHold'
  <2>1. dups' \cap Enforced(view \ invalid) = {}
    BY <1>2, <1>5 DEF RulesHold
  <2>2. lock' # Nobody => view' = view
    BY <1>5, <1>8
  <2> QED
    BY <1>5, <2>1, <2>2 DEF RulesHold, Enforced
<1>19. \A w \in Ways, v \in Revisions : <<w, v>> \in Early \cap cut =>
         <<w, v>> \in cut' /\ ObjectAt(w, v, First(w, v)) \in view
  <2> SUFFICES ASSUME NEW w \in Ways, NEW v \in Revisions, <<w, v>> \in Early \cap cut
               PROVE  <<w, v>> \in cut' /\ ObjectAt(w, v, First(w, v)) \in view
    OBVIOUS
  <2>1. v # rev /\ ObjectAt(w, v, First(w, v)) \in view
    BY <1>1, <1>4, EarlyElsewhere
  <2> QED
    BY <1>5, <2>1
<1>20. Blocked'
  <2> SUFFICES ASSUME NEW w \in Ways, NEW v \in Revisions, <<w, v>> \in Early \cap cut'
               PROVE  /\ ObjectAt(w, v, First(w, v)) \in schema'
                      /\ \A s \in Runners :
                           run'[s].pc = "running" /\ run'[s].way = w /\ run'[s].rev = v =>
                             run'[s].next <= First(w, v)
    BY DEF Blocked
  <2>1. <<w, v>> \in Early \cap cut
    BY <1>5
  <2>2. \A s \in Runners : run'[s].pc = "running" => run'[s].next = 1
    BY <1>8, <1>9, WorkingIs DEF Idle
  <2>3. First(w, v) >= 1
    BY DEF First
  <2> QED
    BY <1>5, <1>19, <2>1, <2>2, <2>3
<1>21. OnlySomeGetStuck'
  <2>1. \A pair \in cut : \E w \in Ways, v \in Revisions : pair = <<w, v>>
    BY DEF ShapeOK
  <2> QED
    BY <1>5, <1>19, <2>1 DEF OnlySomeGetStuck, Early
<1> QED
  BY <1>12, <1>13, <1>14, <1>16, <1>17, <1>18, <1>20, <1>21

-----------------------------------------------------------------------------
(* The ends and beginnings of a run                                        *)

\* Arithmetic: a script of one statement ends at the second.
LEMMA NoFurther ==
  ASSUME NEW next \in Nat, NEW length, length = 1, next <= length + 1
  PROVE  next <= 2
OBVIOUS

\* A run is split when it is past its first commit.
LEMMA SplitIs ==
  ASSUME MigrationInv, NEW r \in Runners,
         NEW way \in Ways, NEW rev \in Revisions, NEW next \in Nat \ {0},
         At(r, way, rev, next)
  PROVE  Split(r) <=> next > Middle(way, rev)
<1> USE DEF MigrationInv
<1>1. /\ run[r].way = way /\ run[r].rev = rev /\ run[r].next = next
  BY WorksAlone
<1> PICK length : length = Len(Script(way, rev))
  OBVIOUS
<1> next <= length + 1
  BY WorksAlone
<1>2. Revision(r) = Script(way, rev)
  BY <1>1 DEF Revision, Script
<1>3. /\ Len(Script(way, rev)) \in Nat /\ Timed(way, rev)
      /\ Middle(way, rev) \in Nat /\ Middle(way, rev) >= 1
  <2>1. Len(Script(way, rev)) \in Nat /\ Timed(way, rev)
    BY ScriptsWellMade DEF WellMade
  <2>2. Middle(way, rev) \in Nat /\ Middle(way, rev) >= 1
    BY DEF Middle
  <2> QED
    BY <2>1, <2>2
<1>4. ASSUME Split(r) PROVE next > Middle(way, rev)
  <2>1. PICK i \in 1..(next - 1) : Script(way, rev)[i] = Commit
    BY <1>1, <1>2, <1>4 DEF Split
  <2>2. i \in Steps(way, rev) /\ KindAt(way, rev, i) = "commit"
    BY <1>1, <1>3, <2>1, CommitIs DEF Steps, KindAt
  <2>3. i = Middle(way, rev)
    BY <1>3, <2>2 DEF Timed
  <2> QED
    BY <1>3, <2>1, <2>3
<1>5. ASSUME next > Middle(way, rev) PROVE Split(r)
  <2>1. <<way, rev>> # <<"down", 10>>
    <3> SUFFICES ASSUME way = "down", rev = 10 PROVE FALSE
      OBVIOUS
    <3>1. length = 1
      BY ReadsDown10
    <3>2. Middle(way, rev) = 2
      BY DEF Middle
    <3>3. next <= 2
      <4> HIDE DEF MigrationInv
      <4> QED
        BY <3>1, NoFurther
    <3> QED
      BY <1>5, <3>2, <3>3
  <2>2. Script(way, rev)[Middle(way, rev)] = Commit
    BY <2>1, Commits
  <2>3. Middle(way, rev) \in 1..(next - 1)
    BY <1>3, <1>5
  <2> QED
    BY <1>1, <1>2, <2>2, <2>3 DEF Split
<1> QED
  BY <1>4, <1>5

\* A run that is not at work comes, goes or waits.
LEMMA IdleRuns ==
  ASSUME MigrationInv, NEW r \in Runners, NEW job \in Job, job.pc # "running", job.next = 1,
         run[r].pc # "running", run' = [run EXCEPT ![r] = job],
         UNCHANGED <<database, dups, view, deduped, lock, cut, stuck>>
  PROVE  MigrationInv'
<1> USE DEF MigrationInv, database
<1>1. run \in [Runners -> Job]
  BY DEF ShapeOK
<1>2. run'[r] = job /\ \A s \in Runners : s # r => run'[s] = run[s]
  BY <1>1
<1>3. \A s \in Runners : /\ run'[s].pc = "running" <=> run[s].pc = "running"
                         /\ run'[s].pc = "running" => run'[s] = run[s]
  BY <1>2
<1>4. ShapeOK'
  BY <1>1 DEF ShapeOK
<1>5. Turns'
  BY <1>2, <1>3 DEF Turns
<1>6. Unstamped'
  BY DEF Unstamped
<1>7. \A w \in Ways, v \in Revisions : HalfWay(w, v)' <=> HalfWay(w, v)
  BY <1>3 DEF HalfWay
<1>8. Settled'
  BY <1>7 DEF Settled, Untouched, Right
<1>9. Progress'
  <2> SUFFICES ASSUME NEW s \in Runners, run'[s].pc = "running"
               PROVE  Sees(run[s].way, run[s].rev, run[s].next)'
    BY DEF Progress
  <2>1. Sees(run[s].way, run[s].rev, run[s].next) /\ run'[s] = run[s]
    BY <1>3 DEF Progress
  <2> QED
    BY <2>1 DEF Sees, Reflected
<1>10. RulesHold'
  BY DEF RulesHold, Enforced
<1>11. Blocked'
  BY <1>3 DEF Blocked
<1>12. OnlySomeGetStuck'
  BY DEF OnlySomeGetStuck
<1> QED
  BY <1>4, <1>5, <1>6, <1>8, <1>9, <1>10, <1>11, <1>12

\* The run at work ends; at the most, an index of its second part is left changed.
LEMMA WorkEnds ==
  ASSUME MigrationInv, NEW r \in Runners,
         NEW way \in Ways, NEW rev \in Revisions, NEW next \in Nat \ {0},
         At(r, way, rev, next), Stop(r),
         stamp' = stamp, dups' = dups, view' = view, stuck' \in BOOLEAN,
         stuck' => cut' \cap Early # {},
         schema \subseteq schema', schema' \subseteq Objects,
         invalid' \subseteq schema' \cap Indexes,
         \A o \in Objects :
           \/ (o \in schema' <=> o \in schema) /\ (o \in invalid' <=> o \in invalid)
           \/ next > Middle(way, rev) /\ o \in Indexes \cap Owns(rev),
         schema' \ invalid' \subseteq schema \ invalid
  PROVE  MigrationInv'
<1> USE DEF MigrationInv
<1>1. /\ lock = r /\ lock # Nobody /\ stamp = Before(way, rev)
      /\ run[r].pc = "running" /\ run[r].way = way /\ run[r].rev = rev /\ run[r].next = next
      /\ \A s \in Runners : s # r => run[s].pc # "running"
  BY WorksAlone, ConstantsOK
<1>2. cut' = IF next > Middle(way, rev) THEN cut \cup {<<way, rev>>} ELSE cut
  BY <1>1, SplitIs DEF Stop
<1>3. lock' = Nobody /\ run' = [run EXCEPT ![r] = Idle] /\ run \in [Runners -> Job]
  BY <1>1 DEF Stop, ShapeOK
<1>4. run'[r] = Idle /\ \A s \in Runners : s # r => run'[s] = run[s]
  BY <1>3
<1>5. \A s \in Runners : run'[s].pc # "running"
  BY <1>1, <1>4 DEF Idle
<1>6. ShapeOK'
  <2>1. Idle \in Job
    BY DEF Idle, Job, Ways, Revisions
  <2>2. run' \in [Runners -> Job]
    BY <1>3, <2>1
  <2>3. cut' \subseteq Ways \X Revisions
    BY <1>2 DEF ShapeOK
  <2> QED
    BY <1>3, <2>2, <2>3 DEF ShapeOK
<1>7. Turns'
  BY <1>1, <1>3, <1>4, <1>5, ConstantsOK DEF Turns, Idle
<1>8. Unstamped'
  <2>1. /\ way = "up" => stamp = rev - 1
        /\ way = "down" => stamp = rev
    BY <1>1 DEF Before
  <2>2. ASSUME NEW v \in Revisions, <<"up", v>> \in cut' PROVE stamp < v
    <3>1. <<"up", v>> \in cut \/ (way = "up" /\ rev = v)
      BY <1>2, <2>2
    <3> QED
      BY <2>1, <3>1 DEF Unstamped, Revisions
  <2>3. ASSUME NEW v \in Revisions, <<"down", v>> \in cut' PROVE stamp >= v
    <3>1. <<"down", v>> \in cut \/ (way = "down" /\ rev = v)
      BY <1>2, <2>3
    <3> QED
      BY <2>1, <3>1 DEF Unstamped, Revisions
  <2> QED
    BY <2>2, <2>3 DEF Unstamped
<1>9. \A w \in Ways, v \in Revisions : HalfWay(w, v)' <=> HalfWay(w, v)
  <2> SUFFICES ASSUME NEW w \in Ways, NEW v \in Revisions
               PROVE  HalfWay(w, v)' <=> HalfWay(w, v)
    OBVIOUS
  <2>1. HalfWay(w, v)' <=> <<w, v>> \in cut'
    BY <1>5 DEF HalfWay
  <2>2. HalfWay(w, v) <=>
          <<w, v>> \in cut \/ (w = way /\ v = rev /\ next > Middle(way, rev))
    BY <1>1 DEF HalfWay
  <2> QED
    BY <1>2, <2>1, <2>2
<1>10. Settled'
  <2> SUFFICES ASSUME NEW v \in Revisions, NEW o \in Owns(v), Untouched(v, o)'
               PROVE  Right(o)'
    BY DEF Settled
  <2>1. Untouched(v, o) /\ o \in Objects
    BY <1>9 DEF Untouched, Objects
  <2>2. Right(o)
    BY <2>1 DEF Settled
  <2>3. ~(next > Middle(way, rev) /\ o \in Indexes \cap Owns(rev))
    <3> SUFFICES ASSUME next > Middle(way, rev), o \in Indexes \cap Owns(rev) PROVE FALSE
      OBVIOUS
    <3>1. v = rev /\ HalfWay(way, rev)
      BY <1>1, OneOwner DEF HalfWay
    <3> QED
      BY <2>1, <3>1 DEF Untouched
  <2> QED
    BY <2>1, <2>2, <2>3 DEF Right
<1>11. Progress'
  BY <1>5 DEF Progress
<1>12. RulesHold'
  <2>1. dups' \cap Enforced(schema' \ invalid') = {}
    BY DEF RulesHold, Enforced
  <2> QED
    BY <1>3, <2>1 DEF RulesHold, Enforced
<1>13. Blocked'
  <2> SUFFICES ASSUME NEW w \in Ways, NEW v \in Revisions, <<w, v>> \in Early \cap cut'
               PROVE  ObjectAt(w, v, First(w, v)) \in schema
    BY <1>5 DEF Blocked
  <2>1. CASE <<w, v>> \in cut
    BY <2>1 DEF Blocked
  <2>2. CASE w = way /\ v = rev /\ next > Middle(way, rev)
    <3>1. /\ First(way, rev) < Middle(way, rev) /\ First(way, rev) \in Steps(way, rev)
          /\ KindAt(way, rev, First(way, rev)) = "create"
          /\ First(way, rev) \in Nat /\ Middle(way, rev) \in Nat
      BY <2>2, ScriptsWellMade DEF WellMade, First, Middle
    <3>2. Reflected(way, rev, next, First(way, rev))
      BY <1>1, <3>1 DEF Progress, Sees
    <3>3. First(way, rev) < next
      BY <2>2, <3>1
    <3>4. ObjectAt(way, rev, First(way, rev)) \in SchemaAt(After(way, rev))
      BY <3>1, Touches DEF Makers
    <3> QED
      BY <2>2, <3>1, <3>2, <3>3, <3>4 DEF Reflected, Changes, Makers
  <2> QED
    BY <1>2, <2>1, <2>2
<1>14. OnlySomeGetStuck'
  BY DEF OnlySomeGetStuck, Early
<1> QED
  BY <1>6, <1>7, <1>8, <1>10, <1>11, <1>12, <1>13, <1>14

\* A queued run that is killed has done nothing.
LEMMA KillStep ==
  ASSUME MigrationInv, NEW r \in Runners, Kill(r)
  PROVE  MigrationInv'
<1> USE DEF MigrationInv
<1>1. Stop(r) /\ UNCHANGED <<database, dups, view, deduped, runs, stuck>>
  BY DEF Kill
<1>2. cut \subseteq cut'
  BY <1>1 DEF Stop
<1>3. CASE run[r].pc = "running"
  <2>1. PICK way \in Ways, rev \in Revisions, next \in Nat \ {0} : At(r, way, rev, next)
    BY <1>3, AtWork
  <2>2. stuck' => cut' \cap Early # {}
    BY <1>1, <1>2 DEF OnlySomeGetStuck, Early
  <2>3. /\ schema' = schema /\ invalid' = invalid /\ stamp' = stamp /\ dups' = dups
        /\ view' = view /\ stuck' = stuck
    BY <1>1 DEF database
  <2> QED
    BY <1>1, <2>1, <2>2, <2>3, WorkEnds DEF ShapeOK
<1>4. CASE run[r].pc # "running"
  <2>1. run[r].next = 1 /\ lock # r
    BY <1>4 DEF Turns
  <2>2. ~Split(r)
    BY <2>1 DEF Split
  <2>3. cut' = cut /\ lock' = lock /\ run' = [run EXCEPT ![r] = Idle]
    BY <1>1, <2>1, <2>2 DEF Stop
  <2>4. Idle \in Job /\ Idle.pc # "running" /\ Idle.next = 1
    BY DEF Idle, Job, Ways, Revisions
  <2> QED
    BY <1>1, <1>4, <2>3, <2>4, IdleRuns
<1> QED
  BY <1>3, <1>4

\* A cancelled build leaves an invalid index of the second part.
LEMMA CancelStep ==
  ASSUME MigrationInv, NEW r \in Runners, BuildCancelled(r)
  PROVE  MigrationInv'
<1> USE DEF MigrationInv
<1>1. PICK p : p = Statement(r).object
  OBVIOUS
<1>2. /\ Doing(r, "build") /\ Stop(r)
      /\ schema' = schema \cup {p} /\ invalid' = invalid \cup {p}
      /\ ~(p \in schema \ invalid)
      /\ UNCHANGED <<stamp, dups, view, deduped, runs, stuck>>
  BY <1>1 DEF BuildCancelled, Standing
<1>3. PICK way \in Ways, rev \in Revisions, next \in Nat \ {0} :
        At(r, way, rev, next) /\ Revision(r) = Script(way, rev)
  BY <1>2, AtWork DEF Doing
<1>4. run[r].next = next
  BY <1>3, WorksAlone
<1>5. /\ next \in Steps(way, rev) /\ KindAt(way, rev, next) = "build"
      /\ ObjectAt(way, rev, next) = p
  BY <1>1, <1>2, <1>3, <1>4, ScriptsWellMade
     DEF WellMade, Doing, Statement, Steps, KindAt, ObjectAt
<1>6. p \in Objects /\ p \in Owns(rev) /\ p \in Indexes /\ next > Middle(way, rev)
  <2>1. p \in Indexes /\ next > Middle(way, rev)
    BY <1>5, ScriptsWellMade DEF WellMade, Timed
  <2> QED
    BY <1>5, <2>1, OwnObject, Touches DEF Changes, Makers
<1>7. stuck' => cut' \cap Early # {}
  BY <1>2 DEF OnlySomeGetStuck, Early, Stop
<1>8. /\ schema \subseteq schema' /\ schema' \subseteq Objects
      /\ invalid' \subseteq schema' \cap Indexes
      /\ schema' \ invalid' \subseteq schema \ invalid
  BY <1>2, <1>6 DEF ShapeOK
<1>9. \A o \in Objects :
        \/ (o \in schema' <=> o \in schema) /\ (o \in invalid' <=> o \in invalid)
        \/ next > Middle(way, rev) /\ o \in Indexes \cap Owns(rev)
  BY <1>2, <1>6
<1>10. stuck' \in BOOLEAN /\ stamp' = stamp /\ dups' = dups /\ view' = view
  BY <1>2 DEF ShapeOK
<1> QED
  BY <1>2, <1>3, <1>7, <1>8, <1>9, <1>10, WorkEnds

\* A statement that finds its object already there, or gone, finds what a cut run of
\* an early script committed.
LEMMA FailStep ==
  ASSUME MigrationInv, NEW r \in Runners, Fail(r)
  PROVE  MigrationInv'
<1> USE DEF MigrationInv
<1>1. PICK p : p = Statement(r).object
  OBVIOUS
<1>2. PICK clash \in BOOLEAN :
        clash <=> \/ Doing(r, "create") /\ p \in view
                  \/ Doing(r, "drop") /\ p \notin view
  OBVIOUS
<1>3. /\ stuck' = (stuck \/ clash) /\ Stop(r)
      /\ UNCHANGED <<database, dups, view, deduped, runs>>
      /\ run[r].pc = "running"
  BY <1>1, <1>2 DEF Fail, Doing
<1>4. PICK way \in Ways, rev \in Revisions, next \in Nat \ {0} :
        At(r, way, rev, next) /\ Revision(r) = Script(way, rev)
  BY <1>3, AtWork
<1>5. /\ run[r].way = way /\ run[r].rev = rev /\ run[r].next = next
      /\ lock = r /\ stamp = Before(way, rev)
      /\ \A s \in Runners : s # r => run[s].pc # "running"
  BY <1>4, WorksAlone
<1>6. ASSUME clash PROVE cut \cap Early # {}
  <2>1. /\ next \in Steps(way, rev) /\ KindAt(way, rev, next) \in {"create", "drop"}
        /\ ObjectAt(way, rev, next) = p
        /\ KindAt(way, rev, next) = "create" <=> p \in view
    BY <1>1, <1>2, <1>4, <1>5, <1>6, ScriptsWellMade
       DEF WellMade, Doing, Statement, Steps, KindAt, ObjectAt
  <2>2. /\ p \in Owns(rev) /\ p \notin Indexes
        /\ KindAt(way, rev, next) = "create" <=> p \notin SchemaAt(stamp)
    <3>1. p \notin Indexes
      BY <2>1, ScriptsWellMade DEF WellMade, Timed
    <3> QED
      BY <1>5, <2>1, <3>1, Touches DEF Changes, Makers, Takers
  <2>3. p \in view <=> p \in schema
    <3>1. Reflected(way, rev, next, next)
      BY <1>3, <1>5, <2>1 DEF Progress, Sees
    <3> QED
      BY <2>1, <3>1 DEF Reflected, Changes, Makers, Takers
  <2>4. ~Right(p)
    BY <2>1, <2>2, <2>3 DEF Right
  <2>5. PICK w \in Ways : HalfWay(w, rev) /\ <<w, rev>> \in Early
    BY <2>2, <2>4 DEF Settled, Untouched
  <2>6. ~(w = way /\ next > Middle(way, rev))
    <3>1. <<way, rev>> \in Early => next < Middle(way, rev)
      BY <2>1, ScriptsWellMade DEF WellMade, Timed
    <3>2. Middle(way, rev) \in Nat
      BY DEF Middle
    <3> QED
      BY <2>5, <3>1, <3>2
  <2>7. <<w, rev>> \in cut
    BY <1>5, <2>5, <2>6 DEF HalfWay
  <2> QED
    BY <2>5, <2>7
<1>7. stuck' => cut' \cap Early # {}
  <2>1. cut \subseteq cut'
    BY <1>3 DEF Stop
  <2> QED
    BY <1>3, <1>6, <2>1 DEF OnlySomeGetStuck, Early
<1>8. /\ schema' = schema /\ invalid' = invalid /\ stamp' = stamp /\ dups' = dups
      /\ view' = view /\ stuck' \in BOOLEAN
  BY <1>3 DEF database, ShapeOK
<1> QED
  BY <1>3, <1>4, <1>7, <1>8, WorkEnds DEF ShapeOK

\* An idle run that starts is queued for its way.
LEMMA Queued ==
  ASSUME NEW way \in Ways
  PROVE  [Idle EXCEPT !.pc = "queued", !.way = way]
         \in [pc : {"queued"}, way : Ways, rev : {7}, next : {1}]
BY DEF Idle

\* A run starts: it waits for the lock and has seen nothing.
LEMMA StartStep ==
  ASSUME MigrationInv, NEW r \in Runners, Start(r)
  PROVE  MigrationInv'
<1>1. PICK way \in Ways :
        run' = [run EXCEPT ![r] = [run[r] EXCEPT !.pc = "queued", !.way = way]]
  BY DEF Start, Ways
<1>2. /\ run[r] = Idle
      /\ UNCHANGED <<database, dups, view, deduped, lock, cut, stuck>>
  BY DEF Start
<1>3. run[r].pc # "running"
  BY <1>2 DEF Idle
<1>4. PICK job : job = [run[r] EXCEPT !.pc = "queued", !.way = way]
  OBVIOUS
<1>5. job \in [pc : {"queued"}, way : Ways, rev : {7}, next : {1}]
  BY <1>2, <1>4, Queued
<1>6. job \in Job /\ job.pc # "running" /\ job.next = 1
  BY <1>5 DEF Job, Revisions
<1> QED
  BY <1>1, <1>2, <1>3, <1>4, <1>6, IdleRuns

\* A transaction begins on what is committed.
LEMMA BeginStep ==
  ASSUME MigrationInv, NEW r \in Runners, LockAndBegin(r)
  PROVE  MigrationInv'
<1> USE DEF MigrationInv
<1>1. /\ run[r].pc = "queued" /\ lock = Nobody
      /\ UNCHANGED <<database, dups, runs, cut, stuck>>
      /\ run \in [Runners -> Job] /\ stamp \in 6..10
  BY DEF LockAndBegin, ShapeOK
<1>2. \A s \in Runners : run[s].pc # "running"
  BY <1>1, ConstantsOK DEF Turns
<1>3. CASE ~Todo(run[r].way)
  <2>1. run' = [run EXCEPT ![r] = Idle] /\ UNCHANGED <<view, deduped, lock>>
    BY <1>3 DEF LockAndBegin
  <2>2. Idle \in Job /\ Idle.pc # "running" /\ Idle.next = 1
    BY DEF Idle, Job, Ways, Revisions
  <2> QED
    BY <1>1, <1>2, <2>1, <2>2, IdleRuns
<1>4. CASE Todo(run[r].way)
  <2>1. PICK way \in Ways : way = run[r].way
    BY <1>1 DEF Job
  <2>2. PICK rev : rev = IF way = "up" THEN stamp + 1 ELSE stamp
    OBVIOUS
  <2>3. rev \in Revisions /\ stamp = Before(way, rev)
    <3>1. CASE way = "up"
      BY <1>1, <1>4, <2>1, <2>2, <3>1 DEF Todo, Revisions, Before
    <3>2. CASE way = "down"
      BY <1>1, <1>4, <2>1, <2>2, <3>2 DEF Todo, Revisions, Before
    <3> QED
      BY <3>1, <3>2 DEF Ways
  <2>4. /\ schema' = schema /\ invalid' = invalid /\ stamp' = stamp
        /\ dups' = dups /\ cut' = cut /\ stuck' = stuck
    BY <1>1 DEF database
  <2>5. /\ run' = [run EXCEPT ![r] = Working(way, rev, 1)]
        /\ view' = schema /\ deduped' = {} /\ lock' = r
    BY <1>4, <2>1, <2>2, <2>4 DEF LockAndBegin, Enter, Working
  <2>6. /\ run'[r] = Working(way, rev, 1)
        /\ \A s \in Runners : s # r => run'[s] = run[s] /\ run'[s].pc # "running"
    BY <1>1, <1>2, <2>5
  <2>7. Working(way, rev, 1) \in Job
    BY <2>3 DEF Working, Job
  <2>8. ShapeOK'
    <3>1. run' \in [Runners -> Job]
      BY <1>1, <2>5, <2>7
    <3> QED
      BY <2>4, <2>5, <3>1 DEF ShapeOK
  <2>9. Turns'
    <3>1. 1 <= Len(Script(way, rev)) + 1
      <4>1. Len(Script(way, rev)) \in Nat
        BY <2>3, ScriptsWellMade DEF WellMade
      <4> QED
        BY <4>1
    <3> SUFFICES ASSUME NEW s \in Runners
                 PROVE  /\ run'[s].pc = "running" <=> lock' = s
                        /\ run'[s].pc # "running" => run'[s].next = 1
                        /\ run'[s].pc = "running" =>
                             /\ run'[s].next <= Len(Script(run'[s].way, run'[s].rev)) + 1
                             /\ stamp' = Before(run'[s].way, run'[s].rev)
      BY DEF Turns
    <3>2. CASE s = r
      BY <2>3, <2>4, <2>5, <2>6, <3>1, <3>2, WorkingIs
    <3>3. CASE s # r
      BY <1>2, <2>5, <2>6, <3>3 DEF Turns
    <3> QED
      BY <3>2, <3>3
  <2>10. Unstamped'
    BY <2>4 DEF Unstamped
  <2>11. ~(1 > Middle(way, rev)) /\ \A w \in Ways, v \in Revisions : First(w, v) >= 1
    BY DEF Middle, First
  <2>12. \A w \in Ways, v \in Revisions : HalfWay(w, v)' <=> HalfWay(w, v)
    <3> SUFFICES ASSUME NEW w \in Ways, NEW v \in Revisions
                 PROVE  HalfWay(w, v)' <=> HalfWay(w, v)
      OBVIOUS
    <3>1. HalfWay(w, v) <=> <<w, v>> \in cut
      BY <1>2 DEF HalfWay
    <3>2. HalfWay(w, v)' <=> <<w, v>> \in cut
      BY <2>4, <2>6, <2>11, WorkingIs DEF HalfWay
    <3> QED
      BY <3>1, <3>2
  <2>13. Settled'
    BY <2>4, <2>12 DEF Settled, Untouched, Right
  <2>14. Progress'
    <3> SUFFICES ASSUME NEW s \in Runners, run'[s].pc = "running"
                 PROVE  Sees(run[s].way, run[s].rev, run[s].next)'
      BY DEF Progress
    <3>1. \A i \in Steps(way, rev) : ~(i < 1)
      BY DEF Steps
    <3>2. Sees(way, rev, 1)'
      BY <2>4, <2>5, <2>11, <3>1 DEF Sees, Reflected
    <3> QED
      BY <2>6, <3>2, WorkingIs
  <2>15. RulesHold'
    BY <2>4, <2>5 DEF RulesHold, Enforced
  <2>16. Blocked'
    <3>1. \A s \in Runners : run'[s].pc = "running" => run'[s].next = 1
      BY <2>6, WorkingIs
    <3> QED
      BY <2>4, <2>11, <3>1 DEF Blocked
  <2>17. OnlySomeGetStuck'
    BY <2>4, StuckStays
  <2> QED
    BY <2>8, <2>9, <2>10, <2>13, <2>14, <2>15, <2>16, <2>17
<1> QED
  BY <1>3, <1>4

\* The application writes only what nothing enforces.
LEMMA WriteStep ==
  ASSUME MigrationInv, NEW rule, Write(rule)
  PROVE  MigrationInv'
<1> USE DEF MigrationInv, database
<1>1. /\ dups' = dups \cup {rule} /\ deduped' = deduped \ {rule}
      /\ UNCHANGED <<schema, invalid, stamp, view, lock, run, runs, cut, stuck>>
      /\ rule \notin Enforced(schema \ invalid)
      /\ lock # Nobody => rule \notin Enforced(view \ invalid)
  BY DEF Write
<1>2. ShapeOK' /\ Turns' /\ Unstamped'
  BY <1>1 DEF ShapeOK, Turns, Unstamped
<1>3. Settled' /\ Blocked' /\ OnlySomeGetStuck'
  BY <1>1 DEF Settled, Untouched, HalfWay, Right, Blocked, OnlySomeGetStuck
<1>4. Progress'
  <2> SUFFICES ASSUME NEW s \in Runners, run[s].pc = "running"
               PROVE  Sees(run[s].way, run[s].rev, run[s].next)'
    BY <1>1 DEF Progress
  <2>1. Sees(run[s].way, run[s].rev, run[s].next)
    BY DEF Progress
  <2> QED
    BY <1>1, <2>1 DEF Sees, Reflected
<1>5. RulesHold'
  <2>1. dups' \cap Enforced(schema' \ invalid') = {}
    BY <1>1 DEF RulesHold, Enforced
  <2>2. lock' # Nobody => (dups' \ deduped') \cap Enforced(view' \ invalid') = {}
    <3> SUFFICES ASSUME lock # Nobody
                 PROVE  (dups' \ deduped') \cap Enforced(view \ invalid) = {}
      BY <1>1 DEF Enforced
    <3>1. (dups \ deduped) \cap Enforced(view \ invalid) = {}
      BY DEF RulesHold
    <3>2. dups' \ deduped' \subseteq (dups \ deduped) \cup {rule}
      BY <1>1
    <3> QED
      BY <1>1, <3>1, <3>2
  <2> QED
    BY <2>1, <2>2 DEF RulesHold, Enforced
<1> QED
  BY <1>2, <1>3, <1>4, <1>5

\* Revision 006, with nobody at work.
LEMMA MigrationStarts == Init => MigrationInv
<1> SUFFICES ASSUME Init PROVE MigrationInv
  OBVIOUS
<1>1. /\ schema = SchemaAt(6) /\ Schema006 \subseteq Objects
  <2>1. 7..6 = {}
    OBVIOUS
  <2>2. SchemaAt(6) = Schema006
    BY <2>1 DEF SchemaAt
  <2> QED
    BY <2>2, SchemaOwned DEF Init
<1>2. Idle \in Job /\ Idle.pc # "running" /\ Idle.next = 1
  BY DEF Idle, Job, Ways, Revisions
<1>3. ShapeOK
  <2>1. run \in [Runners -> Job]
    BY <1>2 DEF Init
  <2>2. schema \subseteq Objects /\ view \subseteq Objects /\ invalid \subseteq schema \cap Indexes
    BY <1>1 DEF Init
  <2>3. stamp = 6 /\ cut = {} /\ stuck = FALSE
    BY DEF Init
  <2>4. stamp \in 6..10
    BY <2>3
  <2>5. cut \subseteq Ways \X Revisions
    BY <2>3, Zenon
  <2>6. stuck \in BOOLEAN
    BY <2>3
  <2>7. lock \in Runners \cup {Nobody}
    BY DEF Init
  <2> QED
    BY <2>1, <2>2, <2>4, <2>5, <2>6, <2>7 DEF ShapeOK
<1> Turns
  BY <1>2, ConstantsOK DEF Init, Turns
<1>4. Unstamped /\ Blocked /\ OnlySomeGetStuck
  BY DEF Init, Unstamped, Blocked, OnlySomeGetStuck
<1>5. Settled
  BY <1>1 DEF Init, Settled, Right
<1>6. Progress /\ RulesHold
  BY <1>2 DEF Init, Progress, RulesHold
<1> QED
  BY <1>3, <1>4, <1>5, <1>6 DEF MigrationInv

-----------------------------------------------------------------------------
(* Theorems                                                                *)

\* Wherever runs are killed, builds cancelled and rows written, an object is out of
\* step with the stamp only if a script of its revision is half-way and touched it;
\* what a run sees is what its statements so far have made of it.
THEOREM MigrationInductive == Spec => []MigrationInv
<1>1. MigrationInv /\ [Next]_vars => MigrationInv'
  <2> SUFFICES ASSUME MigrationInv, [Next]_vars PROVE MigrationInv'
    OBVIOUS
  <2>1. ASSUME NEW r \in Runners, Execute(r) PROVE MigrationInv'
    BY <2>1, QuietStep, CreateStep, DropStep, CommitStep, BuildStep, CancelStep,
       UnbuildStep, StampStep, FailStep DEF Execute
  <2>2. ASSUME NEW r \in Runners, Start(r) \/ LockAndBegin(r) \/ Kill(r) PROVE MigrationInv'
    BY <2>2, StartStep, BeginStep, KillStep
  <2>3. ASSUME NEW object \in DOMAIN RuleOf, Write(RuleOf[object]) PROVE MigrationInv'
    BY <2>3, WriteStep
  <2>4. CASE UNCHANGED vars
    <3>1. UNCHANGED <<schema, invalid, stamp, dups, view, deduped, lock, run, cut, stuck>>
      BY <2>4 DEF vars, database
    <3>2. (ShapeOK /\ Turns /\ Unstamped /\ Blocked /\ OnlySomeGetStuck)'
      BY <3>1 DEF MigrationInv, ShapeOK, Turns, Unstamped, Blocked, OnlySomeGetStuck
    <3>3. Settled'
      BY <3>1 DEF MigrationInv, Settled, Untouched, HalfWay, Right
    <3>4. \A way, rev, next, i : Reflected(way, rev, next, i)' <=> Reflected(way, rev, next, i)
      BY <3>1 DEF Reflected
    <3>5. \A way, rev, next : Sees(way, rev, next)' <=> Sees(way, rev, next)
      BY <3>1, <3>4 DEF Sees
    <3>6. Progress'
      BY <3>1, <3>5 DEF MigrationInv, Progress
    <3>7. RulesHold'
      BY <3>1 DEF MigrationInv, RulesHold
    <3> QED
      BY <3>2, <3>3, <3>6, <3>7 DEF MigrationInv
  <2> QED
    BY <2>1, <2>2, <2>3, <2>4 DEF Next
<1> QED
  BY MigrationStarts, <1>1, PTL DEF Spec

\* With nobody at work and no script left between its two commits, the schema is the
\* one of the stamp, its indexes are valid, and every row keeps its rules: runs that
\* were killed, cancelled or failed anywhere else leave no trace.
THEOREM StampTellsSchemaHolds == Spec => []StampTellsSchema
<1>1. MigrationInv => StampTellsSchema
  <2> SUFFICES ASSUME MigrationInv, cut = {}, lock = Nobody
               PROVE  /\ schema = SchemaAt(stamp)
                      /\ invalid = {}
                      /\ dups \cap Enforced(schema) = {}
    BY DEF StampTellsSchema
  <2> USE DEF MigrationInv
  <2>1. \A w \in Ways, v \in Revisions : ~HalfWay(w, v)
    BY ConstantsOK DEF HalfWay, Turns
  <2>2. \A o \in Objects : Right(o)
    BY <2>1 DEF Objects, Settled, Untouched
  <2>3. schema \subseteq Objects /\ SchemaAt(stamp) \subseteq Objects /\ invalid \subseteq Objects
    BY SchemaOwned DEF ShapeOK
  <2>4. schema = SchemaAt(stamp) /\ invalid = {}
    BY <2>2, <2>3 DEF Right
  <2>5. schema \ invalid = schema
    BY <2>4
  <2> QED
    BY <2>4, <2>5 DEF RulesHold
<1> QED
  BY MigrationInductive, <1>1, PTL

\* A run stumbles only over what a cut run of 007 or 010 up, or of 009 down, left:
\* every other script can be made again from wherever it was cut.
THEOREM OnlySomeGetStuckHolds == Spec => []OnlySomeGetStuck
<1>1. MigrationInv => OnlySomeGetStuck
  BY DEF MigrationInv
<1> QED
  BY MigrationInductive, <1>1, PTL
=============================================================================
