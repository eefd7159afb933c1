----------------------------- MODULE Attendance -----------------------------
(***************************************************************************)
(* AttendanceService, BreakService and WageService: attendances with a     *)
(* photo of the clock-in and maybe one of the clock-out, and the breaks    *)
(* and wages that belong to an attendance.  Rows go by DELETE.             *)
(*                                                                         *)
(* A photo is a file in uploads/ named after the millisecond it is written *)
(* in, a number here; the photos considered have one extension.  A photo   *)
(* is unlinked by a call that nobody waits for: it is under way beside     *)
(* everything else, and when it finds no file its rejection reaches nobody *)
(* and the process ends.  Users and stores do not change here.             *)
(***************************************************************************)
EXTENDS Tables

CONSTANTS
    LastMillisecond,   \* uploads happen in milliseconds up to this one
    ClockOut,          \* times to clock out
    Value              \* the span of a break, the rate of a wage

ASSUME MillisecondAssumption == LastMillisecond \in Nat

VARIABLES
    files,     \* photos in uploads/
    now,       \* the millisecond of the last upload
    unlinks,   \* calls under way: [by, name, of]
    shared,    \* history: names that two uploads took
    taken,     \* history: who called for which name to be unlinked
    lost       \* history: calls that found no file, [call, failed], and the
               \* requests that had failed before

photoVars == <<files, now, unlinks, shared, taken, lost>>

Photo == {"in", "out"}    \* clockInImageUrl and clockOutImageUrl

AttendanceRow(clockOut, photos) ==
    Over(photos, [at |-> "live", clockOut |-> clockOut, in |-> Null, out |-> Null])
EntryRow(attendance, value) == [at |-> "live", attendance |-> attendance, value |-> value]

\* Breaks and wages refer to their attendance and refuse its removal.
AttendanceReferences ==
    {[table |-> t, column |-> "attendance", target |-> "attendance", rule |-> "refuse",
      optional |-> FALSE] : t \in {"break", "wage"}}

AttendanceInit(names) ==
    /\ files = names
    /\ now = Cardinality(names)
    /\ unlinks = {} /\ shared = {} /\ taken = {} /\ lost = {}

-----------------------------------------------------------------------------
(* Files.                                                                  *)

\* Names for photos uploaded one after the other, the clock-in first.
FreshNames(photos) ==
    {names \in [photos -> now .. LastMillisecond] :
       /\ \A p \in photos : names[p] <= now + Cardinality(photos)
       /\ photos = Photo => names["in"] <= names["out"]}

Upload(names) ==
    LET used == {names[p] : p \in DOMAIN names}
    IN  /\ files' = files \cup used
        /\ now' = IF used = {} THEN now ELSE CHOOSE n \in used : \A i \in used : i <= n
        /\ shared' = shared \cup (used \cap {now})
                       \cup (IF Cardinality(used) < Cardinality(DOMAIN names) THEN used ELSE {})

\* The photos of rows that request r calls to be unlinked, without waiting.
Takes(r, rows, photos) ==
    LET calls == {[by |-> r, name |-> rows[c[1]][c[2]], of |-> c] :
                    c \in {d \in (DOMAIN rows) \X photos : rows[d[1]][d[2]] # Null}}
    IN  /\ unlinks' = unlinks \cup calls
        /\ taken' = taken \cup {[by |-> u.by, name |-> u.name] : u \in calls}
        /\ UNCHANGED lost

UnlinkDone ==
    \E u \in unlinks :
        /\ u.name \in files
        /\ files' = files \ {u.name}
        /\ unlinks' = unlinks \ {u}
        /\ UNCHANGED <<tableVars, now, shared, taken, lost>>

\* No file: the rejection is nobody's, the process ends and every request
\* with it.  Another process starts from the tables and the files.
UnlinkFails ==
    \E u \in unlinks :
        /\ u.name \notin files
        /\ lost' = lost \cup {[call |-> u, failed |-> {r \in Request : step[r] = "error"}]}
        /\ unlinks' = {}
        /\ step' = [r \in Request |-> IF r \in Open THEN "error" ELSE step[r]]
        /\ mem' = [r \in Request |-> NoMem]
        /\ UNCHANGED <<db, hist, faults, met, files, now, shared, taken>>

-----------------------------------------------------------------------------
(* Attendances.                                                            *)

\* The photos are written before the row; a second one of another type is
\* refused when the first is on disk.
AddAttendance(r) ==
    \E c \in ClockOut \cup {Null}, photos \in {{"in"}, Photo} : \E names \in FreshNames(photos) :
        /\ \/ Begin(r, "attendance.insert", [dto |-> AttendanceRow(c, names)])
           \/ photos = {"in"} /\ Begin(r, "error", NoMem)
        /\ Upload(names)
        /\ UNCHANGED <<db, hist, faults, unlinks, taken, lost>>

AddAttendanceInsert(r) ==
    /\ At(r, "attendance.insert")
    /\ InsertThen(r, Single(<<"attendance", r>>, mem[r].dto), "ok", NoMem)
    /\ UNCHANGED photoVars

EditAttendance(r) ==
    \E a \in Live("attendance"), c \in ClockOut \cup {Null}, photos \in SUBSET Photo :
        /\ Begin(r, "attendance.photos",
              [dto |-> [clockOut |-> c, photos |-> photos],
               rows |-> Single(<<"attendance", a>>, Row("attendance", a))])
        /\ UNCHANGED <<db, hist, faults, photoVars>>

\* What a slip would be: both photos go whichever the body brings.
EditAttendancePhotosBoth(r) ==
    /\ At(r, "attendance.photos")
    /\ LET dto == mem[r].dto
           rows == mem[r].rows
       IN  \E names \in FreshNames(dto.photos) :
             /\ Takes(r, rows, Photo)
             /\ Upload(names)
             /\ Reads(r, "entity.reload",
                  Save([k \in DOMAIN rows |-> Assigned(rows[k], names)], dto.photos))

\* Each photo the body brings takes the place of the old one, which goes
\* first: of a photo of another type, the old one is gone and the edit ends.
EditAttendancePhotos(r) ==
    /\ At(r, "attendance.photos")
    /\ LET dto == mem[r].dto
           rows == mem[r].rows
           values == IF dto.clockOut = Null THEN <<>> ELSE [clockOut |-> dto.clockOut]
       IN  \/ \E names \in FreshNames(dto.photos) :
                /\ Takes(r, rows, dto.photos)
                /\ Upload(names)
                /\ Reads(r, "entity.reload",
                     Save([k \in DOMAIN rows |-> Assigned(rows[k], Over(names, values))],
                          dto.photos \cup DOMAIN values))
           \/ \E bad \in dto.photos :
                LET before == IF bad = "out" THEN dto.photos \cap {"in"} ELSE {}
                IN  \E names \in FreshNames(before) :
                      /\ Takes(r, rows, before \cup {bad})
                      /\ Upload(names)
                      /\ Reads(r, "error", NoMem)

DeleteAttendances(r) ==
    \E ids \in SUBSET Live("attendance") \ {{}} :
        /\ Begin(r, "attendance.unlink",
              [rows |-> [k \in {"attendance"} \X ids |-> db[k]]])
        /\ UNCHANGED <<db, hist, faults, photoVars>>

\* What a slip would be: the photo of the clock-in taken for both.
DeleteAttendancesPhotosTwice(r) ==
    /\ At(r, "attendance.unlink")
    /\ Takes(r, [k \in DOMAIN mem[r].rows |->
                   [mem[r].rows[k] EXCEPT !["out"] = mem[r].rows[k]["in"]]], Photo)
    /\ Reads(r, "attendance.remove", <<>>)
    /\ UNCHANGED <<files, now, shared>>

DeleteAttendancesPhotos(r) ==
    /\ At(r, "attendance.unlink")
    /\ Takes(r, mem[r].rows, Photo)
    /\ Reads(r, "attendance.remove", <<>>)
    /\ UNCHANGED <<files, now, shared>>

\* A break or a wage of one of them refuses the removal of all of them.
DeleteAttendancesRemove(r) ==
    /\ At(r, "attendance.remove")
    /\ RemoveThen(r, DOMAIN mem[r].rows \cap DOMAIN db, "ok", NoMem)
    /\ UNCHANGED photoVars

AttendanceOperation(r) ==
    \/ AddAttendance(r) \/ AddAttendanceInsert(r)
    \/ EditAttendance(r) \/ EditAttendancePhotos(r)
    \/ DeleteAttendances(r) \/ DeleteAttendancesPhotos(r) \/ DeleteAttendancesRemove(r)

-----------------------------------------------------------------------------
(* Breaks and wages; t is the table.                                       *)

AddEntry(r, t) ==
    \E a \in Live("attendance"), v \in Value :
        /\ Begin(r, "entry.insert",
              [rows |-> Single(<<t, r>>, EntryRow(a, v))])
        /\ UNCHANGED <<db, hist, faults>>

AddEntryInsert(r) ==
    /\ At(r, "entry.insert")
    /\ InsertThen(r, mem[r].rows, "ok", NoMem)

EditEntry(r, t) ==
    \E i \in Live(t), a \in Live("attendance"), v \in Value :
        LET values == [attendance |-> a, value |-> v]
        IN  /\ Begin(r, "entity.reload",
                  Save(Single(<<t, i>>, Assigned(Row(t, i), values)), DOMAIN values))
            /\ UNCHANGED <<db, hist, faults>>

DeleteEntry(r, t) ==
    \E i \in Live(t) :
        /\ Begin(r, "entry.remove", [dto |-> <<t, i>>])
        /\ UNCHANGED <<db, hist, faults>>

DeleteEntryRemove(r) ==
    /\ At(r, "entry.remove")
    /\ RemoveThen(r, {mem[r].dto} \cap DOMAIN db, "ok", NoMem)

EntryOperation(r) ==
    \/ \E t \in {"break", "wage"} : AddEntry(r, t) \/ EditEntry(r, t) \/ DeleteEntry(r, t)
    \/ AddEntryInsert(r) \/ DeleteEntryRemove(r)

-----------------------------------------------------------------------------

\* Rows name photos that were uploaded, files are named after milliseconds
\* that have passed, and unlink calls were made by somebody.
AttendanceTypeOK ==
    /\ files \subseteq 0..now /\ shared \subseteq 0..now
    /\ now <= LastMillisecond
    /\ \A a \in Ids("attendance") : /\ Row("attendance", a)["in"] \in 0..now
                                     /\ Row("attendance", a)["out"] \in {Null} \cup 0..now
    /\ \A u \in unlinks \cup {l.call : l \in lost} : [by |-> u.by, name |-> u.name] \in taken
    /\ \A t \in {"break", "wage"} : \A i \in Ids(t) :
          Row(t, i).attendance \in Ids("attendance")

\* An attendance whose photo is gone: another upload had the same name, or a
\* request that unlinked the photo did not get to change the row, or one that
\* a chain of overlaps joins to that request put the name back.  Requests one
\* after the other, with no two uploads in a millisecond and none refused,
\* lose no photo.
PhotoLostExplained ==
    \A a \in Live("attendance") : \A p \in Photo :
        LET name == Row("attendance", a)[p]
        IN  (name # Null /\ name \notin files) =>
               \/ name \in shared
               \/ \E t \in taken :
                    /\ t.name = name
                    /\ \/ step[t.by] # "ok"
                       \/ Linked(t.by, hist[<<"attendance", a>>][p].writer)

\* The process ends on a photo that is already gone only when two uploads
\* shared its name, or two requests went for it and one of them had failed or
\* overlapped some request: never because of what one request does, or two
\* that succeed one after the other.
ProcessEndsExplained ==
    \A l \in lost :
        \/ l.call.name \in shared
        \/ \E t \in taken :
             /\ t.name = l.call.name
             /\ t.by # l.call.by
             /\ \E r \in {t.by, l.call.by} : r \in l.failed \/ met[r] # {}

\* The photos of one attendance are files of their own.
PhotosApart ==
    \A a \in Live("attendance") :
        LET row == Row("attendance", a)
        IN  row["out"] # Null => row["in"] # row["out"]

=============================================================================
