------------------------------ MODULE UnitFiles ------------------------------
(* Root filesystems, and the unit files in them, as                        *)
(* scripts/verify_rave_image.py and systemd read them.                     *)
(*                                                                         *)
(* A root filesystem is a function from paths to entries.  A path is a     *)
(* sequence of coarse components; "ssh.socket.d/x.conf" is                 *)
(* <<"ssh.socket", "d", "x.conf">>.  What `text` is depends on the file:   *)
(* lines for a unit, a record for an INI file, else a set or a function.   *)
EXTENDS Integers, Sequences, FiniteSets, SequencesExt

File(text) == [kind |-> "file", mode |-> "0644", owner |-> "root", text |-> text, traces |-> {}]
Dir == [File({}) EXCEPT !.kind = "dir", !.mode = "0755"]
Link(target) == [File(target) EXCEPT !.kind = "link", !.mode = "0777"]
Private(text) == [File(text) EXCEPT !.mode = "0600"]

Is(r, path, kind) == path \in DOMAIN r /\ r[path].kind = kind
IsFile(r, path) == Is(r, path, "file")
LinksTo(r, path, target) == Is(r, path, "link") /\ r[path].text = target
Guarded(r, path, mode, owner) == r[path].mode = mode /\ r[path].owner = owner
Directly(r, dir) == {path \in DOMAIN r : Front(path) = dir}
Below(r, dir) == {path \in DOMAIN r : IsStrictPrefix(dir, path)}

Vendor(unit) == <<"usr/lib/systemd/system", unit>>
Local(unit) == <<"etc/systemd/system", unit>>
Want(target, unit) == <<"etc/systemd/system", target, "wants", unit>>
Enabled(r, target, unit) == Is(r, Want(target, unit), "link")

(* The drop-in files of a unit, in both directories. *)
unit_dropins(r, unit) == UNION {Directly(r, Append(base, "d")) : base \in {Vendor(unit), Local(unit)}}

-----------------------------------------------------------------------------
(* A line, as Python's splitlines() finds it, is its words and how it      *)
(* ends: at a newline, at a separator that only Python splits at (\x0b and *)
(* others), in a backslash, or in a backslash that blanks follow.          *)
Lines == [words : Seq(STRING), ends : {"newline", "separator", "backslash", "blanks"}]
Line(words) == [words |-> words, ends |-> "newline"]
Ending(line, ends) == [line EXCEPT !.ends = ends]
Continued(words) == Ending(Line(words), "backslash")
Section(name) == Line(<<"[", name, "]">>)
Key(key, value) == Line(<<key, "=">> \o value)
Comment(words) == Line(<<"#">> \o words)

Continues(line) == line.ends \in {"backslash", "blanks"}
IsComment(words) == words # <<>> /\ words[1] \in {"#", ";"}

(* The values that a text assigns to a key in the sections of that name, a *)
(* value being its words.                                                  *)
systemd_directives(text, section, key) ==
    LET Read[i \in 0 .. Len(text)] ==
            IF i = 0 THEN [logical |-> <<>>, section |-> "", values |-> <<>>]
            ELSE LET state == Read[i - 1]
                     words == state.logical \o text[i].words
                     read == [state EXCEPT !.logical = <<>>]
                 IN  CASE Continues(text[i]) -> [state EXCEPT !.logical = words]
                       [] words = <<>> \/ IsComment(words) -> read
                       [] words[1] = "[" -> [read EXCEPT !.section = words[2]]
                       [] state.section = section /\ words[1] = key ->
                              [read EXCEPT !.values = Append(@, SubSeq(words, 3, Len(words)))]
                       [] OTHER -> read
    IN  Read[Len(text)].values

(* Otherwise systemd_directives raises an error (153). *)
Terminated(text) == text # <<>> => ~Continues(Last(text))

Assigned(texts, section, key) ==
    FlattenSeq([i \in DOMAIN texts |-> systemd_directives(texts[i], section, key)])

LastReset(values) == CHOOSE i \in 0 .. Len(values) :
    (i = 0 \/ values[i] = <<>>) /\ \A j \in i + 1 .. Len(values) : values[j] # <<>>

effective_systemd_list_DropIn(texts, section, key) ==
    LET values == Assigned(<<Last(texts)>>, section, key)
    IN  SubSeq(values, LastReset(values) + 1, Len(values))

(* Each value is added to the list; an empty one clears it, also what an   *)
(* earlier file assigned.                                                  *)
effective_systemd_list(texts, section, key) ==
    LET values == Assigned(texts, section, key)
    IN  SubSeq(values, LastReset(values) + 1, Len(values))

effective_systemd_words(texts, section, key) == FlattenSeq(effective_systemd_list(texts, section, key))

(* The last value, in a sequence, or none. *)
effective_systemd_scalar(texts, section, key) ==
    LET values == Assigned(texts, section, key) IN IF values = <<>> THEN <<>> ELSE <<Last(values)>>

HasScalar(texts, section, key, word) ==
    effective_systemd_scalar(texts, section, key) = <<<<word>>>>
DependsOn(texts, directives) ==
    UNION {Range(effective_systemd_words(texts, "Unit", directive)) : directive \in directives}
Mentions(text, word) == \E line \in Range(text) : word \in Range(line.words)

-----------------------------------------------------------------------------
(* How systemd itself reads a text (systemd.syntax(7)): a line ends at a   *)
(* newline, one that starts like a comment is dropped before anything else *)
(* is made of it, also between the parts of a continued line, and only a   *)
(* backslash at the very end continues a line.                             *)
Joined(text, i) == i > 1 /\ text[i - 1].ends = "separator"
Dropped(text, i) ==
    \E j \in 1 .. i : /\ IsComment(text[j].words) /\ ~Joined(text, j)
                      /\ \A k \in j + 1 .. i : Joined(text, k)
Inside(text, i) ==
    \E j \in 1 .. i - 1 : /\ ~Dropped(text, j) /\ text[j].ends = "backslash"
                          /\ \A k \in j + 1 .. i - 1 : Dropped(text, k)

(* The text that systemd_directives would have to be given to read what    *)
(* systemd reads.                                                          *)
AsSystemd(text) ==
    LET Words(i) == CASE Dropped(text, i) /\ (Inside(text, i) \/ Joined(text, i)) -> <<>>
                      [] ~Dropped(text, i) /\ text[i].ends = "blanks" -> Append(text[i].words, "\\")
                      [] OTHER -> text[i].words
        GoesOn(i) == i < Len(text) /\ IF Dropped(text, i) THEN Inside(text, i)
                                      ELSE text[i].ends \in {"backslash", "separator"}
    IN  [i \in DOMAIN text |-> [words |-> Words(i), ends |-> IF GoesOn(i) THEN "backslash" ELSE "newline"]]

(* The texts in which the two find the same lines at a glance.             *)
ReadAlike(text) ==
    \A i \in DOMAIN text :
        /\ text[i].ends \in {"newline", "backslash"}
        /\ IsComment(text[i].words) => text[i].ends = "newline" /\ ~Inside(text, i)

(* How systemd applies the files: the unit's own, where /etc hides         *)
(* /usr/lib, and then its drop-ins; a list setting is what was assigned    *)
(* after the last empty assignment; a dependency cannot be reset at all    *)
(* (systemd.unit(5)).                                                      *)
Fragments(r, unit) ==
    IF Local(unit) \in DOMAIN r THEN <<Local(unit)>>
    ELSE IF Vendor(unit) \in DOMAIN r THEN <<Vendor(unit)>> ELSE <<>>
Files(r, unit) == Fragments(r, unit) \o SetToSeq(unit_dropins(r, unit))
UnitTexts(r, unit) ==
    LET files == Files(r, unit) IN [i \in DOMAIN files |-> AsSystemd(r[files[i]].text)]
Setting(r, unit, section, key) ==
    LET values == Assigned(UnitTexts(r, unit), section, key)
    IN  Range(SubSeq(values, LastReset(values) + 1, Len(values)))
Dependencies(r, unit, directive) ==
    Range(FlattenSeq(Assigned(UnitTexts(r, unit), "Unit", directive)))
=============================================================================
