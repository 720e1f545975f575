------------------------------ MODULE IniFile -------------------------------
(***************************************************************************)
(* The profile files of linux_compat.cpp, as operators on a file's lines.  *)
(* A line is a sequence of tokens: <<"[", name, "]">> begins a section,    *)
(* <<key, "=", value>> is an entry, and <<key>> is what is left of an      *)
(* entry that was cut at the end of its key.                               *)
(***************************************************************************)
EXTENDS Naturals, Sequences, FiniteSetsExt

CONSTANT Missing    \* the default that is read where there is no entry

Bracketed(app) == <<"[", app, "]">>
Entry(key, value) == <<key, "=", value>>

IsHeader(line) == line[1] = "["
HasKey(line, key) == Len(line) = 3 /\ line[2] = "=" /\ line[1] = key

-----------------------------------------------------------------------------
(* ini_find_key: the first entry with that key in a section of that name.  *)

InSection(file, app, i) ==
    \E s \in 1 .. i - 1 :
        /\ file[s] = Bracketed(app)
        /\ \A j \in s + 1 .. i - 1 : ~IsHeader(file[j])

Hits(file, app, key) ==
    {i \in 1 .. Len(file) : /\ ~IsHeader(file[i])
                            /\ HasKey(file[i], key)
                            /\ InSection(file, app, i)}

GetPrivateProfileString(file, app, key) ==
    LET hits == Hits(file, app, key)
    IN IF hits = {} THEN Missing ELSE file[Min(hits)][3]

-----------------------------------------------------------------------------
(* WritePrivateProfileString.                                              *)

\* Mutant of Recognised: the name is compared before the bracket is cut off.
RecognisedWhole(line, app) == line = Bracketed(app)

\* The line is cut at its "]" and then compared with the name in brackets.
Recognised(line, app) ==
    IsHeader(line) /\ SubSeq(line, 1, 2) = Bracketed(app)

\* The search for the key leaves the entries it passes cut after their keys.
CutEntry(line) == IF IsHeader(line) THEN line ELSE <<line[1]>>

CutRange(file, from, to) ==
    [i \in 1 .. Len(file) |->
        IF i \in from .. to THEN CutEntry(file[i]) ELSE file[i]]

\* The end of the line is cut off with the value: the next line goes on where
\* it stops, and is no entry or section any more.  (The line that was cut,
\* which is nothing by itself, is kept in the model.)
Torn(line) == \A i \in 1 .. Len(line) : line[i] \notin {"=", "]"}

RunOn(file) ==
    [i \in 1 .. Len(file) |->
        IF i > 1 /\ Torn(file[i - 1]) THEN file[i - 1] \o file[i] ELSE file[i]]

InsertLine(file, i, line) ==
    SubSeq(file, 1, i - 1) \o <<line>> \o SubSeq(file, i, Len(file))

(* The lines that go back to the file: the entry is replaced in its        *)
(* section, or inserted where the section ends (before the first section   *)
(* of all, if no other follows), or appended with a section of its own.    *)
NewLines(file, app, key, value) ==
    LET starts == {i \in 1 .. Len(file) : Recognised(file[i], app)}
        headers == {i \in 1 .. Len(file) : IsHeader(file[i])}
    IN IF starts = {}
       THEN file \o <<Bracketed(app), Entry(key, value)>>
       ELSE LET s == Min(starts)
                next == {i \in headers : i > s}
                end == IF next = {} THEN Len(file) ELSE Min(next) - 1
                hits == {i \in s + 1 .. end : HasKey(file[i], key)}
            IN IF hits # {}
               THEN [CutRange(file, s + 1, Min(hits) - 1)
                        EXCEPT ![Min(hits)] = Entry(key, value)]
               ELSE InsertLine(CutRange(file, s + 1, end),
                               IF next = {} THEN Min(headers) ELSE end + 1,
                               Entry(key, value))

WritePrivateProfileString(file, app, key, value) ==
    RunOn(NewLines(file, app, key, value))
=============================================================================
