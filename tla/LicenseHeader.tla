----------------------------- MODULE LicenseHeader -----------------------------
(***************************************************************************)
(* header.go of nrlicense: what a file's header is, whether it is the      *)
(* right one, and what applying a new one leaves of the file.              *)
(*                                                                         *)
(* A text is a sequence of lines.  A line has a mark, which is how it      *)
(* starts, and what it says as far as the tool looks; a line without mark  *)
(* that says something is code.  The lines of a block comment that start   *)
(* with no star are code to the tool too.  A long line is one of words     *)
(* that does not fit in the 64 KiB bufio.Scanner gives a line.             *)
(***************************************************************************)
EXTENDS Integers, Sequences, FiniteSets

CONSTANT HeadLines   \* the lines that fit in the first 1000 bytes

\* A line after #! fits
ASSUME HeadAssumption == HeadLines \in Nat /\ HeadLines >= 2

Line == [mark : {"none", "slash", "hash"},
         says : {"", "words", "long", "theirs", "ours", "also ours", "apache",
                 "other licence", "generated", "shebang"}]

\* containsCopyright, containsLicenseIdentifier, strings.Contains "New Relic"
NamesCopyright(line) == line.says \in {"theirs", "ours", "also ours"}
NamesLicence(line) == line.says \in {"apache", "other licence"}
NamesNewRelic(line) == line.says \in {"ours", "also ours"}

Style(ext) == IF ext = "sh" THEN "hash" ELSE "slash"

IsCommentLine(line, ext) ==
  CASE ext = "go" -> line.mark = "slash"
    [] ext = "sh" -> line.mark = "hash"
    [] OTHER -> line.mark # "none"

IsBlank(line) == line.mark = "none" /\ line.says = ""
IsEmptyOrEmptyComment(line, ext) == line.says = "" /\ line.mark \in {"none", Style(ext)}
IsCode(line, ext) == ~IsBlank(line) /\ ~IsCommentLine(line, ext)

IsGeneratedFile(text) == \E i \in DOMAIN text : text[i].says = "generated"

FirstOr(S, default) == IF S = {} THEN default ELSE CHOOSE i \in S : \A j \in S : i <= j

\* The lines before the first long one, where a Scanner stops
Scanned(text) == FirstOr({i \in DOMAIN text : text[i].says = "long"}, Len(text) + 1) - 1

-----------------------------------------------------------------------------
(***************************************************************************)
(* ParseFileHeader.  The header starts at the first comment that names a   *)
(* copyright or a licence, unless code comes first.  It ends at code, or   *)
(* at the first comment that says something after a licence identifier.    *)
(* An identifier in the header's first line is not recorded.               *)
(***************************************************************************)
HeaderStart(text, ext) ==
  FirstOr({i \in DOMAIN text :
             /\ IsCommentLine(text[i], ext)
             /\ NamesCopyright(text[i]) \/ NamesLicence(text[i])
             /\ \A j \in 1 .. i - 1 : ~IsCode(text[j], ext)}, 0)

HeaderEndAtCode(text, ext, start) ==   \* mutant: an identifier does not end the header
  FirstOr({i \in start + 1 .. Len(text) : IsCode(text[i], ext)}, Len(text) + 1)

HeaderEnd(text, ext, start) ==
  FirstOr({i \in start + 1 .. Len(text) :
             \/ IsCode(text[i], ext)
             \/ /\ ~IsEmptyOrEmptyComment(text[i], ext)
                /\ \E j \in start + 1 .. i - 1 : NamesLicence(text[j])},
          Len(text) + 1)

ParseFileHeader(text, ext) ==
  LET start == HeaderStart(text, ext)
      end == HeaderEnd(text, ext, start)
      lines == start .. end - 1
      copyright == FirstOr({i \in lines : NamesCopyright(text[i])}, 0)
      licence == FirstOr({i \in lines \ {start} : NamesLicence(text[i])}, 0)
  IN IF start = 0
     THEN [has |-> FALSE, copyright |-> "", licence |-> "", newRelic |-> FALSE,
           contentStart |-> FirstOr({i \in DOMAIN text : IsCode(text[i], ext)}, 0)]
     ELSE [has |-> TRUE,
           copyright |-> IF copyright = 0 THEN "" ELSE text[copyright].says,
           licence |-> IF licence = 0 THEN "" ELSE text[licence].says,
           newRelic |-> \E i \in lines : NamesNewRelic(text[i]),
           contentStart |-> end]

\* scanner.Err(): a long line is met before the scan breaks off
Unparsable(text, ext) ==
  /\ Scanned(text) < Len(text)
  /\ ParseFileHeader(text, ext).contentStart \notin 1 .. Scanned(text)

CheckHeader(text, ext, status) ==
  LET info == ParseFileHeader(text, ext)
      byNewRelic == info.copyright \in {"ours", "also ours"}
  IN \/ IsGeneratedFile(text)
     \/ /\ info.has
        /\ CASE status = "unmodified" -> ~byNewRelic
             [] status = "modified" -> info.copyright # "" /\ info.newRelic /\ info.licence = "apache"
             [] status = "new" -> byNewRelic /\ info.licence = "apache"

-----------------------------------------------------------------------------
\* GenerateHeader with the two templates; none for an unmodified file
Commented(says, ext) == [i \in DOMAIN says |-> [mark |-> Style(ext), says |-> says[i]]]

GenerateHeader(status, ext) ==
  CASE status = "unmodified" -> <<>>
    [] status = "modified" ->
         Commented(<<"theirs", "also ours", "", "words", "words", "", "apache">>, ext)
    [] status = "new" -> Commented(<<"ours", "apache">>, ext)

Blank == [mark |-> "none", says |-> ""]

HashBang(text) == IF text # <<>> /\ text[1].says = "shebang" THEN <<text[1]>> ELSE <<>>

\* Any line counts, also one of code
HasLicenseHeader(text) ==
  \E i \in DOMAIN text : i <= HeadLines /\ (NamesCopyright(text[i]) \/ NamesLicence(text[i]))

(***************************************************************************)
(* ApplyHeader: content is what it has read, info what ParseFileHeader,    *)
(* which reads the file again, says of it.  A file without a licence is    *)
(* copied as a whole; one with a licence is scanned again, and nobody asks *)
(* this scanner whether it came to the end: from a long line on, the rest  *)
(* is not written.                                                         *)
(***************************************************************************)
ApplyHeader(content, info, header) ==
  LET shebang == HashBang(content)
      kept == IF HasLicenseHeader(content) /\ info.contentStart > Len(shebang) + 1
              THEN info.contentStart ELSE Len(shebang) + 1
      upto == IF HasLicenseHeader(content) THEN Scanned(content) ELSE Len(content)
  IN IF IsGeneratedFile(content) THEN content
     ELSE shebang \o header \o <<Blank>> \o SubSeq(content, kept, upto)

=============================================================================
