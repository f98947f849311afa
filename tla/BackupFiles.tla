----------------------------- MODULE BackupFiles -----------------------------
(***************************************************************************)
(* The files of a data backup.  Contacts, groups and messages are tables   *)
(* of comma-separated columns, each in quotes, a quote inside written      *)
(* twice; a text may contain line breaks, which then split its row over    *)
(* several lines of the file.  A text is a sequence of letters.            *)
(*   SplitLine    SimpleCsvLineSplitter: the columns of a line             *)
(*   ReadRows     FileReader: the rows of a file                           *)
(*   ReadTable    the rows as records, by the names in the header          *)
(* The other direction is what the app that makes the backups does.        *)
(***************************************************************************)
EXTENDS Naturals, Sequences, SequencesExt

Quote == "q"
Comma == ","
Break == "n"

-----------------------------------------------------------------------------
(* Reading.  A scan is where it stands, the letters of the column it is in *)
(* and the columns it has.                                                 *)

Scan(at, column, columns) == [at |-> at, column |-> column, columns |-> columns]

Invalid == Scan("invalid", <<>>, <<>>)

(* Mutated form of ScanLetter: a quote that is written twice ends the      *)
(* column. *)
MutantScanLetter(s, x) ==
    CASE s.at = "outside" /\ x = Quote -> Scan("inside", <<>>, s.columns)
      [] s.at = "inside" /\ x # Quote  -> [s EXCEPT !.column = Append(@, x)]
      [] s.at = "inside" /\ x = Quote  -> [s EXCEPT !.at = "quote"]
      [] s.at = "quote" /\ x = Quote   -> [s EXCEPT !.at = "inside"]
      [] s.at = "quote" /\ x = Comma   -> Scan("outside", <<>>, Append(s.columns, s.column))
      [] OTHER -> Invalid

(* One letter further: inside a column a quote either ends it or, if a     *)
(* second follows, stands for itself.                                      *)
ScanLetter(s, x) ==
    CASE s.at = "outside" /\ x = Quote -> Scan("inside", <<>>, s.columns)
      [] s.at = "inside" /\ x # Quote  -> [s EXCEPT !.column = Append(@, x)]
      [] s.at = "inside" /\ x = Quote  -> [s EXCEPT !.at = "quote"]
      [] s.at = "quote" /\ x = Quote   -> Scan("inside", Append(s.column, Quote), s.columns)
      [] s.at = "quote" /\ x = Comma   -> Scan("outside", <<>>, Append(s.columns, s.column))
      [] OTHER -> Invalid

SplitLine(line) == FoldLeft(ScanLetter, Scan("outside", <<>>, <<>>), line)

(* InsufficientInputException: the line ends inside a column. *)
IsInsufficient(scan) == scan.at = "inside"

Columns(scan) == IF scan.at = "quote" THEN Append(scan.columns, scan.column) ELSE scan.columns

(* getNext: lines are put together, without the break between them, until  *)
(* they make a row.                                                        *)
ReadLine(read, line) ==
    LET text == read.pending \o line
        scan == SplitLine(text)
    IN  IF read.failed \/ scan.at = "invalid" THEN [read EXCEPT !.failed = TRUE]
        ELSE IF IsInsufficient(scan) THEN [read EXCEPT !.pending = text]
        ELSE [read EXCEPT !.rows = Append(@, Columns(scan)), !.pending = <<>>]

(* A file that ends in the middle of a row cannot be read. *)
AtEnd(read) == [rows |-> read.rows, failed |-> read.failed \/ read.pending # <<>>]

ReadRows(lines) ==
    AtEnd(FoldLeft(ReadLine, [rows |-> <<>>, pending |-> <<>>, failed |-> FALSE], lines))

(* parseOffsets and fromBackupMatch: the columns are found by their names, *)
(* and all that are needed must be there.                                  *)
HasRequiredFields(required, header) == required \subseteq ToSet(header)

OffsetOf(header, name) == CHOOSE i \in DOMAIN header : header[i] = name

FromBackupMatch(required, header, columns) ==
    [name \in required |-> columns[OffsetOf(header, name)]]

TableOf(required, header, read) ==
    IF read.failed \/ ~HasRequiredFields(required, header)
    THEN [rows |-> {}, failed |-> TRUE]
    ELSE [rows |-> {FromBackupMatch(required, header, c) : c \in ToSet(read.rows)}, failed |-> FALSE]

ReadTable(required, file) == TableOf(required, file.header, ReadRows(file.lines))

-----------------------------------------------------------------------------
(* Writing (external).                                                     *)

Quoted(text) ==
    <<Quote>> \o FoldLeft(LAMBDA t, x : t \o (IF x = Quote THEN <<x, x>> ELSE <<x>>), <<>>, text)
    \o <<Quote>>

Joined(columns) ==
    FoldLeft(LAMBDA t, c : IF t = <<>> THEN Quoted(c) ELSE t \o <<Comma>> \o Quoted(c), <<>>, columns)

(* Where a text with line breaks falls apart. *)
LinesOf(text) ==
    FoldLeft(LAMBDA ls, x : IF x = Break THEN Append(ls, <<>>)
                            ELSE Append(Front(ls), Append(Last(ls), x)), <<<<>>>>, text)

WrittenTable(header, rows) ==
    [header |-> header,
     lines  |-> FoldLeft(LAMBDA ls, row : ls \o LinesOf(Joined([i \in DOMAIN header |-> row[header[i]]])),
                         <<>>, rows)]

(* What reading keeps of a text: the breaks are gone. *)
WithoutBreaks(text) == SelectSeq(text, LAMBDA x : x # Break)

=============================================================================
