---------------------------- MODULE KnowledgeText ----------------------------
(***************************************************************************)
(* What one pass of indexDocument makes of a file, and what a search finds *)
(* afterwards: the parser is chosen by MIME type and name, the text is cut *)
(* into overlapping chunks, the chunks are embedded in one request, row i  *)
(* gets vector i, and a query is answered by the rows whose vectors are    *)
(* closest.                                                                *)
(*                                                                         *)
(* A normalised text is the sequence of the lengths of its words, which    *)
(* are one space apart; an offset is a place in it.  A vector is the chunk *)
(* it was computed from.  KnowledgeIndexing has the rows of the document   *)
(* and what concurrent handlers do to them.                                *)
(***************************************************************************)
EXTENDS Naturals, Sequences, FiniteSets

CONSTANTS
    KtFiles,     \* uploads: MIME type and extension
    KtLengths,   \* lengths of a word
    KtMaxWords,  \* bound: words of a text
    KtMax,       \* maxCharacters
    KtOverlap,   \* overlapCharacters
    KtLimit,     \* limit of a search
    KtMaxChunks  \* bound: chunks of a text

ASSUME KnowledgeTextAssumption ==
    /\ KtLengths \subseteq Nat \ {0}
    /\ KtMax \in Nat \ {0}
    /\ KtOverlap \in 0..KtMax - 1
    /\ {KtMaxWords, KtLimit, KtMaxChunks} \subseteq Nat

VARIABLES
    ktFile,    \* the document: its type, and whether its row is ready
    ktPc,      \* where indexDocument is
    ktText,    \* the parsed text
    ktPlace,    \* where the next chunk starts: a word, or an offset
    ktChunks,  \* KnowledgeTextChunk[]: offsets from (included), to (excluded)
    ktRows,    \* knowledge_chunks of the document, by chunk_index
    ktSearch   \* a search: pc, the offset it asks about, what it has found

ktVars == <<ktFile, ktPc, ktText, ktPlace, ktChunks, ktRows, ktSearch>>

KtMin(S) == CHOOSE x \in S : \A y \in S : x <= y
KtMaxOf(S) == CHOOSE x \in S : \A y \in S : y <= x

KtTexts == UNION {[1..n -> KtLengths] : n \in 0..KtMaxWords}
KtNoSearch == [pc |-> "idle", at |-> 0, found |-> <<>>]

KtInit ==
    /\ ktFile = [mime |-> "none", ext |-> "none", ready |-> FALSE]
    /\ ktPc = "upload"
    /\ ktText = <<>>
    /\ ktPlace = 0
    /\ ktChunks = <<>>
    /\ ktRows = <<>>
    /\ ktSearch = KtNoSearch

-----------------------------------------------------------------------------
(* The file: document-parser.ts.                                           *)

KtIsText(f) == f.mime \in {"text", "markdown"} \/ f.ext \in {"md", "txt"}
KtIsPdf(f) == f.mime = "pdf" \/ f.ext = "pdf"
KtIsWord(f) == f.mime \in {"docx", "doc"} \/ f.ext \in {"docx", "doc"}
KtIsLegacyDoc(f) == f.mime = "doc" \/ f.ext = "doc"

KtIsSupported(f) == KtIsText(f) \/ KtIsPdf(f) \/ KtIsWord(f)

\* The route takes a file whose type or name is known.
KtUpload ==
    /\ ktPc = "upload"
    /\ \E f \in KtFiles :
        /\ KtIsSupported(f)
        /\ ktFile' = [mime |-> f.mime, ext |-> f.ext, ready |-> FALSE]
    /\ ktPc' = "parse"
    /\ UNCHANGED <<ktText, ktPlace, ktChunks, ktRows, ktSearch>>

\* A text is read as it is; the libraries for the other formats may throw.
KtMayThrow(f) ==
    IF KtIsText(f) THEN FALSE
    ELSE KtIsPdf(f) \/ KtIsLegacyDoc(f) \/ KtIsWord(f)

KtParse ==
    /\ ktPc = "parse"
    /\ \/ /\ ktText' \in KtTexts
          /\ ktPc' = "split"
       \/ /\ KtMayThrow(ktFile)
          /\ ktPc' = "failed"
          /\ UNCHANGED ktText
    /\ UNCHANGED <<ktFile, ktPlace, ktChunks, ktRows, ktSearch>>

-----------------------------------------------------------------------------
(* The chunks: chunker.ts.                                                 *)

\* endOffset of each word, and startOffset of word i.
KtEndOf(text) ==
    LET S[k \in 0..Len(text)] == IF k = 0 THEN 0
                                 ELSE S[k - 1] + text[k] + (IF k = 1 THEN 0 ELSE 1)
    IN  S
KtEnd == KtEndOf(ktText)
KtStart(i) == KtEnd[i] - ktText[i]
KtLength == KtEnd[Len(ktText)]

\* The offsets of the text that are not a space.
KtLetters == {c \in 0..KtLength - 1 : \E i \in 1..Len(ktText) : c \in KtStart(i)..KtEnd[i] - 1}

\* Letters of the words i..j, the spaces between them not counted.
KtLettersOf(i, j) == KtEnd[j] - KtStart(i) - (j - i)

\* An empty text has no chunks, a text with a space is cut between words.
KtSplit ==
    /\ ktPc = "split"
    /\ ktPc' = IF ktText = <<>> THEN "chunked"
               ELSE IF Len(ktText) > 1 THEN "words" ELSE "characters"
    /\ ktPlace' = IF Len(ktText) > 1 THEN 1 ELSE 0
    /\ UNCHANGED <<ktFile, ktText, ktChunks, ktRows, ktSearch>>

\* Mutant: the end is not kept within the text.
KtChunkEndAnywhere == ktPlace + KtMax

KtChunkEnd == KtMin({KtLength, ktPlace + KtMax})

\* One turn of splitByCharacters.
KtCharacters ==
    /\ ktPc = "characters"
    /\ LET end == KtChunkEnd
       IN  /\ ktChunks' = Append(ktChunks, [from |-> ktPlace, to |-> end])
           /\ IF end = KtLength
              THEN ktPc' = "chunked" /\ UNCHANGED ktPlace
              ELSE ktPlace' = end - KtOverlap /\ UNCHANGED ktPc
    /\ UNCHANGED <<ktFile, ktText, ktRows, ktSearch>>

\* The last word of the chunk that starts with word i: words are taken while
\* they fit, the first one even when it does not.
KtLastWord(i) ==
    KtMaxOf({j \in i..Len(ktText) : j = i \/ KtEnd[j] - KtStart(i) <= KtMax})

\* Mutant: the overlap is compared with maxCharacters.
KtOverlapOfChunk(first, last) ==
    LET enough == {i \in 2..last : KtLettersOf(i, last) >= KtMax}
    IN  IF enough = {} THEN 2 ELSE KtMaxOf(enough)

\* getOverlappedWordIndex: back until the overlap is reached, and never to
\* the first word of the text.
KtOverlappedWord(first, last) ==
    LET enough == {i \in 2..last : KtLettersOf(i, last) >= KtOverlap}
    IN  IF KtOverlap = 0 THEN last + 1
        ELSE IF enough = {} THEN 2 ELSE KtMaxOf(enough)

\* One turn of splitByWords.
KtWords ==
    /\ ktPc = "words"
    /\ Len(ktChunks) < KtMaxChunks
    /\ LET last == KtLastWord(ktPlace)
       IN  /\ ktChunks' = Append(ktChunks, [from |-> KtStart(ktPlace), to |-> KtEnd[last]])
           /\ IF last = Len(ktText)
              THEN ktPc' = "chunked" /\ UNCHANGED ktPlace
              ELSE ktPlace' = KtOverlappedWord(ktPlace, last) /\ UNCHANGED ktPc
    /\ UNCHANGED <<ktFile, ktText, ktRows, ktSearch>>

-----------------------------------------------------------------------------
(* The vectors and the rows: embedding-service.ts, indexDocument.          *)

\* data: the service answers in any order, each row with its index, and may
\* leave rows out.
KtAnswers(n) == UNION {{s \in [1..m -> 1..n] : \A i, j \in 1..m : s[i] = s[j] => i = j} : m \in {n - 1, n}}

\* Mutant: the answer is taken in the order in which it comes.
KtAsAnswered(data) == data

\* embedTexts sorts the rows by index.
KtSorted(data) ==
    [k \in DOMAIN data |->
        CHOOSE x \in {data[i] : i \in DOMAIN data} :
            Cardinality({i \in DOMAIN data : data[i] < x}) = k - 1]

\* ... and refuses an answer of another size; no chunks are an error too.
\* replaceKnowledgeChunks and the status are one step here.
KtEmbed ==
    /\ ktPc = "chunked"
    /\ \/ /\ ktChunks # <<>>
          /\ \E data \in KtAnswers(Len(ktChunks)) :
               LET vectors == KtSorted(data)
               IN  /\ Len(vectors) = Len(ktChunks)
                   /\ ktRows' = [i \in 1..Len(ktChunks) |->
                                   [of |-> ktChunks[i], vector |-> ktChunks[vectors[i]]]]
          /\ ktFile' = [ktFile EXCEPT !.ready = TRUE]
          /\ ktPc' = "ready"
       \/ /\ ktPc' = "failed"
          /\ ktRows' = <<>>
          /\ UNCHANGED ktFile
    /\ UNCHANGED <<ktText, ktPlace, ktChunks, ktSearch>>

-----------------------------------------------------------------------------
(* The search: retriever.ts, searchKnowledgeChunks.                        *)

\* search embeds the query: here, it asks about one place of the text.
KtQuery ==
    /\ ktSearch.pc = "idle"
    /\ ktPc \in {"ready", "failed"}
    /\ \/ \E c \in KtLetters : ktSearch' = [ktSearch EXCEPT !.pc = "select", !.at = c]
       \/ ktSearch' = [ktSearch EXCEPT !.pc = "done"]   \* no query, or no vector
    /\ UNCHANGED <<ktFile, ktPc, ktText, ktPlace, ktChunks, ktRows>>

\* embedding <=> query: near, if the chunk of the vector speaks of the place.
KtDistance(row, at) == IF at \in row.vector.from..row.vector.to - 1 THEN 0 ELSE 1

\* ORDER BY distance, chunk_index.
KtBefore(i, j, at) ==
    \/ KtDistance(ktRows[i], at) < KtDistance(ktRows[j], at)
    \/ KtDistance(ktRows[i], at) = KtDistance(ktRows[j], at) /\ i < j

KtClosest(at) ==
    [k \in 1..KtMin({KtLimit, Len(ktRows)}) |->
        CHOOSE i \in DOMAIN ktRows :
            Cardinality({j \in DOMAIN ktRows : KtBefore(j, i, at)}) = k - 1]

KtSelect ==
    /\ ktSearch.pc = "select"
    /\ ktSearch' = [ktSearch EXCEPT
         !.pc = "found",
         !.found = IF ktFile.ready THEN KtClosest(ktSearch.at) ELSE <<>>]
    /\ UNCHANGED <<ktFile, ktPc, ktText, ktPlace, ktChunks, ktRows>>

KtNext == KtUpload \/ KtParse \/ KtSplit \/ KtCharacters \/ KtWords \/ KtEmbed \/ KtQuery \/ KtSelect

KtSpec == KtInit /\ [][KtNext]_ktVars

-----------------------------------------------------------------------------
(* Properties.                                                             *)

KtTypeOK ==
    /\ ktFile.ready \in BOOLEAN
    /\ ktPc \in {"upload", "parse", "split", "words", "characters", "chunked", "ready", "failed"}
    /\ ktText \in KtTexts
    /\ ktPlace \in Nat
    /\ \A i \in DOMAIN ktChunks :
         ktChunks[i].from < ktChunks[i].to /\ ktChunks[i].to <= KtLength
    /\ ktSearch.pc \in {"idle", "select", "found", "done"}

\* A search about anything the text of a ready document says finds first a
\* chunk that contains it: the overlap skips no word, no letter is cut off,
\* and each row has the vector of its own text whatever the order in which
\* the embedding service answers.
KtAnswerHasWord ==
    ktSearch.pc = "found" /\ ktFile.ready /\ KtLimit > 0 =>
        /\ ktSearch.found # <<>>
        /\ LET row == ktRows[ktSearch.found[1]]
           IN  ktSearch.at \in row.of.from..row.of.to - 1

\* chunker.ts:56 has the cutting always get on.  It does as long as a word is
\* at most a quarter of a chunk, with the overlap of at most a quarter that
\* indexDocument uses, and always in a text without a space.  A word that is
\* longer than that may be gone back to for ever.
KtOrdinaryTextIsCut ==
    [][(Len(ktText) = 1 \/ \A i \in DOMAIN ktText : 4 * ktText[i] <= KtMax)
         /\ 4 * KtOverlap <= KtMax /\ ktPc' = ktPc /\ ktChunks' # ktChunks
       => ktPlace' > ktPlace]_ktVars
=============================================================================
