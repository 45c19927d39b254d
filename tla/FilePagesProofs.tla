--------------------------- MODULE FilePagesProofs ---------------------------
(***************************************************************************)
(* The pages of files and applications: the listings, the operations on    *)
(* files, and the form of a job with the run times it accepts.  Of each    *)
(* page there is an invariant (FilesNow, OpsNow, FormInv) and three        *)
(* lemmas: it holds at first, every step keeps it, and what it says.       *)
(***************************************************************************)
EXTENDS ServerPartsProofs

-----------------------------------------------------------------------------
(* The listings of the files.  The invariant is of a state in parts, so    *)
(* that a step of two listings is one after the other.                     *)

Main == "FilesListing"

FilesFlags == [FileList!Sections -> BOOLEAN]
FilesErrors == [FileList!Sections -> Codes \cup {"none", "true"}]
FilesRows == Seq(FileList!Row)
FilesListings == [FileList!Sections -> FilesRows]
FilesParams == [FileList!Sections -> Folders \cup {FileList!NoFolder}]
FilesSelections == SUBSET (1..MaxRows + 1)

FilesStore ==
  [loading : FilesFlags, loadingScroll : FilesFlags, error : FilesErrors,
   listing : FilesListings, params : FilesParams, reachedEnd : FilesFlags,
   selected : FilesSelections, selectAll : BOOLEAN]

FilesUi ==
  [route : Folders \cup {Projects}, browsing : BOOLEAN,
   overtaken : SUBSET FileList!Sections, dropped : SUBSET FileList!Sections,
   unscrolled : SUBSET FileList!Sections]

FilesAsked(w) == {c \in FileList!Call : w = "FETCH_FILES_MODAL" => c.section = "modal"}

FilesCalls(cs) ==
  /\ cs = [w \in FileList!Watchers |-> cs[w]]
  /\ \A w \in FileList!Watchers : AtMostOne(cs[w]) /\ cs[w] \subseteq FilesAsked(w)

FilesTypes(st, cs, u, al) ==
  st \in FilesStore /\ FilesCalls(cs) /\ u \in FilesUi /\ al \in BOOLEAN

(* A failed listing shows no rows; the others are no longer than the bound. *)
RowsBounded(st) ==
  \A s \in FileList!Sections :
    /\ Len(st.listing[s]) <= MaxRows + 1
    /\ st.error[s] # "none" => st.listing[s] = <<>>

(* A scroll is asked for below a row, and within the bound.                *)
ScrollsBelow(st, cs) ==
  \A c \in cs["SCROLL_FILES"] :
    /\ c.offset >= 1 /\ c.offset < MaxRows
    /\ Len(st.listing[c.section]) < MaxRows

(* The listing the page waits for is of its folder, and takes the place of *)
(* no rows.                                                                *)
MainFetched(st, cs, u) ==
  \A c \in cs["FETCH_FILES"] : c.section = Main =>
    /\ st.params[Main] # FileList!NoFolder => c.folder = st.params[Main]
    /\ Main \notin u.overtaken => st.listing[Main] = <<>> /\ st.selected = {}

(* A scroll that was not overtaken goes on where the page ends.            *)
MainScrolled(st, cs, u) ==
  \A c \in cs["SCROLL_FILES"] : (c.section = Main /\ Main \notin u.overtaken) =>
    /\ \A d \in cs["FETCH_FILES"] : d.section # Main
    /\ Len(st.listing[Main]) = c.offset /\ st.error[Main] = "none"
    /\ st.params[Main] # FileList!NoFolder => c.folder = st.params[Main]

(* The folder of the address is the one that was asked for last.           *)
RouteIsListed(st, u, al) ==
  (al /\ u.route \in Folders) => st.params[Main] = u.route

(* FileList!FirstPageIsCurrent, FileList!PageIsPrefix and what makes       *)
(* FileList!SpinnerIsServed, of a state in parts.                          *)
FirstPage(st) ==
  st.params[Main] \in Folders => \A i \in DOMAIN st.listing[Main] :
    (st.listing[Main][i].nth = 1 /\ st.listing[Main][i].folder \notin Drive)
        => st.listing[Main][i].folder = st.params[Main]

Prefix(st, u) ==
  (st.params[Main] \in Folders \ Drive /\ Main \notin u.overtaken
    /\ st.error[Main] # "true")
    => /\ \A i \in DOMAIN st.listing[Main] :
             st.listing[Main][i] = [folder |-> st.params[Main], nth |-> i]
       /\ st.selected \subseteq DOMAIN st.listing[Main]

LoadingServed(st, cs, u, al) ==
  \A s \in FileList!Sections : st.loading[s] =>
    \/ \E c \in cs["FETCH_FILES"] : c.section = s
    \/ \E c \in cs["FETCH_FILES_MODAL"] : c.section = s
    \/ s \in u.dropped
    \/ ~al

ScrollServed(st, cs, u, al) ==
  \A s \in FileList!Sections : st.loadingScroll[s] =>
    \/ \E c \in cs["SCROLL_FILES"] : c.section = s
    \/ s \in u.unscrolled
    \/ ~al

FilesInv(st, cs, u, al) ==
  /\ FilesTypes(st, cs, u, al) /\ RowsBounded(st) /\ ScrollsBelow(st, cs)
  /\ MainFetched(st, cs, u) /\ MainScrolled(st, cs, u) /\ RouteIsListed(st, u, al)
  /\ FirstPage(st) /\ Prefix(st, u) /\ LoadingServed(st, cs, u, al)
  /\ ScrollServed(st, cs, u, al)

(* What a page of rows is.                                                 *)
LEMMA PageOfRows ==
  ASSUME NEW f \in Folders, NEW n \in 0..MaxRows
  PROVE  LET p == FileList!Page(f, n) IN
           /\ p \in FilesRows /\ Len(p) <= 1
           /\ \A i \in DOMAIN p :
                /\ i = 1 /\ p[i].folder = f
                /\ p[i].nth = IF f \in Drive THEN 1 ELSE n + 1
                /\ p[i] = [folder |-> f, nth |-> IF f \in Drive THEN 1 ELSE n + 1]
           /\ FileList!ReachedEnd(f, n) \in BOOLEAN
<1> DEFINE row == [folder |-> f, nth |-> IF f \in Drive THEN 1 ELSE n + 1]
<1>1. n \in Nat /\ n <= MaxRows /\ MaxRows \in Nat
  BY WorkbenchAssumption DEF FileList!ListingAssumption
<1>2. row \in FileList!Row
  BY <1>1 DEF FileList!Row
<1>3. FileList!Page(f, n) = <<row>> \/ FileList!Page(f, n) = <<>>
  BY <1>1 DEF FileList!Page
<1>4. <<row>> \in FilesRows /\ <<>> \in FilesRows
  BY <1>2 DEF FilesRows
<1>5. FileList!ReachedEnd(f, n) \in BOOLEAN
  <2>1. CASE f \in Drive
    <3>1. FileList!ReachedEnd(f, n) = (Size[f] <= 1)
      BY <2>1 DEF FileList!ReachedEnd
    <3>2. (Size[f] <= 1) \in BOOLEAN
      OBVIOUS
    <3> QED
      BY <3>1, <3>2
  <2>2. CASE f \notin Drive
    <3>1. FileList!ReachedEnd(f, n) = (FileList!Page(f, n) = <<>>)
      BY <2>2 DEF FileList!ReachedEnd
    <3> QED
      BY <3>1
  <2> QED
    BY <2>1, <2>2
<1>6. row.folder = f /\ row.nth = IF f \in Drive THEN 1 ELSE n + 1
  OBVIOUS
<1>7. CASE FileList!Page(f, n) = <<>>
  BY <1>4, <1>5, <1>7
<1>8. CASE FileList!Page(f, n) = <<row>>
  <2> HIDE DEF row
  <2>1. /\ Len(<<row>>) <= 1
        /\ \A i \in DOMAIN <<row>> : i = 1 /\ <<row>>[i] = row
    OBVIOUS
  <2> QED
    BY <1>4, <1>5, <1>6, <1>8, <2>1 DEF row
<1> QED
  BY <1>3, <1>7, <1>8

(* What a reducer leaves of a section.                                     *)
SameSection(st, r, s) ==
  /\ r.loading[s] = st.loading[s] /\ r.error[s] = st.error[s]
  /\ r.listing[s] = st.listing[s] /\ r.params[s] = st.params[s]

\* A listing is asked for: its section is emptied, and no other changes.
LEMMA FetchStarted ==
  ASSUME NEW st \in FilesStore, NEW s \in FileList!Sections, NEW f \in Folders
  PROVE  LET r == FileList!FETCH_FILES_START(st, s, f) IN
           /\ r \in FilesStore /\ r.error[s] = "none" /\ r.listing[s] = <<>>
           /\ r.params[s] = f /\ r.loadingScroll = st.loadingScroll
           /\ \A x \in FileList!Sections \ {s} : SameSection(st, r, x)
           /\ r.selected = IF s = Main THEN {} ELSE st.selected
<1> DEFINE loading == [st.loading EXCEPT ![s] = TRUE]
           error == [st.error EXCEPT ![s] = "none"]
           listing == [st.listing EXCEPT ![s] = <<>>]
           params == [st.params EXCEPT ![s] = f]
           selected == IF s = Main THEN {} ELSE st.selected
           selectAll == st.selectAll /\ ~(s = Main)
<1>1. FileList!FETCH_FILES_START(st, s, f) =
        [st EXCEPT !.loading = loading, !.error = error, !.listing = listing,
                   !.params = params, !.selected = selected, !.selectAll = selectAll]
  BY DEF FileList!FETCH_FILES_START, Main
<1>2. /\ st.loading \in FilesFlags /\ st.error \in FilesErrors
         /\ st.listing \in FilesListings
      /\ st.params \in FilesParams /\ st.selected \in FilesSelections
      /\ st.selectAll \in BOOLEAN
  BY DEF FilesStore
<1>3. loading \in FilesFlags /\ error \in FilesErrors /\ params \in FilesParams
  BY <1>2 DEF FilesFlags, FilesErrors, FilesParams
<1>4. listing \in FilesListings
  <2>1. <<>> \in FilesRows
    BY DEF FilesRows
  <2> QED
    BY <1>2, <2>1 DEF FilesListings
<1>5. selected \in FilesSelections /\ selectAll \in BOOLEAN
  BY <1>2 DEF FilesSelections
<1>6. /\ error[s] = "none" /\ listing[s] = <<>> /\ params[s] = f
      /\ \A x \in FileList!Sections \ {s} :
           /\ loading[x] = st.loading[x] /\ error[x] = st.error[x]
           /\ listing[x] = st.listing[x] /\ params[x] = st.params[x]
  BY <1>2 DEF FilesFlags, FilesErrors, FilesListings, FilesParams
<1>7. selected = IF s = Main THEN {} ELSE st.selected
  OBVIOUS
<1> HIDE DEF loading, error, listing, params, selected, selectAll
<1>8. LET r == FileList!FETCH_FILES_START(st, s, f) IN
        /\ r \in FilesStore /\ r.loading = loading /\ r.error = error
        /\ r.listing = listing /\ r.params = params /\ r.selected = selected
        /\ r.loadingScroll = st.loadingScroll
  BY <1>1, <1>3, <1>4, <1>5 DEF FilesStore
<1> QED
  BY <1>6, <1>7, <1>8 DEF SameSection

\* Its answer, of rows of one folder.
LEMMA FetchTold ==
  ASSUME NEW st \in FilesStore, NEW s \in FileList!Sections, NEW rows \in FilesRows,
         NEW end \in BOOLEAN
  PROVE  LET r == FileList!FETCH_FILES_SUCCESS(st, s, rows, end) IN
           /\ r \in FilesStore /\ ~r.loading[s] /\ r.error[s] = "none"
           /\ r.listing[s] = rows /\ r.params = st.params /\ r.selected = st.selected
           /\ r.loadingScroll = st.loadingScroll
           /\ \A x \in FileList!Sections \ {s} : SameSection(st, r, x)
<1> DEFINE loading == [st.loading EXCEPT ![s] = FALSE]
           error == [st.error EXCEPT ![s] = "none"]
           listing == [st.listing EXCEPT ![s] = rows]
           reachedEnd == [st.reachedEnd EXCEPT ![s] = end]
<1>1. FileList!FETCH_FILES_SUCCESS(st, s, rows, end) =
        [st EXCEPT !.loading = loading, !.error = error, !.listing = listing,
                   !.reachedEnd = reachedEnd]
  BY DEF FileList!FETCH_FILES_SUCCESS
<1>2. /\ st.loading \in FilesFlags /\ st.error \in FilesErrors
         /\ st.listing \in FilesListings
      /\ st.params \in FilesParams /\ st.reachedEnd \in FilesFlags
  BY DEF FilesStore
<1>3. loading \in FilesFlags /\ error \in FilesErrors /\ reachedEnd \in FilesFlags
  BY <1>2 DEF FilesFlags, FilesErrors
<1>4. listing \in FilesListings
  BY <1>2 DEF FilesListings
<1>6. /\ ~loading[s] /\ error[s] = "none" /\ listing[s] = rows
      /\ \A x \in FileList!Sections \ {s} :
           /\ loading[x] = st.loading[x] /\ error[x] = st.error[x]
           /\ listing[x] = st.listing[x]
  BY <1>2 DEF FilesFlags, FilesErrors, FilesListings
<1> HIDE DEF loading, error, listing, reachedEnd
<1>8. LET r == FileList!FETCH_FILES_SUCCESS(st, s, rows, end) IN
        /\ r \in FilesStore /\ r.loading = loading /\ r.error = error
        /\ r.listing = listing /\ r.params = st.params /\ r.selected = st.selected
        /\ r.loadingScroll = st.loadingScroll
  BY <1>1, <1>3, <1>4 DEF FilesStore
<1> QED
  BY <1>6, <1>8 DEF SameSection

(* The failures of a listing and of a scroll.                              *)
LEMMA FetchFailed ==
  ASSUME NEW st \in FilesStore, NEW s \in FileList!Sections,
    NEW code \in Codes \cup {"true"}
  PROVE  LET r == FileList!FETCH_FILES_ERROR(st, s, code) IN
           /\ r \in FilesStore /\ ~r.loading[s] /\ r.error[s] = code
           /\ r.listing[s] = <<>> /\ r.params = st.params /\ r.selected = st.selected
           /\ r.loadingScroll = st.loadingScroll
           /\ \A x \in FileList!Sections \ {s} : SameSection(st, r, x)
<1> DEFINE loading == [st.loading EXCEPT ![s] = FALSE]
           error == [st.error EXCEPT ![s] = code]
           listing == [st.listing EXCEPT ![s] = <<>>]
<1>1. FileList!FETCH_FILES_ERROR(st, s, code) =
        [st EXCEPT !.loading = loading, !.error = error, !.listing = listing]
  BY DEF FileList!FETCH_FILES_ERROR
<1>2. /\ st.loading \in FilesFlags /\ st.error \in FilesErrors
         /\ st.listing \in FilesListings
      /\ st.params \in FilesParams
  BY DEF FilesStore
<1>3. loading \in FilesFlags /\ error \in FilesErrors
  BY <1>2 DEF FilesFlags, FilesErrors
<1>4. listing \in FilesListings
  <2>1. <<>> \in FilesRows
    BY DEF FilesRows
  <2> QED
    BY <1>2, <2>1 DEF FilesListings
<1>6. /\ ~loading[s] /\ error[s] = code /\ listing[s] = <<>>
      /\ \A x \in FileList!Sections \ {s} :
           /\ loading[x] = st.loading[x] /\ error[x] = st.error[x]
           /\ listing[x] = st.listing[x]
  BY <1>2 DEF FilesFlags, FilesErrors, FilesListings
<1> HIDE DEF loading, error, listing
<1>8. LET r == FileList!FETCH_FILES_ERROR(st, s, code) IN
        /\ r \in FilesStore /\ r.loading = loading /\ r.error = error
        /\ r.listing = listing /\ r.params = st.params /\ r.selected = st.selected
        /\ r.loadingScroll = st.loadingScroll
  BY <1>1, <1>3, <1>4 DEF FilesStore
<1> QED
  BY <1>6, <1>8 DEF SameSection

\* A scroll and a listing fail alike.
LEMMA ScrollFailed ==
  ASSUME NEW st, NEW s
  PROVE  FileList!SCROLL_FILES_ERR(st, s) = FileList!FETCH_FILES_ERROR(st, s, "true")
BY DEF FileList!SCROLL_FILES_ERR, FileList!FETCH_FILES_ERROR

\* More rows are asked for.
LEMMA ScrollStarted ==
  ASSUME NEW st \in FilesStore, NEW s \in FileList!Sections
  PROVE  LET r == FileList!SCROLL_FILES_START(st, s) IN
           /\ r \in FilesStore /\ r.error[s] = "none" /\ r.loading = st.loading
           /\ r.listing = st.listing /\ r.params = st.params /\ r.selected = st.selected
           /\ \A x \in FileList!Sections \ {s} :
                r.error[x] = st.error[x] /\ r.loadingScroll[x] = st.loadingScroll[x]
<1> DEFINE loadingScroll == [st.loadingScroll EXCEPT ![s] = TRUE]
           error == [st.error EXCEPT ![s] = "none"]
<1>1. FileList!SCROLL_FILES_START(st, s) =
        [st EXCEPT !.loadingScroll = loadingScroll, !.error = error]
  BY DEF FileList!SCROLL_FILES_START
<1>2. st.loadingScroll \in FilesFlags /\ st.error \in FilesErrors
  BY DEF FilesStore
<1>3. loadingScroll \in FilesFlags /\ error \in FilesErrors
  BY <1>2 DEF FilesFlags, FilesErrors
<1>4. /\ error[s] = "none"
      /\ \A x \in FileList!Sections \ {s} :
           error[x] = st.error[x] /\ loadingScroll[x] = st.loadingScroll[x]
  BY <1>2 DEF FilesErrors, FilesFlags
<1> HIDE DEF loadingScroll, error
<1>5. LET r == FileList!SCROLL_FILES_START(st, s) IN
        /\ r \in FilesStore /\ r.error = error /\ r.loading = st.loading
        /\ r.listing = st.listing /\ r.params = st.params /\ r.selected = st.selected
        /\ r.loadingScroll = loadingScroll
  BY <1>1, <1>3 DEF FilesStore
<1> QED
  BY <1>4, <1>5

\* They come after those there are.
LEMMA ScrollTold ==
  ASSUME NEW st \in FilesStore, NEW s \in FileList!Sections, NEW rows \in FilesRows,
         NEW end \in BOOLEAN
  PROVE  LET r == FileList!SCROLL_FILES_SUCCESS(st, s, rows, end) IN
           /\ r \in FilesStore /\ r.error[s] = "none" /\ r.loading = st.loading
           /\ r.listing[s] = st.listing[s] \o rows
           /\ r.params = st.params /\ r.selected = st.selected /\ ~r.loadingScroll[s]
           /\ \A x \in FileList!Sections \ {s} :
                SameSection(st, r, x) /\ r.loadingScroll[x] = st.loadingScroll[x]
<1> DEFINE loadingScroll == [st.loadingScroll EXCEPT ![s] = FALSE]
           error == [st.error EXCEPT ![s] = "none"]
           all == st.listing[s] \o rows
           listing == [st.listing EXCEPT ![s] = all]
           reachedEnd == [st.reachedEnd EXCEPT ![s] = end]
<1>1. FileList!SCROLL_FILES_SUCCESS(st, s, rows, end) =
        [st EXCEPT !.loadingScroll = loadingScroll, !.error = error, !.listing = listing,
                   !.reachedEnd = reachedEnd]
  BY DEF FileList!SCROLL_FILES_SUCCESS
<1>2. /\ st.loadingScroll \in FilesFlags /\ st.error \in FilesErrors
      /\ st.listing \in FilesListings /\ st.reachedEnd \in FilesFlags
  BY DEF FilesStore
<1>3. /\ loadingScroll \in FilesFlags /\ error \in FilesErrors /\ reachedEnd \in FilesFlags
  BY <1>2 DEF FilesFlags, FilesErrors
<1>4. all \in FilesRows
  <2>1. st.listing[s] \in FilesRows
    BY <1>2 DEF FilesListings
  <2> QED
    BY <2>1 DEF FilesRows
<1> HIDE DEF all
<1>5. listing \in FilesListings
  BY <1>2, <1>4 DEF FilesListings
<1>6. /\ error[s] = "none" /\ listing[s] = all /\ ~loadingScroll[s]
      /\ \A x \in FileList!Sections \ {s} :
           /\ error[x] = st.error[x] /\ listing[x] = st.listing[x]
           /\ loadingScroll[x] = st.loadingScroll[x]
  BY <1>2 DEF FilesErrors, FilesListings, FilesFlags
<1> HIDE DEF loadingScroll, error, listing, reachedEnd
<1>8. LET r == FileList!SCROLL_FILES_SUCCESS(st, s, rows, end) IN
        /\ r \in FilesStore /\ r.loading = st.loading /\ r.error = error
        /\ r.listing = listing /\ r.params = st.params /\ r.selected = st.selected
        /\ r.loadingScroll = loadingScroll
  BY <1>1, <1>3, <1>5 DEF FilesStore
<1> QED
  BY <1>6, <1>8 DEF SameSection, all

(* The toggles of the selection, and the route of the projects.            *)
LEMMA SelectionToggled ==
  ASSUME NEW st \in FilesStore, Len(st.listing[Main]) <= MaxRows + 1
  PROVE  /\ \A i \in DOMAIN st.listing[Main] : LET r == FileList!TOGGLE_SELECT(st, i) IN
              /\ r \in FilesStore /\ r.loading = st.loading /\ r.error = st.error
              /\ r.loadingScroll = st.loadingScroll
              /\ r.listing = st.listing /\ r.params = st.params
              /\ r.selected \subseteq st.selected \cup DOMAIN st.listing[Main]
         /\ LET r == FileList!TOGGLE_SELECT_ALL(st) IN
              /\ r \in FilesStore /\ r.loading = st.loading /\ r.error = st.error
              /\ r.loadingScroll = st.loadingScroll
              /\ r.listing = st.listing /\ r.params = st.params
              /\ r.selected \subseteq DOMAIN st.listing[Main]
<1>1. st.listing[Main] \in FilesRows /\ st.selected \in FilesSelections
  BY DEF FilesStore, FilesListings, FileList!Sections, Main
<1>2. MaxRows \in Nat
  BY WorkbenchAssumption DEF FileList!ListingAssumption
<1>3. /\ DOMAIN st.listing[Main] = 1..Len(st.listing[Main])
      /\ Len(st.listing[Main]) \in Nat
  BY <1>1 DEF FilesRows
<1>4. DOMAIN st.listing[Main] \in FilesSelections /\ {} \in FilesSelections
  BY <1>2, <1>3 DEF FilesSelections
<1>5. ASSUME NEW sel \in FilesSelections
      PROVE  LET r == [st EXCEPT !.selected = sel] IN
               /\ r \in FilesStore /\ r.loading = st.loading /\ r.error = st.error
               /\ r.loadingScroll = st.loadingScroll
               /\ r.listing = st.listing /\ r.params = st.params /\ r.selected = sel
  BY DEF FilesStore
<1>6. ASSUME NEW i \in DOMAIN st.listing[Main]
      PROVE  LET r == FileList!TOGGLE_SELECT(st, i) IN
               /\ r \in FilesStore /\ r.loading = st.loading /\ r.error = st.error
               /\ r.loadingScroll = st.loadingScroll
               /\ r.listing = st.listing /\ r.params = st.params
               /\ r.selected \subseteq st.selected \cup DOMAIN st.listing[Main]
  <2> DEFINE sel == IF i \in st.selected THEN st.selected \ {i} ELSE st.selected \cup {i}
  <2>1. FileList!TOGGLE_SELECT(st, i) = [st EXCEPT !.selected = sel]
    BY DEF FileList!TOGGLE_SELECT
  <2>2. sel \in FilesSelections /\ sel \subseteq st.selected \cup DOMAIN st.listing[Main]
    BY <1>1, <1>4 DEF FilesSelections
  <2> HIDE DEF sel
  <2> QED
    BY <1>5, <2>1, <2>2
<1>7. LET r == FileList!TOGGLE_SELECT_ALL(st) IN
        /\ r \in FilesStore /\ r.loading = st.loading /\ r.error = st.error
        /\ r.loadingScroll = st.loadingScroll
        /\ r.listing = st.listing /\ r.params = st.params
        /\ r.selected \subseteq DOMAIN st.listing[Main]
  <2> DEFINE sel == IF st.selectAll THEN {} ELSE DOMAIN st.listing[Main]
             all == ~st.selectAll
  <2>1. FileList!TOGGLE_SELECT_ALL(st) = [st EXCEPT !.selectAll = all, !.selected = sel]
    BY DEF FileList!TOGGLE_SELECT_ALL, Main
  <2>2. sel \in FilesSelections /\ sel \subseteq DOMAIN st.listing[Main] /\ all \in BOOLEAN
    BY <1>4
  <2> HIDE DEF sel, all
  <2> QED
    BY <2>1, <2>2 DEF FilesStore
<1> QED
  BY <1>6, <1>7

\* The page of projects clears the selection and the folder of the section.
LEMMA SelectionCleared ==
  ASSUME NEW st \in FilesStore
  PROVE  LET r == FileList!CLEAR_PROJECT_SELECTION(st) IN
           /\ r \in FilesStore /\ r.loading = st.loading /\ r.listing = st.listing
           /\ r.selected = st.selected /\ r.loadingScroll = st.loadingScroll
           /\ r.error[Main] = "none" /\ r.params[Main] = FileList!NoFolder
           /\ \A x \in FileList!Sections \ {Main} : r.error[x] = st.error[x]
<1> DEFINE error == [st.error EXCEPT ![Main] = "none"]
           params == [st.params EXCEPT ![Main] = FileList!NoFolder]
<1>1. FileList!CLEAR_PROJECT_SELECTION(st) = [st EXCEPT !.error = error, !.params = params]
  BY DEF FileList!CLEAR_PROJECT_SELECTION, Main
<1>2. st.error \in FilesErrors /\ st.params \in FilesParams
  BY DEF FilesStore
<1>3. error \in FilesErrors /\ params \in FilesParams
  BY <1>2 DEF FilesErrors, FilesParams
<1>4. /\ error[Main] = "none" /\ params[Main] = FileList!NoFolder
      /\ \A x \in FileList!Sections \ {Main} : error[x] = st.error[x]
  BY <1>2 DEF FilesErrors, FilesParams, FileList!Sections, Main
<1> HIDE DEF error, params
<1> QED
  BY <1>1, <1>3, <1>4 DEF FilesStore

\* What an open call asks for.
LEMMA FilesCallsTyped ==
  ASSUME NEW cs, FilesCalls(cs), NEW w \in FileList!Watchers, NEW c \in cs[w]
  PROVE  /\ c.section \in FileList!Sections /\ c.folder \in Folders
         /\ c.offset \in 0..MaxRows
         /\ w = "FETCH_FILES_MODAL" => c.section = "modal"
BY DEF FilesCalls, FilesAsked, FileList!Call

(* A section is listed.                                                    *)
Fetch(s, f) == [section |-> s, folder |-> f, offset |-> 0]

\* Asking for a listing in place of the one that is open keeps the invariant.
LEMMA FetchKeeps ==
  ASSUME NEW st, NEW cs, NEW u, NEW x \in FilesUi,
         FilesInv(st, cs, u, TRUE),
         NEW w \in {"FETCH_FILES", "FETCH_FILES_MODAL"}, NEW s \in FileList!Sections,
         NEW f \in Folders,
         w = "FETCH_FILES_MODAL" => s = "modal",
         x.route = IF s = Main THEN f ELSE u.route,
         x.overtaken = (u.overtaken \ {s}) \cup
                          {y \in {s} : \E c \in cs["SCROLL_FILES"] : c.section = y},
         x.dropped = (u.dropped \cup {c.section : c \in cs[w]}) \ {s},
         x.unscrolled = u.unscrolled
  PROVE  FilesInv(FileList!FETCH_FILES_START(st, s, f),
                  [cs EXCEPT ![w] = {Fetch(s, f)}], x, TRUE)
<1>1. PICK r : r = FileList!FETCH_FILES_START(st, s, f)
  OBVIOUS
<1>2. PICK ds : ds = [cs EXCEPT ![w] = {Fetch(s, f)}]
  OBVIOUS
<1>0. /\ st \in FilesStore /\ FilesCalls(cs) /\ u \in FilesUi /\ MaxRows \in Nat
      /\ w \in FileList!Watchers
  BY WorkbenchAssumption
  DEF FilesInv, FilesTypes, FileList!ListingAssumption, FileList!Watchers
<1>3. /\ r \in FilesStore /\ r.error[s] = "none" /\ r.listing[s] = <<>> /\ r.params[s] = f
      /\ r.loadingScroll = st.loadingScroll
      /\ \A y \in FileList!Sections \ {s} : SameSection(st, r, y)
      /\ r.selected = IF s = Main THEN {} ELSE st.selected
  BY <1>0, <1>1, FetchStarted
<1>4. Fetch(s, f) \in FileList!Call
  BY <1>0 DEF Fetch, FileList!Call
<1>5. /\ FilesCalls(ds) /\ ds[w] = {Fetch(s, f)}
      /\ \A y \in FileList!Watchers \ {w} : ds[y] = cs[y]
  <2>1. PICK S : S = {Fetch(s, f)}
    OBVIOUS
  <2>2. AtMostOne(S) /\ S \subseteq FilesAsked(w)
    BY <1>4, <2>1 DEF AtMostOne, FilesAsked, Fetch
  <2>3. ds = [cs EXCEPT ![w] = S]
    BY <1>2, <2>1
  <2>4. /\ ds = [y \in FileList!Watchers |-> ds[y]] /\ ds[w] = S
        /\ \A y \in FileList!Watchers \ {w} : ds[y] = cs[y]
    BY <1>0, <2>3 DEF FilesCalls
  <2>5. FilesCalls(ds)
    BY <1>0, <2>2, <2>4 DEF FilesCalls
  <2> QED
    BY <2>1, <2>4, <2>5
<1>6. ds["SCROLL_FILES"] = cs["SCROLL_FILES"]
  BY <1>5 DEF FileList!Watchers
<1>9. /\ \A y \in FileList!Sections \ {s} : y \in x.overtaken <=> y \in u.overtaken
      /\ s \notin x.overtaken => \A c \in cs["SCROLL_FILES"] : c.section # s
      /\ \A y \in FileList!Sections \ {s} : y \in u.dropped => y \in x.dropped
      /\ \A c \in cs[w] : c.section = s \/ c.section \in x.dropped
  OBVIOUS
<1>10. FilesTypes(r, ds, x, TRUE)
  BY <1>3, <1>5 DEF FilesTypes
<1>11. \A y \in FileList!Sections :
         Len(r.listing[y]) <= Len(st.listing[y]) /\ Len(st.listing[y]) \in Nat
  <2> SUFFICES ASSUME NEW y \in FileList!Sections
               PROVE  Len(r.listing[y]) <= Len(st.listing[y]) /\ Len(st.listing[y]) \in Nat
    OBVIOUS
  <2>1. Len(st.listing[y]) \in Nat
    BY <1>0 DEF FilesStore, FilesListings, FilesRows
  <2>2. r.listing[y] = <<>> \/ r.listing[y] = st.listing[y]
    BY <1>3 DEF SameSection
  <2> QED
    BY <2>1, <2>2
<1>12. RowsBounded(r)
  <2> SUFFICES ASSUME NEW y \in FileList!Sections
               PROVE  /\ Len(r.listing[y]) <= MaxRows + 1
                      /\ r.error[y] # "none" => r.listing[y] = <<>>
    BY DEF RowsBounded
  <2>1. CASE y = s
    BY <1>0, <1>3, <2>1
  <2>2. CASE y # s
    BY <1>3, <2>2 DEF FilesInv, RowsBounded, SameSection
  <2> QED
    BY <2>1, <2>2
<1>13. ScrollsBelow(r, ds)
  <2> SUFFICES ASSUME NEW c \in cs["SCROLL_FILES"]
               PROVE  /\ c.offset >= 1 /\ c.offset < MaxRows
                      /\ Len(r.listing[c.section]) < MaxRows
    BY <1>6 DEF ScrollsBelow
  <2>1. c.section \in FileList!Sections /\ c.offset \in Nat
    BY <1>0, FilesCallsTyped DEF FileList!Watchers
  <2>2. c.offset >= 1 /\ c.offset < MaxRows /\ Len(st.listing[c.section]) < MaxRows
    BY DEF FilesInv, ScrollsBelow
  <2>3. /\ Len(r.listing[c.section]) <= Len(st.listing[c.section])
        /\ Len(st.listing[c.section]) \in Nat /\ Len(r.listing[c.section]) \in Nat
    <3>1. Len(r.listing[c.section]) \in Nat
      BY <1>3, <2>1 DEF FilesStore, FilesListings, FilesRows
    <3> QED
      BY <1>11, <2>1, <3>1
  <2> QED
    BY <1>0, <2>2, <2>3
<1>14. MainFetched(r, ds, x)
  <2> SUFFICES ASSUME NEW c \in ds["FETCH_FILES"], c.section = Main
               PROVE  /\ r.params[Main] # FileList!NoFolder => c.folder = r.params[Main]
                      /\ Main \notin x.overtaken => r.listing[Main] = <<>>
                         /\ r.selected = {}
    BY DEF MainFetched
  <2>1. CASE s = Main
    <3>1. w = "FETCH_FILES"
      BY <2>1 DEF Main
    <3>2. c.folder = f
      BY <1>5, <3>1 DEF Fetch
    <3> QED
      BY <1>3, <2>1, <3>2
  <2>2. CASE s # Main
    <3>1. CASE w = "FETCH_FILES"
      BY <1>5, <2>2, <3>1 DEF Fetch
    <3>2. CASE w # "FETCH_FILES"
      <4>1. c \in cs["FETCH_FILES"] /\ Main \in FileList!Sections
        BY <1>5, <3>2 DEF FileList!Watchers, FileList!Sections, Main
      <4> QED
        BY <1>3, <1>9, <2>2, <4>1 DEF FilesInv, MainFetched, SameSection
    <3> QED
      BY <3>1, <3>2
  <2> QED
    BY <2>1, <2>2
<1>15. MainScrolled(r, ds, x)
  <2> SUFFICES ASSUME NEW c \in cs["SCROLL_FILES"], c.section = Main,
    Main \notin x.overtaken
               PROVE  /\ \A d \in ds["FETCH_FILES"] : d.section # Main
                      /\ Len(r.listing[Main]) = c.offset /\ r.error[Main] = "none"
                      /\ r.params[Main] # FileList!NoFolder => c.folder = r.params[Main]
    BY <1>6 DEF MainScrolled
  <2>1. s # Main /\ Main \in FileList!Sections
    BY <1>9 DEF FileList!Sections, Main
  <2>2. /\ \A d \in cs["FETCH_FILES"] : d.section # Main
        /\ Len(st.listing[Main]) = c.offset /\ st.error[Main] = "none"
        /\ st.params[Main] # FileList!NoFolder => c.folder = st.params[Main]
    BY <1>9, <2>1 DEF FilesInv, MainScrolled
  <2>3. \A d \in ds["FETCH_FILES"] : d.section # Main
    <3>1. CASE w = "FETCH_FILES"
      BY <1>5, <2>1, <3>1 DEF Fetch
    <3>2. CASE w # "FETCH_FILES"
      BY <1>5, <2>2, <3>2 DEF FileList!Watchers
    <3> QED
      BY <3>1, <3>2
  <2> QED
    BY <1>3, <2>1, <2>2, <2>3 DEF SameSection
<1>16. RouteIsListed(r, x, TRUE)
  BY <1>3 DEF FilesInv, RouteIsListed, SameSection, FileList!Sections, Main
<1>17. FirstPage(r) /\ Prefix(r, x)
  <2>1. CASE s = Main
    BY <1>3, <2>1 DEF FirstPage, Prefix
  <2>2. CASE s # Main
    <3>1. /\ r.params[Main] = st.params[Main] /\ r.listing[Main] = st.listing[Main]
          /\ r.error[Main] = st.error[Main] /\ r.selected = st.selected
          /\ Main \in x.overtaken <=> Main \in u.overtaken
      BY <1>3, <1>9, <2>2 DEF SameSection, FileList!Sections, Main
    <3> QED
      BY <3>1 DEF FilesInv, FirstPage, Prefix
  <2> QED
    BY <2>1, <2>2
<1>18. LoadingServed(r, ds, x, TRUE)
  <2> SUFFICES ASSUME NEW y \in FileList!Sections, r.loading[y]
               PROVE  \/ \E c \in ds["FETCH_FILES"] : c.section = y
                      \/ \E c \in ds["FETCH_FILES_MODAL"] : c.section = y
                      \/ y \in x.dropped
    BY DEF LoadingServed
  <2>1. CASE y = s
    <3>1. Fetch(s, f) \in ds[w] /\ Fetch(s, f).section = y
      BY <1>5, <2>1 DEF Fetch
    <3> QED
      BY <3>1
  <2>2. CASE y # s
    <3>1. \/ \E c \in cs["FETCH_FILES"] : c.section = y
          \/ \E c \in cs["FETCH_FILES_MODAL"] : c.section = y
          \/ y \in u.dropped
      BY <1>3, <2>2 DEF FilesInv, LoadingServed, SameSection
    <3>2. \A z \in {"FETCH_FILES", "FETCH_FILES_MODAL"} : z = w \/ ds[z] = cs[z]
      BY <1>5 DEF FileList!Watchers
    <3> QED
      BY <1>9, <2>2, <3>1, <3>2
  <2> QED
    BY <2>1, <2>2
<1>19. ScrollServed(r, ds, x, TRUE)
  BY <1>3, <1>6 DEF FilesInv, ScrollServed
<1> QED
  BY <1>1, <1>2, <1>10, <1>12, <1>13, <1>14, <1>15, <1>16, <1>17, <1>18, <1>19 DEF FilesInv

\* The parts of a section.
LEMMA FilesTyped ==
  ASSUME NEW st \in FilesStore, NEW s \in FileList!Sections
  PROVE  /\ st.loading[s] \in BOOLEAN /\ st.listing[s] \in FilesRows
         /\ Len(st.listing[s]) \in Nat
         /\ DOMAIN st.listing[s] = 1..Len(st.listing[s])
         /\ st.params[s] \in Folders \cup {FileList!NoFolder}
BY DEF FilesStore, FilesFlags, FilesListings, FilesRows, FilesParams

(* A listing is told: its rows, or its failure.                            *)
LEMMA AnswerKeeps ==
  ASSUME NEW st, NEW cs, NEW u, NEW al, FilesInv(st, cs, u, al),
         NEW w \in {"FETCH_FILES", "FETCH_FILES_MODAL"}, NEW c \in cs[w],
         NEW ds, ds = [cs EXCEPT ![w] = {}], NEW r,
         \/ r = FileList!FETCH_FILES_SUCCESS(st, c.section, FileList!Page(c.folder, 0),
                                             FileList!ReachedEnd(c.folder, 0))
         \/ \E code \in Codes : r = FileList!FETCH_FILES_ERROR(st, c.section, code)
  PROVE  FilesInv(r, ds, u, al)
<1>0. /\ st \in FilesStore /\ FilesCalls(cs) /\ u \in FilesUi /\ al \in BOOLEAN
      /\ MaxRows \in Nat /\ w \in FileList!Watchers /\ 0 \in 0..MaxRows
  BY WorkbenchAssumption
  DEF FilesInv, FilesTypes, FileList!ListingAssumption, FileList!Watchers
<1>1. PICK s, f : s = c.section /\ f = c.folder
  OBVIOUS
<1>2. /\ s \in FileList!Sections /\ f \in Folders
      /\ w = "FETCH_FILES_MODAL" => s = "modal"
  BY <1>0, <1>1, FilesCallsTyped
<1>3. /\ r \in FilesStore /\ ~r.loading[s] /\ r.params = st.params
      /\ r.selected = st.selected /\ r.loadingScroll = st.loadingScroll
      /\ \A y \in FileList!Sections \ {s} : SameSection(st, r, y)
      /\ \/ r.listing[s] = FileList!Page(f, 0) /\ r.error[s] = "none"
         \/ r.listing[s] = <<>>
  <2>1. CASE r = FileList!FETCH_FILES_SUCCESS(st, s, FileList!Page(f, 0),
                                              FileList!ReachedEnd(f, 0))
    <3>1. FileList!Page(f, 0) \in FilesRows /\ FileList!ReachedEnd(f, 0) \in BOOLEAN
      BY <1>0, <1>2, PageOfRows
    <3> QED
      BY <1>0, <1>2, <2>1, <3>1, FetchTold
  <2>2. CASE \E code \in Codes : r = FileList!FETCH_FILES_ERROR(st, s, code)
    BY <1>0, <1>2, <2>2, FetchFailed
  <2> QED
    BY <1>1, <2>1, <2>2
<1>4. /\ ds = [y \in FileList!Watchers |-> ds[y]] /\ ds[w] = {}
      /\ \A y \in FileList!Watchers \ {w} : ds[y] = cs[y]
  BY <1>0 DEF FilesCalls
<1>5. FilesCalls(ds)
  BY <1>0, <1>4 DEF FilesCalls, AtMostOne
<1>6. /\ ds["SCROLL_FILES"] = cs["SCROLL_FILES"]
      /\ ds["FETCH_FILES"] \subseteq cs["FETCH_FILES"]
  BY <1>4 DEF FileList!Watchers
<1>7. /\ Len(FileList!Page(f, 0)) <= 1 /\ FileList!Page(f, 0) \in FilesRows
      /\ \A i \in DOMAIN FileList!Page(f, 0) :
           /\ i = 1 /\ FileList!Page(f, 0)[i] = [folder |-> f, nth |-> 1]
  <2>1. FileList!Page(f, 0) \in FilesRows /\ Len(FileList!Page(f, 0)) <= 1
    BY <1>0, <1>2, PageOfRows
  <2>2. ASSUME NEW i \in DOMAIN FileList!Page(f, 0)
        PROVE  i = 1 /\ FileList!Page(f, 0)[i] = [folder |-> f, nth |-> 1]
    BY <1>0, <1>2, PageOfRows
  <2> QED
    BY <2>1, <2>2
<1>8. Len(r.listing[s]) <= 1 /\ Len(r.listing[s]) \in Nat
  BY <1>2, <1>3, <1>7, FilesTyped
<1>9. FilesTypes(r, ds, u, al)
  BY <1>0, <1>3, <1>5 DEF FilesTypes
<1>10. RowsBounded(r)
  <2> SUFFICES ASSUME NEW y \in FileList!Sections
               PROVE  /\ Len(r.listing[y]) <= MaxRows + 1
                      /\ r.error[y] # "none" => r.listing[y] = <<>>
    BY DEF RowsBounded
  <2>1. CASE y = s
    BY <1>0, <1>3, <1>8, <2>1
  <2>2. CASE y # s
    BY <1>3, <2>2 DEF FilesInv, RowsBounded, SameSection
  <2> QED
    BY <2>1, <2>2
<1>11. ScrollsBelow(r, ds)
  <2> SUFFICES ASSUME NEW d \in cs["SCROLL_FILES"]
               PROVE  /\ d.offset >= 1 /\ d.offset < MaxRows
                      /\ Len(r.listing[d.section]) < MaxRows
    BY <1>6 DEF ScrollsBelow
  <2>1. d.section \in FileList!Sections /\ d.offset \in Nat
    BY <1>0, FilesCallsTyped DEF FileList!Watchers
  <2>2. d.offset >= 1 /\ d.offset < MaxRows /\ Len(st.listing[d.section]) < MaxRows
    BY DEF FilesInv, ScrollsBelow
  <2>3. CASE d.section = s
    BY <1>0, <1>8, <2>1, <2>2, <2>3
  <2>4. CASE d.section # s
    BY <1>3, <2>1, <2>2, <2>4 DEF SameSection
  <2> QED
    BY <2>3, <2>4
<1>12. w = "FETCH_FILES" => ds["FETCH_FILES"] = {}
  BY <1>4
<1>13. ASSUME s # Main
       PROVE  /\ r.params[Main] = st.params[Main] /\ r.listing[Main] = st.listing[Main]
              /\ r.error[Main] = st.error[Main] /\ r.selected = st.selected
  BY <1>3, <1>13 DEF SameSection, FileList!Sections, Main
<1>14. s = Main => w = "FETCH_FILES"
  BY <1>2 DEF Main
<1>15. MainFetched(r, ds, u)
  BY <1>6, <1>12, <1>13, <1>14 DEF FilesInv, MainFetched
<1>16. MainScrolled(r, ds, u)
  <2> SUFFICES ASSUME NEW d \in cs["SCROLL_FILES"], d.section = Main,
    Main \notin u.overtaken
               PROVE  /\ \A e \in ds["FETCH_FILES"] : e.section # Main
                      /\ Len(r.listing[Main]) = d.offset /\ r.error[Main] = "none"
                      /\ r.params[Main] # FileList!NoFolder => d.folder = r.params[Main]
    BY <1>6 DEF MainScrolled
  <2>1. /\ \A e \in cs["FETCH_FILES"] : e.section # Main
        /\ Len(st.listing[Main]) = d.offset /\ st.error[Main] = "none"
        /\ st.params[Main] # FileList!NoFolder => d.folder = st.params[Main]
    BY DEF FilesInv, MainScrolled
  <2>2. s # Main
    BY <1>1, <1>14, <2>1
  <2> QED
    BY <1>6, <1>13, <2>1, <2>2
<1>17. RouteIsListed(r, u, al)
  BY <1>3 DEF FilesInv, RouteIsListed
<1>18. FirstPage(r) /\ Prefix(r, u)
  <2>1. CASE s # Main
    BY <1>13, <2>1 DEF FilesInv, FirstPage, Prefix
  <2>2. CASE s = Main
    <3>1. c \in cs["FETCH_FILES"] /\ c.section = Main /\ c.folder = f
      BY <1>1, <1>14, <2>2
    <3>2. /\ st.params[Main] # FileList!NoFolder => f = st.params[Main]
          /\ Main \notin u.overtaken => st.selected = {}
      BY <3>1 DEF FilesInv, MainFetched
    <3>3. FileList!NoFolder \notin Folders
      BY WorkbenchAssumption DEF FileList!ListingAssumption
    <3>4. \A i \in DOMAIN r.listing[Main] :
             i = 1 /\ r.listing[Main][i] = [folder |-> f, nth |-> 1]
      BY <1>3, <1>7, <2>2
    <3>5. FirstPage(r)
      BY <1>3, <3>2, <3>3, <3>4 DEF FirstPage
    <3>6. Prefix(r, u)
      BY <1>3, <3>2, <3>3, <3>4 DEF Prefix
    <3> QED
      BY <3>5, <3>6
  <2> QED
    BY <2>1, <2>2
<1>19. LoadingServed(r, ds, u, al)
  <2> SUFFICES ASSUME NEW y \in FileList!Sections, r.loading[y]
               PROVE  \/ \E d \in ds["FETCH_FILES"] : d.section = y
                      \/ \E d \in ds["FETCH_FILES_MODAL"] : d.section = y
                      \/ y \in u.dropped \/ ~al
    BY DEF LoadingServed
  <2>1. y # s /\ st.loading[y]
    BY <1>3 DEF SameSection
  <2>2. \/ \E d \in cs["FETCH_FILES"] : d.section = y
        \/ \E d \in cs["FETCH_FILES_MODAL"] : d.section = y
        \/ y \in u.dropped \/ ~al
    BY <2>1 DEF FilesInv, LoadingServed
  <2>3. \A z \in {"FETCH_FILES", "FETCH_FILES_MODAL"} : z = w \/ ds[z] = cs[z]
    BY <1>4 DEF FileList!Watchers
  <2>4. \A d \in cs[w] : d.section = s
    BY <1>0, <1>1 DEF FilesCalls, AtMostOne
  <2> QED
    BY <2>1, <2>2, <2>3, <2>4
<1>20. ScrollServed(r, ds, u, al)
  BY <1>3, <1>6 DEF FilesInv, ScrollServed
<1> QED
  BY <1>9, <1>10, <1>11, <1>15, <1>16, <1>17, <1>18, <1>19, <1>20 DEF FilesInv

(* No answer comes, and the root saga ends.                                *)
LEMMA LostKeeps ==
  ASSUME NEW st, NEW cs, NEW u, NEW al, FilesInv(st, cs, u, al),
         NEW ds, ds = [w \in FileList!Watchers |-> {}]
  PROVE  FilesInv(st, ds, u, FALSE)
<1>1. \A w \in FileList!Watchers : ds[w] = {}
  OBVIOUS
<1>2. FilesCalls(ds)
  BY <1>1 DEF FilesCalls, AtMostOne
<1> QED
  BY <1>1, <1>2
  DEF FilesInv, FilesTypes, ScrollsBelow, MainFetched, MainScrolled, RouteIsListed,
      LoadingServed, ScrollServed, FileList!Watchers

(* A scroll is asked for at the last row.                                  *)
LEMMA ScrollKeeps ==
  ASSUME NEW st, NEW cs, NEW u, FilesInv(st, cs, u, TRUE),
         NEW s \in FileList!Sections, NEW f \in Folders, s = Main => u.route = f,
         cs["SCROLL_FILES"] = {}, st.listing[s] # <<>>, Len(st.listing[s]) < MaxRows,
         NEW ds, ds = [cs EXCEPT !["SCROLL_FILES"] =
                          {[section |-> s, folder |-> f, offset |-> Len(st.listing[s])]}],
         NEW x, x = [u EXCEPT !.unscrolled = @ \ {s}]
  PROVE  FilesInv(FileList!SCROLL_FILES_START(st, s), ds, x, TRUE)
<1>0. /\ st \in FilesStore /\ FilesCalls(cs) /\ u \in FilesUi /\ MaxRows \in Nat
      /\ "SCROLL_FILES" \in FileList!Watchers
  BY WorkbenchAssumption
  DEF FilesInv, FilesTypes, FileList!ListingAssumption, FileList!Watchers
<1>1. PICK r : r = FileList!SCROLL_FILES_START(st, s)
  OBVIOUS
<1>2. PICK c : c = [section |-> s, folder |-> f, offset |-> Len(st.listing[s])]
  OBVIOUS
<1>3. /\ r \in FilesStore /\ r.error[s] = "none" /\ r.loading = st.loading
      /\ r.listing = st.listing /\ r.params = st.params /\ r.selected = st.selected
      /\ \A y \in FileList!Sections \ {s} :
           r.error[y] = st.error[y] /\ r.loadingScroll[y] = st.loadingScroll[y]
  BY <1>0, <1>1, ScrollStarted
<1>u. /\ x \in FilesUi /\ x.route = u.route /\ x.overtaken = u.overtaken
      /\ x.dropped = u.dropped /\ x.unscrolled = u.unscrolled \ {s}
  BY <1>0 DEF FilesUi
<1>4. Len(st.listing[s]) \in Nat /\ Len(st.listing[s]) >= 1
  <2>1. st.listing[s] \in FilesRows /\ Len(st.listing[s]) \in Nat
    BY <1>0, FilesTyped
  <2> QED
    BY <2>1 DEF FilesRows
<1>5. /\ c.section = s /\ c.folder = f /\ c.offset = Len(st.listing[s])
      /\ c \in FilesAsked("SCROLL_FILES")
  BY <1>0, <1>2, <1>4 DEF FilesAsked, FileList!Call
<1>6. /\ ds = [y \in FileList!Watchers |-> ds[y]] /\ ds["SCROLL_FILES"] = {c}
      /\ \A y \in FileList!Watchers \ {"SCROLL_FILES"} : ds[y] = cs[y]
  BY <1>0, <1>2 DEF FilesCalls
<1>7. FilesCalls(ds)
  BY <1>0, <1>5, <1>6 DEF FilesCalls, AtMostOne
<1>8. /\ ds["FETCH_FILES"] = cs["FETCH_FILES"]
      /\ ds["FETCH_FILES_MODAL"] = cs["FETCH_FILES_MODAL"]
  BY <1>6 DEF FileList!Watchers
<1>9. FilesTypes(r, ds, x, TRUE)
  BY <1>0, <1>3, <1>7, <1>u DEF FilesTypes
<1>10. RowsBounded(r)
  BY <1>3 DEF FilesInv, RowsBounded
<1>11. ScrollsBelow(r, ds)
  BY <1>3, <1>4, <1>5, <1>6 DEF ScrollsBelow
<1>12. st.error[s] = "none"
  BY DEF FilesInv, RowsBounded
<1>13. MainFetched(r, ds, x)
  BY <1>u, <1>3, <1>8 DEF FilesInv, MainFetched
<1>14. MainScrolled(r, ds, x)
  <2> SUFFICES ASSUME s = Main, Main \notin u.overtaken
               PROVE  /\ \A d \in cs["FETCH_FILES"] : d.section # Main
                      /\ r.params[Main] # FileList!NoFolder => f = r.params[Main]
    BY <1>3, <1>5, <1>6, <1>8, <1>u DEF MainScrolled
  <2>1. \A d \in cs["FETCH_FILES"] : d.section # Main
    BY DEF FilesInv, MainFetched
  <2>2. f = st.params[Main]
    BY DEF FilesInv, RouteIsListed
  <2> QED
    BY <1>3, <2>1, <2>2
<1>15. RouteIsListed(r, x, TRUE) /\ FirstPage(r)
  BY <1>3, <1>u DEF FilesInv, RouteIsListed, FirstPage
<1>16. Prefix(r, x)
  <2>1. r.error[Main] = st.error[Main]
    BY <1>3, <1>12 DEF FileList!Sections, Main
  <2> QED
    BY <1>3, <1>u, <2>1 DEF FilesInv, Prefix
<1>17. LoadingServed(r, ds, x, TRUE)
  BY <1>3, <1>8, <1>u DEF FilesInv, LoadingServed
<1>18. ScrollServed(r, ds, x, TRUE)
  <2> SUFFICES ASSUME NEW y \in FileList!Sections, r.loadingScroll[y], y # s
               PROVE  y \in x.unscrolled
    BY <1>5, <1>6 DEF ScrollServed
  <2> QED
    BY <1>3, <1>u DEF FilesInv, ScrollServed
<1> QED
  BY <1>1, <1>9, <1>10, <1>11, <1>13, <1>14, <1>15, <1>16, <1>17, <1>18 DEF FilesInv

(* A scroll is told: rows that follow, or its failure.                     *)
LEMMA ScrollAnswerKeeps ==
  ASSUME NEW st, NEW cs, NEW u, NEW al, FilesInv(st, cs, u, al),
         NEW c \in cs["SCROLL_FILES"], NEW ds, ds = [cs EXCEPT !["SCROLL_FILES"] = {}],
         NEW r, NEW v,
         \/ /\ r = FileList!SCROLL_FILES_SUCCESS(st, c.section,
                    FileList!Page(c.folder, c.offset),
                      FileList!ReachedEnd(c.folder, c.offset))
            /\ v = u
         \/ /\ r = FileList!SCROLL_FILES_ERR(st, c.section)
            /\ v = [u EXCEPT !.unscrolled = @ \cup {c.section}]
  PROVE  FilesInv(r, ds, v, al)
<1>0. /\ st \in FilesStore /\ FilesCalls(cs) /\ u \in FilesUi /\ al \in BOOLEAN
      /\ MaxRows \in Nat /\ "SCROLL_FILES" \in FileList!Watchers
  BY WorkbenchAssumption
  DEF FilesInv, FilesTypes, FileList!ListingAssumption, FileList!Watchers
<1>1. PICK s, f, n, rows :
        s = c.section /\ f = c.folder /\ n = c.offset /\ rows = FileList!Page(f, n)
  OBVIOUS
<1>2. /\ s \in FileList!Sections /\ f \in Folders /\ n \in 0..MaxRows
      /\ n >= 1 /\ n < MaxRows /\ Len(st.listing[s]) < MaxRows
  BY <1>0, <1>1, FilesCallsTyped DEF FilesInv, ScrollsBelow
<1>v. /\ v \in FilesUi /\ v.route = u.route /\ v.overtaken = u.overtaken
      /\ v.dropped = u.dropped /\ u.unscrolled \subseteq v.unscrolled
      /\ v = u \/ s \in v.unscrolled
  BY <1>0, <1>1, <1>2 DEF FilesUi
<1>3. /\ rows \in FilesRows /\ Len(rows) <= 1
      /\ FileList!ReachedEnd(f, n) \in BOOLEAN
  BY <1>1, <1>2, PageOfRows
<1>4. \A i \in DOMAIN rows :
        i = 1 /\ rows[i] = [folder |-> f, nth |-> IF f \in Drive THEN 1 ELSE n + 1]
  <2> SUFFICES ASSUME NEW i \in DOMAIN FileList!Page(f, n)
               PROVE  i = 1 /\ FileList!Page(f, n)[i] =
                          [folder |-> f, nth |-> IF f \in Drive THEN 1 ELSE n + 1]
    BY <1>1
  <2> QED
    BY <1>2, PageOfRows
<1>5. /\ r \in FilesStore /\ r.params = st.params /\ r.selected = st.selected
      /\ \A y \in FileList!Sections \ {s} : SameSection(st, r, y)
      /\ r.loading[s] => st.loading[s]
      /\ \/ r.listing[s] = st.listing[s] \o rows /\ r.error[s] = "none"
         \/ r.listing[s] = <<>> /\ r.error[s] = "true"
      /\ \A y \in FileList!Sections :
           r.loadingScroll[y] => st.loadingScroll[y] /\ (y # s \/ s \in v.unscrolled)
  <2>1. CASE /\ r = FileList!SCROLL_FILES_SUCCESS(st, s, rows, FileList!ReachedEnd(f, n))
             /\ v = u
    <3>1. PICK end \in BOOLEAN : end = FileList!ReachedEnd(f, n)
      BY <1>3
    <3>2. r = FileList!SCROLL_FILES_SUCCESS(st, s, rows, end)
      BY <2>1, <3>1
    <3>a. st \in FilesStore /\ s \in FileList!Sections /\ rows \in FilesRows
      BY <1>0, <1>2, <1>3
    <3>3. /\ r \in FilesStore /\ r.error[s] = "none" /\ r.loading = st.loading
          /\ r.listing[s] = st.listing[s] \o rows
          /\ r.params = st.params /\ r.selected = st.selected /\ ~r.loadingScroll[s]
          /\ \A x \in FileList!Sections \ {s} :
               SameSection(st, r, x) /\ r.loadingScroll[x] = st.loadingScroll[x]
      BY ONLY <3>a, <3>1, <3>2, ScrollTold
    <3> QED
      BY <3>3
  <2>2. CASE /\ r = FileList!SCROLL_FILES_ERR(st, s)
             /\ v = [u EXCEPT !.unscrolled = @ \cup {s}]
    <3>1. r = FileList!FETCH_FILES_ERROR(st, s, "true") /\ "true" \in Codes \cup {"true"}
      BY <2>2, ScrollFailed
    <3> QED
      BY <1>0, <1>2, <1>v, <2>2, <3>1, FetchFailed
  <2> QED
    BY <1>1, <2>1, <2>2
<1>6. /\ ds = [y \in FileList!Watchers |-> ds[y]] /\ ds["SCROLL_FILES"] = {}
      /\ \A y \in FileList!Watchers \ {"SCROLL_FILES"} : ds[y] = cs[y]
  BY <1>0 DEF FilesCalls
<1>7. FilesCalls(ds)
  BY <1>0, <1>6 DEF FilesCalls, AtMostOne
<1>8. /\ ds["FETCH_FILES"] = cs["FETCH_FILES"]
      /\ ds["FETCH_FILES_MODAL"] = cs["FETCH_FILES_MODAL"]
  BY <1>6 DEF FileList!Watchers
<1>9. st.listing[s] \in FilesRows /\ Len(st.listing[s]) \in Nat
  BY <1>0, <1>2, FilesTyped
<1>10. /\ DOMAIN (st.listing[s] \o rows) = 1..(Len(st.listing[s]) + Len(rows))
       /\ Len(st.listing[s] \o rows) = Len(st.listing[s]) + Len(rows)
       /\ \A i \in DOMAIN (st.listing[s] \o rows) :
            \/ i \in DOMAIN st.listing[s] /\ (st.listing[s] \o rows)[i] = st.listing[s][i]
            \/ /\ i = Len(st.listing[s]) + 1
               /\ (st.listing[s] \o rows)[i] =
                     [folder |-> f, nth |-> IF f \in Drive THEN 1 ELSE n + 1]
       /\ DOMAIN st.listing[s] \subseteq DOMAIN (st.listing[s] \o rows)
  <2>1. PICK a, b : a = st.listing[s] /\ b = rows
    OBVIOUS
  <2>2. /\ a \in Seq(FileList!Row) /\ b \in Seq(FileList!Row) /\ Len(b) \in Nat
        /\ Len(b) <= 1 /\ Len(a) \in Nat
    BY <1>3, <1>9, <2>1 DEF FilesRows
  <2>3. /\ DOMAIN (a \o b) = 1..(Len(a) + Len(b)) /\ Len(a \o b) = Len(a) + Len(b)
        /\ \A i \in 1..(Len(a) + Len(b)) :
              (a \o b)[i] = IF i <= Len(a) THEN a[i] ELSE b[i - Len(a)]
        /\ DOMAIN a = 1..Len(a) /\ DOMAIN b = 1..Len(b)
    BY <2>2
  <2>4. ASSUME NEW i \in 1..(Len(a) + Len(b))
        PROVE  \/ i \in DOMAIN a /\ (a \o b)[i] = a[i]
               \/ /\ i = Len(a) + 1
                  /\ (a \o b)[i] = [folder |-> f, nth |-> IF f \in Drive THEN 1 ELSE n + 1]
    <3>1. CASE i <= Len(a)
      BY <2>2, <2>3, <3>1
    <3>2. CASE ~(i <= Len(a))
      <4>1. i = Len(a) + 1 /\ i - Len(a) = 1 /\ 1 \in DOMAIN b
        BY <2>2, <2>3, <3>2
      <4> QED
        BY <1>4, <2>1, <2>3, <3>2, <4>1
    <3> QED
      BY <3>1, <3>2
  <2> QED
    BY <2>1, <2>2, <2>3, <2>4
<1>11. FilesTypes(r, ds, v, al)
  BY <1>v, <1>0, <1>5, <1>7 DEF FilesTypes
<1>12. RowsBounded(r)
  <2> SUFFICES ASSUME NEW y \in FileList!Sections
               PROVE  /\ Len(r.listing[y]) <= MaxRows + 1
                      /\ r.error[y] # "none" => r.listing[y] = <<>>
    BY DEF RowsBounded
  <2>1. CASE y = s
    <3>1. Len(rows) \in Nat
      BY <1>3 DEF FilesRows
    <3> QED
      BY <1>0, <1>2, <1>3, <1>5, <1>9, <1>10, <2>1, <3>1
  <2>2. CASE y # s
    BY <1>5, <2>2 DEF FilesInv, RowsBounded, SameSection
  <2> QED
    BY <2>1, <2>2
<1>13. ScrollsBelow(r, ds) /\ MainScrolled(r, ds, v)
  BY <1>6 DEF ScrollsBelow, MainScrolled
<1>14. ASSUME s # Main
       PROVE  /\ r.listing[Main] = st.listing[Main] /\ r.error[Main] = st.error[Main]
  BY <1>5, <1>14 DEF SameSection, FileList!Sections, Main
<1>15. MainFetched(r, ds, v)
  <2>1. CASE s # Main
    BY <1>v, <1>5, <1>8, <1>14, <2>1 DEF FilesInv, MainFetched
  <2>2. CASE s = Main
    <3>1. Main \notin u.overtaken => \A d \in cs["FETCH_FILES"] : d.section # Main
      BY <1>1, <2>2 DEF FilesInv, MainScrolled
    <3> QED
      BY <1>v, <1>5, <1>8, <3>1 DEF FilesInv, MainFetched
  <2> QED
    BY <2>1, <2>2
<1>16. RouteIsListed(r, v, al)
  BY <1>5, <1>v DEF FilesInv, RouteIsListed
<1>17. FirstPage(r)
  <2>1. CASE s # Main
    BY <1>5, <1>14, <2>1 DEF FilesInv, FirstPage
  <2>2. CASE s = Main
    <3> SUFFICES ASSUME st.params[Main] \in Folders, NEW i \in DOMAIN r.listing[Main],
                        r.listing[Main][i].nth = 1, r.listing[Main][i].folder \notin Drive
                 PROVE  r.listing[Main][i].folder = st.params[Main]
      BY <1>5 DEF FirstPage
    <3>1. /\ r.listing[Main] = st.listing[Main] \o rows
          /\ \/ i \in DOMAIN st.listing[Main]
                /\ r.listing[Main][i] = st.listing[Main][i]
             \/ r.listing[Main][i] = [folder |-> f, nth |-> IF f \in Drive THEN 1
                ELSE n + 1]
      <4>1. r.listing[Main] # <<>>
        OBVIOUS
      <4>2. r.listing[Main] = st.listing[s] \o rows
        BY <1>5, <2>2, <4>1
      <4> QED
        BY <1>10, <2>2, <4>2
    <3>2. CASE i \in DOMAIN st.listing[Main] /\ r.listing[Main][i] = st.listing[Main][i]
      BY <3>2 DEF FilesInv, FirstPage
    <3>3. CASE r.listing[Main][i] = [folder |-> f, nth |-> IF f \in Drive THEN 1 ELSE n + 1]
      BY <1>2, <3>3
    <3> QED
      BY <3>1, <3>2, <3>3
  <2> QED
    BY <2>1, <2>2
<1>18. Prefix(r, v)
  <2>1. CASE s # Main
    BY <1>v, <1>5, <1>14, <2>1 DEF FilesInv, Prefix
  <2>2. CASE s = Main
    <3> SUFFICES ASSUME st.params[Main] \in Folders \ Drive, Main \notin u.overtaken,
                        r.error[Main] # "true"
                 PROVE  /\ \A i \in DOMAIN r.listing[Main] :
                              r.listing[Main][i] = [folder |-> st.params[Main], nth |-> i]
                        /\ st.selected \subseteq DOMAIN r.listing[Main]
      BY <1>5, <1>v DEF Prefix
    <3>1. r.listing[Main] = st.listing[Main] \o rows
      BY <1>5, <2>2
    <3>2. FileList!NoFolder \notin Folders
      BY WorkbenchAssumption DEF FileList!ListingAssumption
    <3>3. Len(st.listing[Main]) = n /\ st.error[Main] = "none" /\ f = st.params[Main]
      BY <1>1, <2>2, <3>2 DEF FilesInv, MainScrolled
    <3>4. /\ \A i \in DOMAIN st.listing[Main] :
                st.listing[Main][i] = [folder |-> f, nth |-> i]
          /\ st.selected \subseteq DOMAIN st.listing[Main]
      BY <3>3 DEF FilesInv, Prefix
    <3> QED
      BY <1>10, <2>2, <3>1, <3>3, <3>4
  <2> QED
    BY <2>1, <2>2
<1>19. LoadingServed(r, ds, v, al)
  <2>1. \A y \in FileList!Sections : r.loading[y] => st.loading[y]
    BY <1>5 DEF SameSection
  <2> QED
    BY <1>8, <1>v, <2>1 DEF FilesInv, LoadingServed
<1>20. ScrollServed(r, ds, v, al)
  <2> SUFFICES ASSUME NEW y \in FileList!Sections, r.loadingScroll[y], al, y # s
               PROVE  y \in v.unscrolled
    BY <1>0, <1>5 DEF ScrollServed
  <2>1. \A d \in cs["SCROLL_FILES"] : d.section = s
    BY <1>0, <1>1 DEF FilesCalls, AtMostOne
  <2> QED
    BY <1>5, <1>v, <2>1 DEF FilesInv, ScrollServed
<1> QED
  BY <1>11, <1>12, <1>13, <1>15, <1>16, <1>17, <1>18, <1>19, <1>20 DEF FilesInv

(* A step of the page alone.                                               *)
LEMMA PlaceKeeps ==
  ASSUME NEW st, NEW cs, NEW u, NEW al, FilesInv(st, cs, u, al), NEW x \in FilesUi,
         x.overtaken = u.overtaken, x.dropped = u.dropped,
         x.unscrolled = u.unscrolled, al => x.route = u.route
  PROVE  FilesInv(st, cs, x, al)
BY DEF FilesInv, FilesTypes, MainFetched, MainScrolled, RouteIsListed, Prefix,
   LoadingServed,
       ScrollServed

\* Selecting rows that are listed keeps it.
LEMMA SelectionKeeps ==
  ASSUME NEW st, NEW cs, NEW u, NEW al, FilesInv(st, cs, u, al),
         st.listing[Main] # <<>>, NEW r \in FilesStore,
         r.loading = st.loading, r.loadingScroll = st.loadingScroll, r.error = st.error,
         r.listing = st.listing,
         r.params = st.params, r.selected \subseteq st.selected \cup DOMAIN st.listing[Main]
  PROVE  FilesInv(r, cs, u, al)
<1>1. MainFetched(r, cs, u)
  BY DEF FilesInv, MainFetched
<1>2. Prefix(r, u)
  BY DEF FilesInv, Prefix
<1> QED
  BY <1>1, <1>2
  DEF FilesInv, FilesTypes, RowsBounded, ScrollsBelow, MainScrolled, RouteIsListed,
      FirstPage, LoadingServed, ScrollServed

\* So does opening the page of projects.
LEMMA ProjectsKeep ==
  ASSUME NEW st, NEW cs, NEW u, FilesInv(st, cs, u, TRUE), NEW x \in FilesUi,
         x.overtaken = u.overtaken, x.dropped = u.dropped, x.unscrolled = u.unscrolled,
         x.route = Projects
  PROVE  FilesInv(FileList!CLEAR_PROJECT_SELECTION(st), cs, x, TRUE)
<1>1. PICK r : r = FileList!CLEAR_PROJECT_SELECTION(st)
  OBVIOUS
<1>2. st \in FilesStore /\ FileList!NoFolder \notin Folders /\ Projects \notin Folders
  BY WorkbenchAssumption DEF FilesInv, FilesTypes, FileList!ListingAssumption
<1>3. /\ r \in FilesStore /\ r.loading = st.loading /\ r.listing = st.listing
      /\ r.selected = st.selected /\ r.loadingScroll = st.loadingScroll
      /\ r.error[Main] = "none" /\ r.params[Main] = FileList!NoFolder
      /\ \A y \in FileList!Sections \ {Main} : r.error[y] = st.error[y]
  BY <1>1, <1>2, SelectionCleared
<1>4. FilesTypes(r, cs, x, TRUE) /\ RouteIsListed(r, x, TRUE)
  BY <1>2, <1>3 DEF FilesInv, FilesTypes, RouteIsListed
<1>5. RowsBounded(r) /\ ScrollsBelow(r, cs)
  BY <1>3 DEF FilesInv, RowsBounded, ScrollsBelow
<1>6. MainFetched(r, cs, x) /\ MainScrolled(r, cs, x)
  BY <1>3 DEF FilesInv, MainFetched, MainScrolled
<1>7. /\ FirstPage(r) /\ Prefix(r, x) /\ LoadingServed(r, cs, x, TRUE)
      /\ ScrollServed(r, cs, x, TRUE)
  BY <1>2, <1>3 DEF FilesInv, FirstPage, Prefix, LoadingServed, ScrollServed
<1> QED
  BY <1>1, <1>4, <1>5, <1>6, <1>7 DEF FilesInv

FilesNow == FilesInv(store, calls, ui, alive)

\* A page that asks for a listing keeps it.
LEMMA FilesFetched ==
  ASSUME FilesNow, NEW w \in {"FETCH_FILES", "FETCH_FILES_MODAL"},
         NEW s \in FileList!Sections, NEW f \in Folders, NEW v \in FilesUi,
         w = "FETCH_FILES_MODAL" => s = "modal",
         v.overtaken = ui.overtaken, v.dropped = ui.dropped,
         v.unscrolled = ui.unscrolled,
         v.route = IF s = Main THEN f ELSE ui.route,
         FileList!fetchFiles(w, s, f, v), alive' = alive
  PROVE  FilesNow'
<1>0. /\ FilesInv(store, calls, ui, alive) /\ alive \in BOOLEAN /\ FilesCalls(calls)
      /\ ui \in FilesUi /\ w \in FileList!Watchers
  BY DEF FilesNow, FilesInv, FilesTypes, FileList!Watchers
<1>1. CASE ~alive
  <2>1. store' = store /\ calls' = calls /\ ui' = v
    BY <1>1 DEF FileList!fetchFiles
  <2>2. FilesInv(store, calls, v, alive)
    BY <1>0, <1>1, PlaceKeeps
  <2> QED
    BY <2>1, <2>2 DEF FilesNow
<1>2. CASE alive
  <2> DEFINE o == (v.overtaken \ {s}) \cup
                      {x \in {s} : \E c \in calls["SCROLL_FILES"] : c.section = x}
             d == (v.dropped \cup {c.section : c \in calls[w]}) \ {s}
  <2>1. /\ store' = FileList!FETCH_FILES_START(store, s, f)
        /\ calls' = [calls EXCEPT ![w] = {Fetch(s, f)}]
        /\ ui' = [v EXCEPT !.overtaken = o, !.dropped = d]
    BY <1>2 DEF FileList!fetchFiles, Fetch
  <2>2. o \in SUBSET FileList!Sections /\ d \in SUBSET FileList!Sections
    <3>1. \A c \in calls[w] : c.section \in FileList!Sections
      BY <1>0, FilesCallsTyped
    <3> QED
      BY <1>0, <3>1 DEF FilesUi
  <2> HIDE DEF o, d
  <2>3. /\ ui' \in FilesUi /\ ui'.route = v.route /\ ui'.overtaken = o /\ ui'.dropped = d
        /\ ui'.unscrolled = v.unscrolled
    BY <2>1, <2>2 DEF FilesUi
  <2>4. FilesInv(store, calls, ui, TRUE)
    BY <1>0, <1>2
  <2>5. FilesInv(FileList!FETCH_FILES_START(store, s, f),
                 [calls EXCEPT ![w] = {Fetch(s, f)}], ui', TRUE)
    BY <2>3, <2>4, FetchKeeps DEF o, d
  <2>6. alive' = TRUE
    BY <1>2
  <2> QED
    BY <2>1, <2>5, <2>6 DEF FilesNow
<1> QED
  BY <1>1, <1>2

(* The page and the browser of the modal are listed one after the other.   *)
LEMMA FilesReloaded ==
  ASSUME FilesNow, FileList!reloadPage
  PROVE  FilesNow'
<1>0. /\ FilesInv(store, calls, ui, alive) /\ alive \in BOOLEAN /\ FilesCalls(calls)
      /\ ui \in FilesUi
  BY DEF FilesNow, FilesInv, FilesTypes
<1>1. PICK f, m : f = ui.route /\ m = store.params["modal"]
  OBVIOUS
<1>2. /\ f \in Folders /\ m \in Folders /\ alive = TRUE /\ alive' = TRUE
      /\ store' = FileList!FETCH_FILES_START(
                      FileList!FETCH_FILES_START(store, Main, f), "modal", m)
      /\ calls' = [calls EXCEPT !["FETCH_FILES"] = {Fetch(Main, f)},
                                !["FETCH_FILES_MODAL"] = {Fetch("modal", m)}]
      /\ ui' = [ui EXCEPT !.dropped = {},
                          !.overtaken = {c.section : c \in calls["SCROLL_FILES"]}]
  BY <1>0, <1>1 DEF FileList!reloadPage, Fetch, Main
<1>3. /\ Main \in FileList!Sections /\ "modal" \in FileList!Sections /\ Main # "modal"
      /\ \A s \in FileList!Sections : s = Main \/ s = "modal"
  BY DEF Main, FileList!Sections
<1>4. /\ \A w \in FileList!Watchers : \A c \in calls[w] : c.section \in FileList!Sections
      /\ \A c \in calls["FETCH_FILES_MODAL"] : c.section = "modal"
  BY <1>0, FilesCallsTyped DEF FileList!Watchers
<1> DEFINE o1 == (ui.overtaken \ {Main}) \cup
                    {x \in {Main} : \E c \in calls["SCROLL_FILES"] : c.section = x}
           d1 == (ui.dropped \cup {c.section : c \in calls["FETCH_FILES"]}) \ {Main}
           o2 == {c.section : c \in calls["SCROLL_FILES"]}
           mid == [calls EXCEPT !["FETCH_FILES"] = {Fetch(Main, f)}]
<1>5. /\ o1 \in SUBSET FileList!Sections /\ d1 \in SUBSET FileList!Sections
      /\ o2 \in SUBSET FileList!Sections /\ d1 \subseteq {"modal"}
  <2>1. \A w \in {"FETCH_FILES", "SCROLL_FILES"} :
           \A c \in calls[w] : c.section \in FileList!Sections
    BY <1>4 DEF FileList!Watchers
  <2> QED
    BY <1>0, <1>3, <2>1 DEF FilesUi
<1>6. o2 = (o1 \ {"modal"}) \cup
             {x \in {"modal"} : \E c \in calls["SCROLL_FILES"] : c.section = x}
  <2>1. \A c \in calls["SCROLL_FILES"] : c.section = Main \/ c.section = "modal"
    BY <1>3, <1>4 DEF FileList!Watchers
  <2>2. \A x : x \in ui.overtaken => x = Main \/ x = "modal"
    BY <1>0, <1>3 DEF FilesUi
  <2> QED
    BY <1>3, <2>1, <2>2
<1>7. /\ mid["SCROLL_FILES"] = calls["SCROLL_FILES"]
      /\ mid["FETCH_FILES_MODAL"] = calls["FETCH_FILES_MODAL"]
  BY <1>0 DEF FilesCalls, FileList!Watchers
<1>8. calls' = [mid EXCEPT !["FETCH_FILES_MODAL"] = {Fetch("modal", m)}]
  BY <1>2
<1> HIDE DEF o1, d1, o2, mid
<1>9. PICK x \in FilesUi : /\ x.route = f /\ x.overtaken = o1 /\ x.dropped = d1
                           /\ x.unscrolled = ui.unscrolled
  <2>1. [ui EXCEPT !.overtaken = o1, !.dropped = d1] \in FilesUi
    BY <1>0, <1>5 DEF FilesUi
  <2>2. LET x == [ui EXCEPT !.overtaken = o1, !.dropped = d1] IN
          /\ x.route = f /\ x.overtaken = o1 /\ x.dropped = d1
          /\ x.unscrolled = ui.unscrolled
    BY <1>0, <1>1, <1>5 DEF FilesUi
  <2> QED
    BY <2>1, <2>2
<1>10. PICK st : st = FileList!FETCH_FILES_START(store, Main, f)
  OBVIOUS
<1>11. FilesInv(st, mid, x, TRUE)
  <2>1. FilesInv(store, calls, ui, TRUE)
    BY <1>0, <1>2
  <2>2. FilesInv(FileList!FETCH_FILES_START(store, Main, f),
                 [calls EXCEPT !["FETCH_FILES"] = {Fetch(Main, f)}], x, TRUE)
    BY <1>2, <1>3, <1>9, <2>1, FetchKeeps DEF o1, d1
  <2> QED
    BY <1>10, <2>2 DEF mid
<1>12. /\ ui' \in FilesUi /\ ui'.route = x.route /\ ui'.overtaken = o2 /\ ui'.dropped = {}
       /\ ui'.unscrolled = x.unscrolled
  <2>1. ui' = [ui EXCEPT !.dropped = {}, !.overtaken = o2]
    BY <1>2 DEF o2
  <2> QED
    BY <1>0, <1>1, <1>5, <1>9, <2>1 DEF FilesUi
<1>13. {} = (x.dropped \cup {c.section : c \in mid["FETCH_FILES_MODAL"]}) \ {"modal"}
  BY <1>4, <1>5, <1>7, <1>9 DEF FileList!Watchers
<1>14. FilesInv(FileList!FETCH_FILES_START(st, "modal", m),
                [mid EXCEPT !["FETCH_FILES_MODAL"] = {Fetch("modal", m)}], ui', TRUE)
  <2>1. ui'.overtaken = (x.overtaken \ {"modal"}) \cup
             {y \in {"modal"} : \E c \in mid["SCROLL_FILES"] : c.section = y}
    BY <1>6, <1>7, <1>9, <1>12
  <2>2. ui'.dropped = (x.dropped \cup {c.section : c \in mid["FETCH_FILES_MODAL"]})
                         \ {"modal"}
    BY <1>12, <1>13
  <2> QED
    BY <1>2, <1>3, <1>11, <1>12, <2>1, <2>2, FetchKeeps
<1> QED
  BY <1>2, <1>8, <1>10, <1>14 DEF FilesNow

(* What the tables ask for.                                                *)
LEMMA FilesScrolled ==
  ASSUME FilesNow, NEW s \in FileList!Sections, NEW f \in Folders, s = Main => ui.route = f,
         FileList!DataFilesTable(s, f)
  PROVE  FilesNow'
<1>1. /\ alive /\ calls["SCROLL_FILES"] = {} /\ store.listing[s] # <<>>
      /\ Len(store.listing[s]) < MaxRows
      /\ store' = FileList!SCROLL_FILES_START(store, s)
      /\ calls' = [calls EXCEPT !["SCROLL_FILES"] =
            {[section |-> s, folder |-> f, offset |-> Len(store.listing[s])]}]
      /\ ui' = [ui EXCEPT !.unscrolled = @ \ {s}] /\ alive' = alive
  BY DEF FileList!DataFilesTable, FileList!scrollFiles
<1>2. FilesInv(store, calls, ui, TRUE) /\ alive' = TRUE
  BY <1>1 DEF FilesNow, FilesInv, FilesTypes
<1>3. FilesInv(FileList!SCROLL_FILES_START(store, s), calls', ui', TRUE)
  BY <1>1, <1>2, ScrollKeeps
<1> QED
  BY <1>1, <1>2, <1>3 DEF FilesNow

\* Selecting one row or all of them keeps it.
LEMMA FilesSelected ==
  ASSUME FilesNow, store.listing[Main] # <<>>, UNCHANGED <<calls, ui, alive>>,
         \/ \E i \in DOMAIN store.listing[Main] : store' = FileList!TOGGLE_SELECT(store, i)
         \/ store' = FileList!TOGGLE_SELECT_ALL(store)
  PROVE  FilesNow'
<1>1. store \in FilesStore /\ Len(store.listing[Main]) <= MaxRows + 1
  BY DEF FilesNow, FilesInv, FilesTypes, RowsBounded, FileList!Sections, Main
<1>2. /\ store' \in FilesStore /\ store'.loading = store.loading
      /\ store'.error = store.error /\ store'.listing = store.listing
      /\ store'.params = store.params /\ store'.loadingScroll = store.loadingScroll
      /\ store'.selected \subseteq store.selected \cup DOMAIN store.listing[Main]
  BY <1>1, SelectionToggled
<1>3. FilesInv(store', calls, ui, alive)
  BY <1>2, SelectionKeeps DEF FilesNow
<1> QED
  BY <1>3 DEF FilesNow

\* The listings are opened in their invariant.
LEMMA FilesStart == ASSUME FileList!Init PROVE FilesNow
<1>1. /\ [s \in FileList!Sections |-> FALSE] \in FilesFlags
      /\ [s \in FileList!Sections |-> TRUE] \in FilesFlags
      /\ [s \in FileList!Sections |-> "none"] \in FilesErrors
      /\ [s \in FileList!Sections |-> FileList!NoFolder] \in FilesParams
      /\ {} \in FilesSelections
  BY DEF FilesFlags, FilesErrors, FilesParams, FilesSelections
<1>2. [s \in FileList!Sections |-> <<>>] \in FilesListings
  <2>1. <<>> \in FilesRows
    BY DEF FilesRows
  <2> QED
    BY <2>1 DEF FilesListings
<1>3. /\ store \in FilesStore
      /\ \A s \in FileList!Sections :
           /\ ~store.loading[s] /\ store.error[s] = "none" /\ store.listing[s] = <<>>
           /\ store.params[s] = FileList!NoFolder /\ ~store.loadingScroll[s]
      /\ store.selected = {}
  BY <1>1, <1>2 DEF FileList!Init, FileList!initialFilesState, FilesStore
<1>4. ui \in FilesUi /\ ui.route = Projects /\ alive = TRUE
  BY DEF FileList!Init, FilesUi
<1>5. FilesCalls(calls) /\ \A w \in FileList!Watchers : calls[w] = {}
  BY DEF FileList!Init, FilesCalls, AtMostOne
<1>6. Projects \notin Folders /\ FileList!NoFolder \notin Folders /\ MaxRows \in Nat
  BY WorkbenchAssumption DEF FileList!ListingAssumption
<1>7. FilesTypes(store, calls, ui, alive) /\ RowsBounded(store)
  BY <1>3, <1>4, <1>5, <1>6 DEF FilesTypes, RowsBounded
<1>8. /\ ScrollsBelow(store, calls) /\ MainFetched(store, calls, ui)
      /\ MainScrolled(store, calls, ui) /\ LoadingServed(store, calls, ui, alive)
      /\ ScrollServed(store, calls, ui, alive)
  BY <1>3, <1>5
  DEF ScrollsBelow, MainFetched, MainScrolled, LoadingServed, ScrollServed,
      FileList!Watchers
<1>9. RouteIsListed(store, ui, alive) /\ FirstPage(store) /\ Prefix(store, ui)
  BY <1>3, <1>4, <1>6
  DEF RouteIsListed, FirstPage, Prefix, FileList!Sections, Main
<1> QED
  BY <1>7, <1>8, <1>9 DEF FilesNow, FilesInv

\* Every page, saga and answer keeps it.
LEMMA FilesStep ==
  ASSUME FilesNow, [FileList!Next]_<<store, calls, ui, alive>>
  PROVE  FilesNow'
<1>0. /\ FilesInv(store, calls, ui, alive) /\ store \in FilesStore /\ ui \in FilesUi
      /\ FilesCalls(calls) /\ alive \in BOOLEAN
      /\ Main \in FileList!Sections /\ "modal" \in FileList!Sections /\ Main # "modal"
  BY DEF FilesNow, FilesInv, FilesTypes, Main, FileList!Sections
<1>1. CASE FileList!DataFilesSwitch
  <2>1. PICK f \in Folders :
          /\ FileList!fetchFiles("FETCH_FILES", Main, f, [ui EXCEPT !.route = f])
          /\ alive' = alive
    BY <1>1 DEF FileList!DataFilesSwitch, Main
  <2>2. PICK v \in FilesUi :
          /\ v = [ui EXCEPT !.route = f] /\ v.route = f
          /\ v.overtaken = ui.overtaken /\ v.dropped = ui.dropped
          /\ v.unscrolled = ui.unscrolled
    <3>1. [ui EXCEPT !.route = f] \in FilesUi
      BY <1>0 DEF FilesUi
    <3>2. LET v == [ui EXCEPT !.route = f] IN
            /\ v.route = f /\ v.overtaken = ui.overtaken /\ v.dropped = ui.dropped
            /\ v.unscrolled = ui.unscrolled
      BY <1>0 DEF FilesUi
    <3> QED
      BY <3>1, <3>2
  <2> QED
    BY <1>0, <2>1, <2>2, FilesFetched
<1>2. CASE FileList!DataFilesListing
  <2>0. ui.route \in Folders
    BY <1>2 DEF FileList!DataFilesListing
  <2>1. CASE /\ \/ \E i \in DOMAIN store.listing[Main] :
                      store' = FileList!TOGGLE_SELECT(store, i)
                \/ /\ store.listing[Main] # <<>>
                   /\ store' = FileList!TOGGLE_SELECT_ALL(store)
             /\ UNCHANGED <<calls, ui, alive>>
    <3>1. store.listing[Main] # <<>>
      BY <2>1
    <3> QED
      BY <2>1, <3>1, FilesSelected
  <2>2. CASE FileList!DataFilesTable(Main, ui.route)
    BY <1>0, <2>0, <2>2, FilesScrolled
  <2>3. CASE /\ FileList!fetchFiles("FETCH_FILES", Main, ui.route, ui)
             /\ alive' = alive
    BY <1>0, <2>0, <2>3, FilesFetched
  <2> QED
    BY <1>2, <2>1, <2>2, <2>3 DEF FileList!DataFilesListing, Main
<1>3. CASE FileList!DataFilesProjectsList
  <2>1. /\ ui' = [ui EXCEPT !.route = Projects]
        /\ store' = IF alive THEN FileList!CLEAR_PROJECT_SELECTION(store) ELSE store
        /\ calls' = calls /\ alive' = alive
    BY <1>3 DEF FileList!DataFilesProjectsList
  <2>2. /\ ui' \in FilesUi /\ ui'.route = Projects
        /\ ui'.overtaken = ui.overtaken /\ ui'.dropped = ui.dropped
        /\ ui'.unscrolled = ui.unscrolled
    BY <1>0, <2>1 DEF FilesUi
  <2>3. CASE alive
    <3>1. FilesInv(store, calls, ui, TRUE) /\ alive' = TRUE
      BY <1>0, <2>1, <2>3
    <3>2. FilesInv(FileList!CLEAR_PROJECT_SELECTION(store), calls, ui', TRUE)
      BY <2>2, <3>1, ProjectsKeep
    <3> QED
      BY <2>1, <2>3, <3>1, <3>2 DEF FilesNow
  <2>4. CASE ~alive
    <3>1. FilesInv(store, calls, ui', alive)
      BY <1>0, <2>2, <2>4, PlaceKeeps
    <3> QED
      BY <2>1, <2>4, <3>1 DEF FilesNow
  <2> QED
    BY <2>3, <2>4
<1>4. CASE FileList!onOpened
  <2>1. PICK f \in {Home} \cup ({store.params[Main]} \ {FileList!NoFolder}) :
          /\ FileList!fetchFiles("FETCH_FILES_MODAL", "modal",
             f, [ui EXCEPT !.browsing = TRUE])
          /\ alive' = alive
    BY <1>4 DEF FileList!onOpened, Main
  <2>2. f \in Folders
    BY <1>0, <2>1, FilesTyped, WorkbenchAssumption DEF FileList!ListingAssumption
  <2>3. PICK v \in FilesUi :
          /\ v = [ui EXCEPT !.browsing = TRUE] /\ v.route = ui.route
          /\ v.overtaken = ui.overtaken /\ v.dropped = ui.dropped
          /\ v.unscrolled = ui.unscrolled
    <3>1. [ui EXCEPT !.browsing = TRUE] \in FilesUi
      BY <1>0 DEF FilesUi
    <3>2. LET v == [ui EXCEPT !.browsing = TRUE] IN
            /\ v.route = ui.route /\ v.overtaken = ui.overtaken /\ v.dropped = ui.dropped
            /\ v.unscrolled = ui.unscrolled
      BY <1>0 DEF FilesUi
    <3> QED
      BY <3>1, <3>2
  <2> QED
    BY <1>0, <2>1, <2>2, <2>3, FilesFetched
<1>5. CASE FileList!DataFilesModalListingTable
  <2>1. \/ \E f \in Folders :
             /\ FileList!fetchFiles("FETCH_FILES", "modal", f, ui)
             /\ alive' = alive
        \/ /\ store.params["modal"] \in Folders
           /\ FileList!DataFilesTable("modal", store.params["modal"])
    BY <1>5 DEF FileList!DataFilesModalListingTable
  <2> QED
    BY <1>0, <2>1, FilesFetched, FilesScrolled
<1>6. CASE FileList!DataFilesBreadcrumbs
  BY <1>0, <1>6, FilesFetched DEF FileList!DataFilesBreadcrumbs
<1>7. CASE FileList!toggle
  <2>1. ui' = [ui EXCEPT !.browsing = FALSE] /\ UNCHANGED <<store, calls, alive>>
    BY <1>7 DEF FileList!toggle
  <2>2. /\ ui' \in FilesUi /\ ui'.route = ui.route
        /\ ui'.overtaken = ui.overtaken /\ ui'.dropped = ui.dropped
        /\ ui'.unscrolled = ui.unscrolled
    BY <1>0, <2>1 DEF FilesUi
  <2>3. FilesInv(store, calls, ui', alive)
    BY <1>0, <2>2, PlaceKeeps
  <2> QED
    BY <2>1, <2>3 DEF FilesNow
<1>8. CASE FileList!watchFetchFiles
  <2>1. PICK w \in {"FETCH_FILES", "FETCH_FILES_MODAL"} :
          FileList!fetchFilesAnswer(w) \/ FileList!fetchFilesLost(w)
    BY <1>8 DEF FileList!watchFetchFiles
  <2>2. CASE FileList!fetchFilesAnswer(w)
    <3>1. PICK c \in calls[w] :
            /\ calls' = [calls EXCEPT ![w] = {}]
            /\ \/ store' = FileList!FETCH_FILES_SUCCESS(store, c.section,
                               FileList!Page(c.folder, 0), FileList!ReachedEnd(c.folder, 0))
               \/ \E code \in Codes :
                     store' = FileList!FETCH_FILES_ERROR(store, c.section, code)
            /\ ui' = ui /\ alive' = alive
      BY <2>2 DEF FileList!fetchFilesAnswer
    <3>2. FilesInv(store', calls', ui, alive)
      BY <1>0, <3>1, AnswerKeeps
    <3> QED
      BY <3>1, <3>2 DEF FilesNow
  <2>3. CASE FileList!fetchFilesLost(w)
    <3>1. /\ calls' = [v \in FileList!Watchers |-> {}] /\ alive' = FALSE
          /\ store' = store /\ ui' = ui
      BY <2>3 DEF FileList!fetchFilesLost
    <3>2. FilesInv(store, calls', ui, FALSE)
      BY <1>0, <3>1, LostKeeps
    <3> QED
      BY <3>1, <3>2 DEF FilesNow
  <2> QED
    BY <2>1, <2>2, <2>3
<1>9. CASE FileList!scrollFilesAnswer
  <2>1. PICK c \in calls["SCROLL_FILES"] :
          /\ calls' = [calls EXCEPT !["SCROLL_FILES"] = {}]
          /\ \/ /\ store' = FileList!SCROLL_FILES_SUCCESS(store, c.section,
                             FileList!Page(c.folder, c.offset),
                             FileList!ReachedEnd(c.folder, c.offset))
                /\ ui' = ui
             \/ /\ store' = FileList!SCROLL_FILES_ERR(store, c.section)
                /\ ui' = [ui EXCEPT !.unscrolled = @ \cup {c.section}]
          /\ alive' = alive
    BY <1>9 DEF FileList!scrollFilesAnswer
  <2>2. FilesInv(store', calls', ui', alive)
    BY <1>0, <2>1, ScrollAnswerKeeps
  <2> QED
    BY <2>1, <2>2 DEF FilesNow
<1>10. CASE UNCHANGED <<store, calls, ui, alive>>
  BY <1>10 DEF FilesNow
<1> QED
  BY <1>1, <1>2, <1>3, <1>4, <1>5, <1>6, <1>7, <1>8, <1>9, <1>10, FilesReloaded
  DEF FileList!Next

\* What it says of types, spinners and the rows of a folder.
LEMMA FilesHold ==
  ASSUME FilesNow
  PROVE  /\ FileList!TypeOK /\ FileList!SpinnerIsServed
         /\ FileList!FirstPageIsCurrent /\ FileList!PageIsPrefix
<1>0. /\ FilesInv(store, calls, ui, alive) /\ store \in FilesStore /\ ui \in FilesUi
      /\ FilesCalls(calls) /\ alive \in BOOLEAN
  BY DEF FilesNow, FilesInv, FilesTypes
<1>1. /\ store.loading \in [FileList!Sections -> BOOLEAN]
      /\ store.loadingScroll \in [FileList!Sections -> BOOLEAN]
      /\ store.error \in [FileList!Sections -> Codes \cup {"none", "true"}]
      /\ store.params \in [FileList!Sections -> Folders \cup {FileList!NoFolder}]
      /\ store.selected \subseteq 1..MaxRows + 1
  BY <1>0 DEF FilesStore, FilesFlags, FilesErrors, FilesParams, FilesSelections
<1>2. \A s \in FileList!Sections : \A i \in DOMAIN store.listing[s] :
        store.listing[s][i] \in FileList!Row
  BY <1>0, FilesTyped DEF FilesRows
<1>3. \A w \in FileList!Watchers : calls[w] \subseteq FileList!Call
  BY <1>0 DEF FilesCalls, FilesAsked
<1>4. FileList!TypeOK
  BY <1>0, <1>1, <1>2, <1>3 DEF FileList!TypeOK, FilesUi
<1>5. FileList!FirstPageIsCurrent /\ FileList!PageIsPrefix
  BY <1>0
  DEF FilesInv, FirstPage, Prefix, Main, FileList!FirstPageIsCurrent, FileList!PageIsPrefix
<1>6. ASSUME NEW s \in FileList!Sections, FileList!DataFilesTablePlaceholder(s) = "spinner"
      PROVE  store.loading[s]
  <2>1. store.loading[s] \in BOOLEAN
    BY <1>0, FilesTyped
  <2> QED
    BY <1>6, <2>1 DEF FileList!DataFilesTablePlaceholder
<1>7. FileList!SpinnerIsServed
  BY <1>0, <1>6
  DEF FilesInv, LoadingServed, ScrollServed, FileList!SpinnerIsServed,
      FileList!DataFilesTableRow
<1> QED
  BY <1>4, <1>5, <1>7

-----------------------------------------------------------------------------
(* The operations on files.                                                *)

AnyFile == Files \cup {NoFile}
FileStatuses == [Files -> FileOps!Statuses]
BatchStatuses == [FileOps!Batch -> FileStatuses]
JobStatuses == [FileOps!Job \cup {"rename"} -> FileOps!Statuses]
NamedFiles == [FileOps!Named -> AnyFile]
LinkStates ==
  [loading : BOOLEAN, method : {"none", "get", "post", "put", "delete"}, url : AnyFile]
PreviewStates == [loading : BOOLEAN, content : AnyFile]
Askers == FileOps!Job \cup {"none", "listing"}
KeyModals == [open : BOOLEAN, by : Askers, submitting : BOOLEAN]
FileStores ==
  [listing : SUBSET Files, err : BOOLEAN, selected : SUBSET Files,
   modals : SUBSET FileOps!Modals, props : NamedFiles, byKey : BatchStatuses,
   status : JobStatuses, link : LinkStates, preview : PreviewStates, keys : KeyModals]
Frozen == [FileOps!Batch -> SUBSET Files]
FilePages ==
  [place : Places, tools : Sessions, up : BOOLEAN, opened : BOOLEAN, early : BOOLEAN,
   closing : SUBSET FileOps!Modals, disabled : SUBSET FileOps!Batch, frozen : Frozen,
   uploaded : SUBSET Files, rejected : SUBSET Files, forgotten : BOOLEAN,
   crossed : BOOLEAN]
Batches == [src : SUBSET Files, open : SUBSET Files, err : BOOLEAN]

\* What sagas keep calls of every watcher.
IsCalls(cs) == cs = [w \in FileOps!Watchers |-> cs[w]]

\* The statuses bk of a batch's files and its open calls c.
BatchServed(bk, c, live) ==
  /\ AtMostOne(c)
  /\ \A b \in c : b \in Batches /\ b.open \subseteq b.src
  /\ live => \A f \in Files : bk[f] = "RUNNING" => \E b \in c : f \in b.open

\* The status s of the job op, its open calls c and the modal k of the keys.
JobServed(op, s, c, k, u, live) ==
  live /\ s = "RUNNING" =>
     \/ c # {} \/ u.crossed \/ ~u.up
     \/ k.open /\ k.by = op

RenameServed(s, c, live) == live /\ s = "RUNNING" => c # {}

\* The link k that the modal of file p shows, and the open calls c for it.
LinkFits(shown, forgotten, p, k, c, live) ==
  /\ live /\ k.loading => c # {}
  /\ \A r \in c : r.file \in AnyFile
  /\ shown /\ ~forgotten =>
        /\ k.url # NoFile => k.url = p
        /\ \A r \in c : r.file = p

\* The same of the preview k, once its modal is open.
PreviewFits(shown, p, k, c, live) ==
  /\ c \subseteq AnyFile
  /\ shown =>
        /\ live /\ k.loading => c # {}
        /\ k.content # NoFile => k.content = p
        /\ \A f \in c : f = p

\* A content is told to the open window, or it was told between two windows
\* and goes when the closing one has closed or the opening one has opened.
EarlyTold(content, shown, u) ==
  content = NoFile \/ u.early \/ "preview" \in u.closing \/ (shown /\ u.opened)

OpsInv(st, cs, u, live) ==
  /\ st \in FileStores /\ u \in FilePages /\ IsCalls(cs) /\ live \in BOOLEAN
  /\ st.selected \subseteq st.listing
  /\ st.modals \cap u.closing = {}
  /\ u.rejected \subseteq u.uploaded
  /\ \A op \in FileOps!Batch : BatchServed(st.byKey[op], cs[op], live)
  /\ \A op \in FileOps!Job : JobServed(op, st.status[op], cs[op], st.keys, u, live)
  /\ RenameServed(st.status["rename"], cs["rename"], live)
  /\ LinkFits("link" \in st.modals, u.forgotten, st.props["link"], st.link,
              cs["link"], live)
  /\ PreviewFits("preview" \in st.modals /\ u.opened, st.props["preview"], st.preview,
                 cs["preview"], live)
  /\ EarlyTold(st.preview.content, "preview" \in st.modals, u)
  /\ cs["pushKeys"] \subseteq Askers

\* The sagas of the page, each with a name of its own.
LEMMA WatcherNames ==
  /\ FileOps!Batch \subseteq FileOps!Watchers /\ FileOps!Job \subseteq FileOps!Watchers
  /\ {"rename", "link", "mkdir", "makePublic", "download", "preview", "pushKeys",
      "FETCH_FILES"} \subseteq FileOps!Watchers
  /\ \A op \in FileOps!Batch \cup FileOps!Job :
        op \notin {"rename", "link", "mkdir", "makePublic", "download", "preview",
                   "pushKeys", "FETCH_FILES"}
  /\ FileOps!Batch \cap FileOps!Job = {}
  BY DEF FileOps!Batch, FileOps!Job, FileOps!Watchers

\* The calls of one saga change, and those of the others stay.
LEMMA CallsPut ==
  ASSUME NEW cs, IsCalls(cs), NEW w \in FileOps!Watchers, NEW x
  PROVE  /\ IsCalls([cs EXCEPT ![w] = x])
         /\ [cs EXCEPT ![w] = x][w] = x
         /\ \A v \in FileOps!Watchers : v # w => [cs EXCEPT ![w] = x][v] = cs[v]
<1> DEFINE W == FileOps!Watchers
<1>1. cs = [v \in W |-> cs[v]]
  BY DEF IsCalls
<1> HIDE DEF W
<1>2. [cs EXCEPT ![w] = x] = [v \in W |-> [cs EXCEPT ![w] = x][v]]
  BY <1>1 DEF W
<1>3. \A v \in W : [cs EXCEPT ![w] = x][v] = IF v = w THEN x ELSE cs[v]
  BY <1>1
<1> QED
  BY <1>2, <1>3 DEF W, IsCalls

\* The calls ds are those of cs but for x at w.
PutAt(cs, w, x, ds) ==
  /\ IsCalls(ds) /\ ds[w] = x
  /\ \A v \in FileOps!Watchers : v # w => ds[v] = cs[v]

\* The same, as one predicate.
LEMMA CallsPutAt ==
  ASSUME NEW cs, IsCalls(cs), NEW w \in FileOps!Watchers, NEW x
  PROVE  PutAt(cs, w, x, [cs EXCEPT ![w] = x])
<1> DEFINE ds == [cs EXCEPT ![w] = x]
<1>1. IsCalls(ds) /\ ds[w] = x /\ \A v \in FileOps!Watchers : v # w => ds[v] = cs[v]
  BY CallsPut
<1> HIDE DEF ds
<1>2. PutAt(cs, w, x, ds)
  BY ONLY <1>1 DEF PutAt
<1> QED
  BY <1>2 DEF ds

\* A request that nothing shown depends on.
LEMMA CallsApart ==
  ASSUME NEW st, NEW cs, NEW u, NEW live, OpsInv(st, cs, u, live),
         NEW w \in {"download", "mkdir", "makePublic", "FETCH_FILES"}, NEW x
  PROVE  OpsInv(st, [cs EXCEPT ![w] = x], u, live)
<1> DEFINE ds == [cs EXCEPT ![w] = x]
<1>1. IsCalls(cs) /\ w \in FileOps!Watchers
  BY WatcherNames DEF OpsInv
<1>2. IsCalls(ds) /\ \A v \in FileOps!Watchers : v # w => ds[v] = cs[v]
  BY <1>1, CallsPut
<1> HIDE DEF ds
<1>3. /\ \A op \in FileOps!Batch \cup FileOps!Job : ds[op] = cs[op]
      /\ \A v \in {"rename", "link", "preview", "pushKeys"} : ds[v] = cs[v]
  BY <1>2, WatcherNames
<1> QED
  BY <1>2, <1>3 DEF OpsInv, ds

\* The open calls of a job.
LEMMA CallsOfJob ==
  ASSUME NEW st, NEW cs, NEW u, NEW live, OpsInv(st, cs, u, live),
         NEW w \in FileOps!Job, NEW x,
         JobServed(w, st.status[w], x, st.keys, u, live)
  PROVE  OpsInv(st, [cs EXCEPT ![w] = x], u, live)
<1> DEFINE ds == [cs EXCEPT ![w] = x]
<1>1. IsCalls(cs) /\ w \in FileOps!Watchers
  BY WatcherNames DEF OpsInv
<1>2. IsCalls(ds) /\ ds[w] = x /\ \A v \in FileOps!Watchers : v # w => ds[v] = cs[v]
  BY <1>1, CallsPut
<1> HIDE DEF ds
<1>3. /\ \A op \in FileOps!Batch : ds[op] = cs[op]
      /\ \A op \in FileOps!Job : op # w => ds[op] = cs[op]
      /\ \A v \in {"rename", "link", "preview", "pushKeys"} : ds[v] = cs[v]
  BY <1>2, WatcherNames
<1>4. ASSUME NEW op \in FileOps!Job
      PROVE  JobServed(op, st.status[op], ds[op], st.keys, u, live)
  BY <1>2, <1>3 DEF OpsInv
<1> QED
  BY <1>2, <1>3, <1>4 DEF OpsInv, ds

\* The call to push keys is no part of what the invariant relates.
LEMMA CallsOfKeys ==
  ASSUME NEW st, NEW cs, NEW u, NEW live, OpsInv(st, cs, u, live),
         NEW x, x \subseteq Askers
  PROVE  OpsInv(st, [cs EXCEPT !["pushKeys"] = x], u, live)
<1> DEFINE ds == [cs EXCEPT !["pushKeys"] = x]
<1>1. IsCalls(cs) /\ "pushKeys" \in FileOps!Watchers
  BY WatcherNames DEF OpsInv
<1>2. IsCalls(ds) /\ ds["pushKeys"] = x
      /\ \A v \in FileOps!Watchers : v # "pushKeys" => ds[v] = cs[v]
  BY <1>1, CallsPut
<1> HIDE DEF ds
<1>3. /\ \A op \in FileOps!Batch \cup FileOps!Job : ds[op] = cs[op]
      /\ \A v \in {"rename", "link", "preview"} : ds[v] = cs[v]
  BY <1>2, WatcherNames
<1> QED
  BY <1>2, <1>3 DEF OpsInv, ds

\* The end of the root saga.
LEMMA NoneServed ==
  ASSUME NEW st, NEW cs, NEW u, NEW live, OpsInv(st, cs, u, live)
  PROVE  OpsInv(st, FileOps!NoCalls, u, FALSE)
<1>1. \A v \in FileOps!Watchers : FileOps!NoCalls[v] = {}
  BY DEF FileOps!NoCalls
<1>2. IsCalls(FileOps!NoCalls)
  BY <1>1 DEF FileOps!NoCalls, IsCalls
<1>3. /\ \A op \in FileOps!Batch \cup FileOps!Job : FileOps!NoCalls[op] = {}
      /\ \A v \in {"rename", "link", "preview", "pushKeys"} : FileOps!NoCalls[v] = {}
  BY <1>1, WatcherNames
<1>4. \A op \in FileOps!Batch : BatchServed(st.byKey[op], {}, FALSE)
  BY DEF BatchServed, AtMostOne
<1>5. \A op \in FileOps!Job : JobServed(op, st.status[op], {}, st.keys, u, FALSE)
  BY DEF JobServed
<1>6. /\ RenameServed(st.status["rename"], {}, FALSE)
      /\ LinkFits("link" \in st.modals, u.forgotten, st.props["link"], st.link, {}, FALSE)
      /\ PreviewFits("preview" \in st.modals /\ u.opened, st.props["preview"],
                     st.preview, {}, FALSE)
  BY DEF OpsInv, RenameServed, LinkFits, PreviewFits
<1> QED
  BY <1>2, <1>3, <1>4, <1>5, <1>6 DEF OpsInv

\* What the page keeps, apart from what its modals show.
LEMMA PageApart ==
  ASSUME NEW st, NEW cs, NEW u, NEW live, OpsInv(st, cs, u, live),
         NEW v, v \in FilePages, v.closing \subseteq u.closing,
         v.rejected \subseteq v.uploaded, u.crossed => v.crossed, v.up => u.up,
         v.opened = u.opened, v.forgotten = u.forgotten,
         \/ st.preview.content = NoFile
         \/ v.early = u.early /\ ("preview" \in u.closing => "preview" \in v.closing)
  PROVE  OpsInv(st, cs, v, live)
<1>1. ASSUME NEW op \in FileOps!Job
      PROVE  JobServed(op, st.status[op], cs[op], st.keys, v, live)
  BY DEF OpsInv, JobServed
<1>2. st.modals \cap v.closing = {}
  BY DEF OpsInv
<1>3. EarlyTold(st.preview.content, "preview" \in st.modals, v)
  BY DEF OpsInv, EarlyTold
<1> QED
  BY <1>1, <1>2, <1>3 DEF OpsInv

\* Parts of the store that stay.
SameListing(st, d) ==
  d.listing = st.listing /\ d.err = st.err /\ d.selected = st.selected
SameModals(st, d) == d.modals = st.modals /\ d.props = st.props
SameShown(st, d) == d.link = st.link /\ d.preview = st.preview

\* What setting the status of an operation changes.
LEMMA StatusPut ==
  ASSUME NEW st \in FileStores, NEW op \in FileOps!Job \cup {"rename"},
         NEW s \in FileOps!Statuses, NEW d, d = FileOps!SET_OPERATION_STATUS(st, op, s)
  PROVE  /\ d \in FileStores
         /\ SameListing(st, d) /\ SameModals(st, d) /\ SameShown(st, d)
         /\ d.byKey = st.byKey /\ d.keys = st.keys
         /\ d.status[op] = s
         /\ \A o \in FileOps!Job \cup {"rename"} : o # op => d.status[o] = st.status[o]
<1> DEFINE y == [st.status EXCEPT ![op] = s]
<1>1. st.status \in JobStatuses
  BY DEF FileStores
<1>2. /\ y \in JobStatuses /\ y[op] = s
      /\ \A o \in FileOps!Job \cup {"rename"} : o # op => y[o] = st.status[o]
  BY <1>1 DEF JobStatuses
<1>3. d = [st EXCEPT !.status = y]
  BY DEF FileOps!SET_OPERATION_STATUS, FileStores
<1> HIDE DEF y
<1> QED
  BY <1>2, <1>3 DEF FileStores, SameListing, SameModals, SameShown

\* What setting the status of the files of a batch changes.
LEMMA ByKeyPut ==
  ASSUME NEW st \in FileStores, NEW op \in FileOps!Batch, NEW fs,
         NEW s \in FileOps!Statuses, NEW d,
         d = FileOps!SET_OPERATION_STATUS_BY_KEY(st, op, fs, s)
  PROVE  /\ d \in FileStores
         /\ SameListing(st, d) /\ SameModals(st, d) /\ SameShown(st, d)
         /\ d.status = st.status /\ d.keys = st.keys
         /\ \A f \in Files : d.byKey[op][f] = IF f \in fs THEN s ELSE st.byKey[op][f]
         /\ \A o \in FileOps!Batch : o # op => d.byKey[o] = st.byKey[o]
<1> DEFINE r == [f \in Files |-> IF f \in fs THEN s ELSE st.byKey[op][f]]
           y == [st.byKey EXCEPT ![op] = r]
<1>1. st.byKey \in BatchStatuses
  BY DEF FileStores
<1>2. st.byKey[op] \in FileStatuses
  BY <1>1 DEF BatchStatuses
<1>3. r \in FileStatuses /\ \A f \in Files : r[f] = IF f \in fs THEN s ELSE st.byKey[op][f]
  BY <1>2 DEF FileStatuses
<1>4. d = [st EXCEPT !.byKey = y]
  BY <1>1 DEF FileOps!SET_OPERATION_STATUS_BY_KEY, FileStores, BatchStatuses
<1> HIDE DEF r
<1>5. y \in BatchStatuses /\ y[op] = r
      /\ \A o \in FileOps!Batch : o # op => y[o] = st.byKey[o]
  BY <1>1, <1>3 DEF BatchStatuses
<1> HIDE DEF y
<1>6. /\ d \in FileStores /\ d.byKey = y
      /\ SameListing(st, d) /\ SameModals(st, d) /\ SameShown(st, d)
      /\ d.status = st.status /\ d.keys = st.keys
  BY <1>4, <1>5 DEF FileStores, SameListing, SameModals, SameShown
<1> QED
  BY <1>3, <1>5, <1>6

Toggled(st, m, f, d) ==
  /\ d \in FileStores /\ SameListing(st, d) /\ SameShown(st, d)
  /\ d.status = st.status /\ d.keys = st.keys
  /\ d.modals = IF m \in st.modals THEN st.modals \ {m} ELSE st.modals \cup {m}
  /\ \A n \in FileOps!Named : d.props[n] = IF n = m THEN f ELSE st.props[n]
  /\ \A op \in FileOps!Batch :
        \/ d.byKey[op] = st.byKey[op]
        \/ \A x \in Files : d.byKey[op][x] = "none"

\* What opening or closing a window changes.
LEMMA TogglePut ==
  ASSUME NEW st \in FileStores, NEW m \in FileOps!Modals, NEW f \in AnyFile, NEW d,
         d = FileOps!TOGGLE_MODAL(st, m, f)
  PROVE  Toggled(st, m, f, d)
<1> DEFINE ms == IF m \in st.modals THEN st.modals \ {m} ELSE st.modals \cup {m}
           p == IF m \in FileOps!Named THEN [st.props EXCEPT ![m] = f] ELSE st.props
           r == [x \in Files |-> "none"]
           y == IF m \in FileOps!Batch \ (st.modals \cup {"upload"})
                THEN [st.byKey EXCEPT ![m] = r] ELSE st.byKey
<1>1. st.byKey \in BatchStatuses /\ st.props \in NamedFiles
  BY DEF FileStores
<1>2. ms \subseteq FileOps!Modals
  BY DEF FileStores
<1>3. p \in NamedFiles /\ \A n \in FileOps!Named : p[n] = IF n = m THEN f ELSE st.props[n]
  BY <1>1 DEF NamedFiles
<1>4. r \in FileStatuses /\ \A x \in Files : r[x] = "none"
  BY DEF FileStatuses, FileOps!Statuses
<1>5. d = [st EXCEPT !.modals = ms, !.props = p, !.byKey = y]
  BY DEF FileOps!TOGGLE_MODAL, FileStores
<1> HIDE DEF r
<1>6. /\ y \in BatchStatuses
      /\ \A op \in FileOps!Batch : y[op] = st.byKey[op] \/ y[op] = r
  BY <1>1, <1>4 DEF BatchStatuses
<1> HIDE DEF ms, p, y
<1>7. /\ d \in FileStores /\ d.modals = ms /\ d.props = p /\ d.byKey = y
      /\ SameListing(st, d) /\ SameShown(st, d)
      /\ d.status = st.status /\ d.keys = st.keys
  BY <1>2, <1>3, <1>5, <1>6 DEF FileStores, SameListing, SameShown
<1> QED
  BY <1>3, <1>4, <1>6, <1>7 DEF ms, Toggled

LinkSet(st, method, url, d) ==
  /\ d \in FileStores
  /\ SameListing(st, d) /\ SameModals(st, d) /\ d.preview = st.preview
  /\ d.byKey = st.byKey /\ d.status = st.status /\ d.keys = st.keys
  /\ d.link.url = url /\ (d.link.loading => url = NoFile /\ method # "none")

\* What setting the link changes.
LEMMA LinkPut ==
  ASSUME NEW st \in FileStores, NEW method \in {"none", "get", "post", "put", "delete"},
         NEW url \in AnyFile, NEW d, d = FileOps!SET_LINK(st, method, url)
  PROVE  LinkSet(st, method, url, d)
<1> DEFINE y == [loading |-> url = NoFile /\ method # "none",
                 method |-> IF method = "get" THEN "none" ELSE method, url |-> url]
<1>1. y \in LinkStates /\ y.url = url /\ (y.loading => url = NoFile /\ method # "none")
  BY DEF LinkStates
<1>2. d = [st EXCEPT !.link = y]
  BY DEF FileOps!SET_LINK
<1> HIDE DEF y
<1> QED
  BY <1>1, <1>2 DEF FileStores, SameListing, SameModals, LinkSet

\* What setting the preview changes.
LEMMA PreviewPut ==
  ASSUME NEW st \in FileStores, NEW loading \in BOOLEAN, NEW f \in AnyFile, NEW d,
         d = FileOps!SET_PREVIEW_CONTENT(st, loading, f)
  PROVE  /\ d \in FileStores
         /\ SameListing(st, d) /\ SameModals(st, d) /\ d.link = st.link
         /\ d.byKey = st.byKey /\ d.status = st.status /\ d.keys = st.keys
         /\ d.preview.content = f /\ d.preview.loading = loading
<1> DEFINE y == [st.preview EXCEPT !.loading = loading, !.content = f]
<1>1. y \in PreviewStates /\ y.content = f /\ y.loading = loading
  BY DEF FileStores, PreviewStates
<1>2. d = [st EXCEPT !.preview = y]
  BY DEF FileOps!SET_PREVIEW_CONTENT, FileStores, PreviewStates
<1> HIDE DEF y
<1> QED
  BY <1>1, <1>2 DEF FileStores, SameListing, SameModals

\* What a change of the window for keys leaves as it is.
LEMMA KeysPut ==
  ASSUME NEW st \in FileStores, NEW k \in KeyModals, NEW d, d = [st EXCEPT !.keys = k]
  PROVE  /\ d \in FileStores /\ d.keys = k
         /\ SameListing(st, d) /\ SameModals(st, d) /\ SameShown(st, d)
         /\ d.byKey = st.byKey /\ d.status = st.status
  BY DEF FileStores, SameListing, SameModals, SameShown

\* That window opens or closes.
LEMMA KeysToggled ==
  ASSUME NEW st \in FileStores, NEW by \in Askers
  PROVE  \E k \in KeyModals :
    /\ FileOps!SYSTEMS_TOGGLE_MODAL(st, by) = [st EXCEPT !.keys = k]
                              /\ k.open = ~st.keys.open /\ k.by = by
<1> DEFINE k == [open |-> ~st.keys.open, by |-> by, submitting |-> FALSE]
<1>1. k \in KeyModals /\ k.open = ~st.keys.open /\ k.by = by
  BY DEF FileStores, KeyModals
<1>2. FileOps!SYSTEMS_TOGGLE_MODAL(st, by) = [st EXCEPT !.keys = k]
  BY DEF FileOps!SYSTEMS_TOGGLE_MODAL, FileStores
<1> QED
  BY <1>1, <1>2

\* It is told that its request is under way, or is not.
LEMMA KeysUpdated ==
  ASSUME NEW st \in FileStores, NEW submitting \in BOOLEAN
  PROVE  \E k \in KeyModals :
            /\ FileOps!SYSTEMS_MODAL_UPDATE(st, submitting) = [st EXCEPT !.keys = k]
            /\ k.open = st.keys.open /\ k.by = st.keys.by
<1> DEFINE k == [st.keys EXCEPT !.submitting = submitting]
<1>1. k \in KeyModals /\ k.open = st.keys.open /\ k.by = st.keys.by
  BY DEF FileStores, KeyModals
<1>2. FileOps!SYSTEMS_MODAL_UPDATE(st, submitting) = [st EXCEPT !.keys = k]
  BY DEF FileOps!SYSTEMS_MODAL_UPDATE, FileStores, KeyModals
<1> QED
  BY <1>1, <1>2

\* What reloading the listing changes.
LEMMA ReloadPut ==
  ASSUME NEW st \in FileStores, NEW d, d = FileOps!reload(st)
  PROVE  /\ d \in FileStores /\ SameModals(st, d) /\ SameShown(st, d)
         /\ d.byKey = st.byKey /\ d.status = st.status /\ d.keys = st.keys
         /\ st.selected \subseteq st.listing => d.selected \subseteq d.listing
  BY DEF FileStores, FileOps!reload, SameModals, SameShown

\* The listing and the selection.
LEMMA ListingServed ==
  ASSUME NEW st, NEW cs, NEW u, NEW live, OpsInv(st, cs, u, live), NEW d,
         d \in FileStores, SameModals(st, d), SameShown(st, d),
         d.byKey = st.byKey, d.status = st.status, d.keys = st.keys,
         d.selected \subseteq d.listing
  PROVE  OpsInv(d, cs, u, live)
  BY DEF OpsInv, SameModals, SameShown

\* Reloading keeps the invariant, with the call to reload open or not.
LEMMA Reloaded ==
  ASSUME NEW st, NEW cs, NEW u, NEW live, OpsInv(st, cs, u, live)
  PROVE  OpsInv(FileOps!reload(st), FileOps!reloading(cs), u, live)
<1>1. PICK d : d = FileOps!reload(st)
  OBVIOUS
<1>2. st \in FileStores /\ st.selected \subseteq st.listing
  BY DEF OpsInv
<1>3. /\ d \in FileStores /\ SameModals(st, d) /\ SameShown(st, d)
      /\ d.byKey = st.byKey /\ d.status = st.status /\ d.keys = st.keys
      /\ d.selected \subseteq d.listing
  BY <1>1, <1>2, ReloadPut
<1>4. OpsInv(d, cs, u, live)
  BY <1>3, ListingServed
<1>5. CASE alive
  <2>1. FileOps!reloading(cs) = [cs EXCEPT !["FETCH_FILES"] = {"page"}]
    BY <1>5 DEF FileOps!reloading
  <2>2. OpsInv(d, [cs EXCEPT !["FETCH_FILES"] = {"page"}], u, live)
    BY <1>4, CallsApart
  <2> QED
    BY <1>1, <2>1, <2>2
<1>6. CASE ~alive
  BY <1>1, <1>4, <1>6 DEF FileOps!reloading
<1> QED
  BY <1>5, <1>6

\* The same with the calls as they are.
LEMMA StoreReloaded ==
  ASSUME NEW st, NEW cs, NEW u, NEW live, OpsInv(st, cs, u, live)
  PROVE  OpsInv(FileOps!reload(st), cs, u, live)
<1>1. PICK d : d = FileOps!reload(st)
  OBVIOUS
<1>2. st \in FileStores /\ st.selected \subseteq st.listing
  BY DEF OpsInv
<1>3. /\ d \in FileStores /\ SameModals(st, d) /\ SameShown(st, d)
      /\ d.byKey = st.byKey /\ d.status = st.status /\ d.keys = st.keys
      /\ d.selected \subseteq d.listing
  BY <1>1, <1>2, ReloadPut
<1> QED
  BY <1>1, <1>3, ListingServed

\* A status keeps the invariant when RUNNING is set for an open call only.
LEMMA StatusServed ==
  ASSUME NEW st, NEW cs, NEW u, NEW live, OpsInv(st, cs, u, live),
         NEW op \in FileOps!Job \cup {"rename"}, NEW s \in FileOps!Statuses,
         s = "RUNNING" => cs[op] # {}
  PROVE  OpsInv(FileOps!SET_OPERATION_STATUS(st, op, s), cs, u, live)
<1>1. PICK d : d = FileOps!SET_OPERATION_STATUS(st, op, s)
  OBVIOUS
<1>2. st \in FileStores
  BY DEF OpsInv
<1>3. /\ d \in FileStores
      /\ SameListing(st, d) /\ SameModals(st, d) /\ SameShown(st, d)
      /\ d.byKey = st.byKey /\ d.keys = st.keys
      /\ d.status[op] = s
      /\ \A o \in FileOps!Job \cup {"rename"} : o # op => d.status[o] = st.status[o]
  BY <1>1, <1>2, StatusPut
<1>4. ASSUME NEW o \in FileOps!Job
      PROVE  JobServed(o, d.status[o], cs[o], d.keys, u, live)
  BY <1>3 DEF OpsInv, JobServed
<1>5. RenameServed(d.status["rename"], cs["rename"], live)
  BY <1>3 DEF OpsInv, RenameServed
<1>6. OpsInv(d, cs, u, live)
  BY <1>3, <1>4, <1>5 DEF OpsInv, SameListing, SameModals, SameShown
<1> QED
  BY <1>1, <1>6

\* A change of the window for keys keeps it when a job that waits for the keys
\* is served.
LEMMA KeysServed ==
  ASSUME NEW st, NEW cs, NEW u, NEW live, OpsInv(st, cs, u, live),
         NEW k \in KeyModals,
         \A op \in FileOps!Job : JobServed(op, st.status[op], cs[op], k, u, live)
  PROVE  OpsInv([st EXCEPT !.keys = k], cs, u, live)
<1>1. PICK d : d = [st EXCEPT !.keys = k]
  OBVIOUS
<1>2. st \in FileStores
  BY DEF OpsInv
<1>3. /\ d \in FileStores /\ d.keys = k
      /\ SameListing(st, d) /\ SameModals(st, d) /\ SameShown(st, d)
      /\ d.byKey = st.byKey /\ d.status = st.status
  BY <1>1, <1>2, KeysPut
<1>4. OpsInv(d, cs, u, live)
  BY <1>3 DEF OpsInv, SameListing, SameModals, SameShown
<1> QED
  BY <1>1, <1>4

\* What the page keeps apart from the link's request being forgotten, and
\* apart from the preview's modal having come up.
SamePage(u, v) ==
  /\ v \in FilePages /\ v.closing = u.closing /\ v.uploaded = u.uploaded
  /\ v.rejected = u.rejected /\ v.crossed = u.crossed /\ v.up = u.up

\* A link keeps it when it is of the file of the window, and is asked for while
\* it is missing.
LEMMA LinkServed ==
  ASSUME NEW st, NEW cs, NEW u, NEW live, OpsInv(st, cs, u, live),
         NEW method \in {"none", "get", "post", "put", "delete"}, NEW url \in AnyFile,
         NEW c, NEW v, SamePage(u, v), v.opened = u.opened, v.early = u.early,
         live /\ url = NoFile /\ method # "none" => c # {},
         \A r \in c : r.file \in AnyFile,
         "link" \in st.modals /\ ~v.forgotten =>
            /\ url # NoFile => url = st.props["link"]
            /\ \A r \in c : r.file = st.props["link"]
  PROVE  OpsInv(FileOps!SET_LINK(st, method, url), [cs EXCEPT !["link"] = c], v, live)
<1>h. method \in {"none", "get", "post", "put", "delete"} /\ url \in AnyFile
  OBVIOUS
<1>1. PICK d : d = FileOps!SET_LINK(st, method, url)
  OBVIOUS
<1>2. st \in FileStores /\ IsCalls(cs) /\ "link" \in FileOps!Watchers
  BY WatcherNames DEF OpsInv
<1>3. /\ d \in FileStores
      /\ SameListing(st, d) /\ SameModals(st, d) /\ d.preview = st.preview
      /\ d.byKey = st.byKey /\ d.status = st.status /\ d.keys = st.keys
      /\ d.link.url = url /\ (d.link.loading => url = NoFile /\ method # "none")
  <2>1. LinkSet(st, method, url, d)
    BY ONLY <1>1, <1>2, <1>h, LinkPut
  <2> QED
    BY ONLY <2>1 DEF LinkSet
<1>4. PICK ds : ds = [cs EXCEPT !["link"] = c]
  OBVIOUS
<1>p. PutAt(cs, "link", c, [cs EXCEPT !["link"] = c])
  BY <1>2, CallsPutAt
<1>5. IsCalls(ds) /\ ds["link"] = c
      /\ \A w \in FileOps!Watchers : w # "link" => ds[w] = cs[w]
  <2>1. PutAt(cs, "link", c, ds)
    BY ONLY <1>p, <1>4
  <2> QED
    BY ONLY <2>1 DEF PutAt
<1>6. /\ \A op \in FileOps!Batch \cup FileOps!Job : ds[op] = cs[op]
      /\ \A w \in {"rename", "preview", "pushKeys"} : ds[w] = cs[w]
  BY <1>5, WatcherNames
<1>7. LinkFits("link" \in d.modals, v.forgotten, d.props["link"], d.link, ds["link"], live)
  BY <1>3, <1>5 DEF LinkFits, SameModals
<1>8. ASSUME NEW op \in FileOps!Job
      PROVE  JobServed(op, d.status[op], ds[op], d.keys, v, live)
  BY <1>3, <1>6 DEF OpsInv, JobServed, SamePage
<1>e. EarlyTold(d.preview.content, "preview" \in d.modals, v)
  BY <1>3 DEF OpsInv, EarlyTold, SameModals, SamePage
<1>9. OpsInv(d, ds, v, live)
  BY <1>3, <1>5, <1>6, <1>7, <1>8, <1>e DEF OpsInv, SameListing, SameModals, SamePage
<1> QED
  BY <1>1, <1>4, <1>9

\* A request for the link that was forgotten.
LEMMA LinkForgotten ==
  ASSUME NEW st, NEW cs, NEW u, NEW live, OpsInv(st, cs, u, live),
         NEW v, SamePage(u, v), v.opened = u.opened, v.early = u.early, v.forgotten
  PROVE  OpsInv(st, cs, v, live)
<1>1. LinkFits("link" \in st.modals, v.forgotten, st.props["link"], st.link,
               cs["link"], live)
  BY DEF OpsInv, LinkFits
<1>2. ASSUME NEW op \in FileOps!Job
      PROVE  JobServed(op, st.status[op], cs[op], st.keys, v, live)
  BY DEF OpsInv, JobServed, SamePage
<1>e. EarlyTold(st.preview.content, "preview" \in st.modals, v)
  BY DEF OpsInv, EarlyTold, SamePage
<1> QED
  BY <1>1, <1>2, <1>e DEF OpsInv, SamePage

\* A preview keeps it on the same terms.
LEMMA PreviewServed ==
  ASSUME NEW st, NEW cs, NEW u, NEW live, OpsInv(st, cs, u, live),
         NEW loading \in BOOLEAN, NEW f \in AnyFile,
         NEW c, c \subseteq AnyFile, NEW v, SamePage(u, v), v.forgotten = u.forgotten,
         "preview" \in st.modals /\ v.opened =>
            /\ live /\ loading => c # {}
            /\ f # NoFile => f = st.props["preview"]
            /\ \A g \in c : g = st.props["preview"],
         EarlyTold(f, "preview" \in st.modals, v)
  PROVE  OpsInv(FileOps!SET_PREVIEW_CONTENT(st, loading, f),
                [cs EXCEPT !["preview"] = c], v, live)
<1>1. PICK d : d = FileOps!SET_PREVIEW_CONTENT(st, loading, f)
  OBVIOUS
<1>2. st \in FileStores /\ IsCalls(cs) /\ "preview" \in FileOps!Watchers
  BY WatcherNames DEF OpsInv
<1>3. /\ d \in FileStores
      /\ SameListing(st, d) /\ SameModals(st, d) /\ d.link = st.link
      /\ d.byKey = st.byKey /\ d.status = st.status /\ d.keys = st.keys
      /\ d.preview.content = f /\ d.preview.loading = loading
  BY <1>1, <1>2, PreviewPut
<1>4. PICK ds : ds = [cs EXCEPT !["preview"] = c]
  OBVIOUS
<1>p. PutAt(cs, "preview", c, [cs EXCEPT !["preview"] = c])
  BY <1>2, CallsPutAt
<1>5. IsCalls(ds) /\ ds["preview"] = c
      /\ \A w \in FileOps!Watchers : w # "preview" => ds[w] = cs[w]
  <2>1. PutAt(cs, "preview", c, ds)
    BY ONLY <1>p, <1>4
  <2> QED
    BY ONLY <2>1 DEF PutAt
<1>6. /\ \A op \in FileOps!Batch \cup FileOps!Job : ds[op] = cs[op]
      /\ \A w \in {"rename", "link", "pushKeys"} : ds[w] = cs[w]
  BY <1>5, WatcherNames
<1>7. PreviewFits("preview" \in d.modals /\ v.opened, d.props["preview"], d.preview,
                  ds["preview"], live)
  BY <1>3, <1>5 DEF PreviewFits, SameModals
<1>8. ASSUME NEW op \in FileOps!Job
      PROVE  JobServed(op, d.status[op], ds[op], d.keys, v, live)
  BY <1>3, <1>6 DEF OpsInv, JobServed, SamePage
<1>e. EarlyTold(d.preview.content, "preview" \in d.modals, v)
  BY <1>3 DEF SameModals
<1>9. OpsInv(d, ds, v, live)
  BY <1>3, <1>5, <1>6, <1>7, <1>8, <1>e DEF OpsInv, SameListing, SameModals, SamePage
<1> QED
  BY <1>1, <1>4, <1>9

\* The status of files keeps it when each file under way is in an open batch.
LEMMA FilesServed ==
  ASSUME NEW st, NEW cs, NEW u, NEW live, OpsInv(st, cs, u, live),
         NEW op \in FileOps!Batch, NEW fs, NEW s \in FileOps!Statuses, NEW c,
         AtMostOne(c), \A b \in c : b \in Batches /\ b.open \subseteq b.src,
         live => \A f \in Files :
            (IF f \in fs THEN s ELSE st.byKey[op][f]) = "RUNNING"
               => \E b \in c : f \in b.open
  PROVE  OpsInv(FileOps!SET_OPERATION_STATUS_BY_KEY(st, op, fs, s),
                [cs EXCEPT ![op] = c], u, live)
<1>1. PICK d : d = FileOps!SET_OPERATION_STATUS_BY_KEY(st, op, fs, s)
  OBVIOUS
<1>2. st \in FileStores /\ IsCalls(cs) /\ op \in FileOps!Watchers
  BY WatcherNames DEF OpsInv
<1>3. /\ d \in FileStores
      /\ SameListing(st, d) /\ SameModals(st, d) /\ SameShown(st, d)
      /\ d.status = st.status /\ d.keys = st.keys
      /\ \A f \in Files : d.byKey[op][f] = IF f \in fs THEN s ELSE st.byKey[op][f]
      /\ \A o \in FileOps!Batch : o # op => d.byKey[o] = st.byKey[o]
  BY <1>1, <1>2, ByKeyPut
<1>4. PICK ds : ds = [cs EXCEPT ![op] = c]
  OBVIOUS
<1>p. PutAt(cs, op, c, [cs EXCEPT ![op] = c])
  BY <1>2, CallsPutAt
<1>5. IsCalls(ds) /\ ds[op] = c
      /\ \A w \in FileOps!Watchers : w # op => ds[w] = cs[w]
  <2>1. PutAt(cs, op, c, ds)
    BY ONLY <1>p, <1>4
  <2> QED
    BY ONLY <2>1 DEF PutAt
<1>6. /\ \A o \in FileOps!Batch : o # op => ds[o] = cs[o]
      /\ \A o \in FileOps!Job : ds[o] = cs[o]
      /\ \A w \in {"rename", "link", "preview", "pushKeys"} : ds[w] = cs[w]
  BY <1>5, WatcherNames
<1>7. BatchServed(d.byKey[op], ds[op], live)
  BY <1>3, <1>5 DEF BatchServed
<1>8. ASSUME NEW o \in FileOps!Batch
      PROVE  BatchServed(d.byKey[o], ds[o], live)
  BY <1>3, <1>6, <1>7 DEF OpsInv
<1>9. OpsInv(d, ds, u, live)
  BY <1>3, <1>5, <1>6, <1>8 DEF OpsInv, SameListing, SameModals, SameShown
<1> QED
  BY <1>1, <1>4, <1>9

\* A modal goes into its animation or out of it.
Flips(u, m, v) ==
  /\ v \in FilePages
  /\ v.closing = IF m \in store.modals THEN u.closing \cup {m} ELSE u.closing \ {m}
  /\ (v.opened <=> (u.opened /\ m # "preview")) /\ v.early = u.early
  /\ v.forgotten = u.forgotten /\ v.uploaded = u.uploaded
  /\ v.rejected = u.rejected /\ v.crossed = u.crossed /\ v.up = u.up

\* What opening or closing a window changes of the page.
LEMMA FlippedPut ==
  ASSUME NEW u \in FilePages, NEW m \in FileOps!Modals, store \in FileStores, NEW v,
         v = FileOps!flipped(u, m)
  PROVE  Flips(u, m, v)
<1> DEFINE c == IF m \in store.modals THEN u.closing \cup {m} ELSE u.closing \ {m}
           z == IF m \in FileOps!Batch \ (store.modals \cup {"upload"})
                THEN [u.frozen EXCEPT ![m] = store.selected] ELSE u.frozen
<1>1. c \subseteq FileOps!Modals
  BY DEF FilePages
<1>2. u.frozen \in Frozen /\ store.selected \subseteq Files
  BY DEF FilePages, FileStores
<1>3. z \in Frozen
  BY <1>2 DEF Frozen
<1> DEFINE o == u.opened /\ m # "preview"
<1>4. v = [u EXCEPT !.closing = c, !.opened = o, !.frozen = z]
  BY DEF FileOps!flipped, FilePages
<1>o. o \in BOOLEAN /\ (o <=> (u.opened /\ m # "preview"))
  OBVIOUS
<1> HIDE DEF z, c, o
<1>5. /\ v \in FilePages /\ v.closing = c /\ v.opened = o /\ v.early = u.early
      /\ v.forgotten = u.forgotten /\ v.uploaded = u.uploaded
      /\ v.rejected = u.rejected /\ v.crossed = u.crossed /\ v.up = u.up
  BY <1>1, <1>3, <1>4, <1>o DEF FilePages
<1> QED
  BY <1>5, <1>o DEF c, Flips

\* A window opens or closes and keeps the invariant when what it shows is of
\* its file.
LEMMA ToggleServed ==
  ASSUME NEW st, NEW cs, NEW u, NEW live, OpsInv(st, cs, u, live),
         NEW m \in FileOps!Modals, NEW f \in AnyFile, NEW v, v \in FilePages,
         v.closing = IF m \in st.modals THEN u.closing \cup {m} ELSE u.closing \ {m},
         v.opened <=> (u.opened /\ m # "preview"), v.early = u.early,
         m = "preview" => m \in st.modals \/ m \notin u.closing,
         v.rejected = u.rejected, v.uploaded = u.uploaded,
         v.crossed = u.crossed, v.up = u.up,
         IF m = "link" /\ m \notin st.modals
         THEN v.forgotten \/ (st.link.url = NoFile /\ \A r \in cs["link"] : r.file = f)
         ELSE v.forgotten = u.forgotten
  PROVE  OpsInv(FileOps!TOGGLE_MODAL(st, m, f), cs, v, live)
<1>1. PICK d : d = FileOps!TOGGLE_MODAL(st, m, f)
  OBVIOUS
<1>2. st \in FileStores
  BY DEF OpsInv
<1>3. /\ d \in FileStores /\ SameListing(st, d) /\ SameShown(st, d)
      /\ d.status = st.status /\ d.keys = st.keys
      /\ d.modals = IF m \in st.modals THEN st.modals \ {m} ELSE st.modals \cup {m}
      /\ \A n \in FileOps!Named : d.props[n] = IF n = m THEN f ELSE st.props[n]
      /\ \A op \in FileOps!Batch :
            \/ d.byKey[op] = st.byKey[op]
            \/ \A x \in Files : d.byKey[op][x] = "none"
  <2>1. Toggled(st, m, f, d)
    BY ONLY <1>1, <1>2, m \in FileOps!Modals, f \in AnyFile, TogglePut
  <2> QED
    BY ONLY <2>1 DEF Toggled
<1>4. "link" \in FileOps!Named
  BY DEF FileOps!Named
<1>5. LinkFits("link" \in d.modals, v.forgotten, d.props["link"], d.link, cs["link"], live)
  <2>1. LinkFits("link" \in st.modals, u.forgotten, st.props["link"], st.link,
                 cs["link"], live)
    BY DEF OpsInv
  <2>2. CASE m = "link" /\ m \in st.modals
    BY <2>1, <2>2, <1>3 DEF LinkFits, SameShown
  <2>3. CASE m = "link" /\ m \notin st.modals
    BY <2>1, <2>3, <1>3, <1>4 DEF LinkFits, SameShown
  <2>4. CASE m # "link"
    BY <2>1, <2>4, <1>3, <1>4 DEF LinkFits, SameShown
  <2> QED
    BY <2>2, <2>3, <2>4
<1>6. PreviewFits("preview" \in d.modals /\ v.opened, d.props["preview"], d.preview,
                  cs["preview"], live)
  <2>1. PreviewFits("preview" \in st.modals /\ u.opened, st.props["preview"], st.preview,
                    cs["preview"], live)
    BY DEF OpsInv
  <2>2. CASE m = "preview"
    BY <2>1, <2>2 DEF PreviewFits
  <2>3. CASE m # "preview"
    <3>1. "preview" \in FileOps!Named
      BY DEF FileOps!Named
    <3> QED
      BY <1>3, <2>1, <2>3, <3>1 DEF PreviewFits, SameShown
  <2> QED
    BY <2>2, <2>3
<1>e. EarlyTold(d.preview.content, "preview" \in d.modals, v)
  <2>1. EarlyTold(st.preview.content, "preview" \in st.modals, u)
    BY DEF OpsInv
  <2>2. d.preview = st.preview
    BY <1>3 DEF SameShown
  <2> QED
    BY <1>3, <2>1, <2>2 DEF EarlyTold
<1>7. ASSUME NEW op \in FileOps!Job
      PROVE  JobServed(op, d.status[op], cs[op], d.keys, v, live)
  BY <1>3 DEF OpsInv, JobServed
<1>8. ASSUME NEW op \in FileOps!Batch
      PROVE  BatchServed(d.byKey[op], cs[op], live)
  <2>1. BatchServed(st.byKey[op], cs[op], live)
    BY DEF OpsInv
  <2> QED
    BY <1>3, <2>1 DEF BatchServed
<1>9. d.modals \cap v.closing = {}
  BY <1>3 DEF OpsInv
<1>10. OpsInv(d, cs, v, live)
  BY <1>3, <1>5, <1>6, <1>7, <1>8, <1>9, <1>e DEF OpsInv, SameListing
<1> QED
  BY <1>1, <1>10

\* Calls that are put back are the calls.
LEMMA CallsStay ==
  ASSUME NEW cs, IsCalls(cs), NEW w \in FileOps!Watchers
  PROVE  [cs EXCEPT ![w] = cs[w]] = cs
  BY DEF IsCalls

\* Windows other than that of the link, and closing that one.
LEMMA FlipServed ==
  ASSUME NEW st, NEW cs, NEW u, NEW live, OpsInv(st, cs, u, live),
         store \in FileStores, st.modals = store.modals,
         NEW m \in FileOps!Modals, m # "link" \/ m \in st.modals, NEW f \in AnyFile,
         m = "preview" => m \in st.modals \/ m \notin u.closing
  PROVE  OpsInv(FileOps!TOGGLE_MODAL(st, m, f), cs, FileOps!flipped(u, m), live)
<1>1. PICK v : v = FileOps!flipped(u, m)
  OBVIOUS
<1>2. u \in FilePages
  BY DEF OpsInv
<1>3. /\ v \in FilePages
      /\ v.closing = IF m \in store.modals THEN u.closing \cup {m} ELSE u.closing \ {m}
      /\ (v.opened <=> (u.opened /\ m # "preview")) /\ v.early = u.early
      /\ v.forgotten = u.forgotten /\ v.uploaded = u.uploaded
      /\ v.rejected = u.rejected /\ v.crossed = u.crossed /\ v.up = u.up
  <2>1. Flips(u, m, v)
    BY ONLY <1>1, <1>2, m \in FileOps!Modals, store \in FileStores, FlippedPut
  <2> QED
    BY ONLY <2>1 DEF Flips
<1>4. OpsInv(FileOps!TOGGLE_MODAL(st, m, f), cs, v, live)
  BY <1>3, ToggleServed
<1> QED
  BY <1>1, <1>4

\* A job is asked for, if no call of it is open.
LEMMA JobTaken ==
  ASSUME NEW st, NEW cs, NEW u, NEW live, OpsInv(st, cs, u, live),
         NEW w \in FileOps!Job, NEW r
  PROVE  /\ OpsInv(st, FileOps!take(cs, w, r), u, live)
         /\ alive => FileOps!take(cs, w, r)[w] # {}
<1>1. CASE alive /\ cs[w] = {}
  <2>1. FileOps!take(cs, w, r) = [cs EXCEPT ![w] = {r}]
    BY <1>1 DEF FileOps!take
  <2>2. JobServed(w, st.status[w], {r}, st.keys, u, live)
    BY DEF JobServed
  <2>3. OpsInv(st, [cs EXCEPT ![w] = {r}], u, live)
    BY <2>2, CallsOfJob
  <2>4. IsCalls(cs) /\ w \in FileOps!Watchers
    BY WatcherNames DEF OpsInv
  <2>5. [cs EXCEPT ![w] = {r}][w] = {r}
    BY ONLY <2>4 DEF IsCalls
  <2> QED
    BY <2>1, <2>3, <2>5
<1>2. CASE ~(alive /\ cs[w] = {})
  BY <1>2 DEF FileOps!take
<1> QED
  BY <1>1, <1>2

\* Calls that no part of the invariant is about.
LEMMA ApartTaken ==
  ASSUME NEW st, NEW cs, NEW u, NEW live, OpsInv(st, cs, u, live),
         NEW w \in {"download", "mkdir", "makePublic"}, NEW r
  PROVE  OpsInv(st, FileOps!take(cs, w, r), u, live)
<1>1. OpsInv(st, [cs EXCEPT ![w] = {r}], u, live)
  BY CallsApart
<1> QED
  BY <1>1 DEF FileOps!take

OpsNow == OpsInv(store, calls, ui, alive)

\* The page is opened in its invariant.
LEMMA OpsStart ==
  ASSUME FileOps!Init
  PROVE  OpsNow
<1>1. store = FileOps!initialFilesState /\ alive = TRUE
  BY DEF FileOps!Init
<1>2. /\ ui \in FilePages /\ ui.closing = {} /\ ui.rejected = {} /\ ui.uploaded = {}
      /\ ~ui.opened /\ ~ui.early
  BY DEF FileOps!Init, FilePages, Frozen
<1>3. /\ [m \in FileOps!Named |-> NoFile] \in NamedFiles
      /\ [op \in FileOps!Batch |-> [f \in Files |-> "none"]] \in BatchStatuses
      /\ [op \in FileOps!Job \cup {"rename"} |-> "none"] \in JobStatuses
  BY DEF NamedFiles, AnyFile, BatchStatuses, FileStatuses, FileOps!Statuses, JobStatuses
<1>4. /\ [loading |-> FALSE, method |-> "none", url |-> NoFile] \in LinkStates
      /\ [loading |-> TRUE, content |-> NoFile] \in PreviewStates
      /\ [open |-> FALSE, by |-> "none", submitting |-> FALSE] \in KeyModals
  BY DEF LinkStates, PreviewStates, KeyModals, AnyFile, Askers
<1>5. store \in FileStores /\ store.modals = {} /\ store.selected = {}
  BY <1>1, <1>3, <1>4 DEF FileOps!initialFilesState, FileStores
<1>6. /\ \A op \in FileOps!Batch : \A f \in Files : store.byKey[op][f] = "none"
      /\ \A op \in FileOps!Job \cup {"rename"} : store.status[op] = "none"
      /\ ~store.link.loading
  BY <1>1 DEF FileOps!initialFilesState
<1>7. IsCalls(FileOps!NoCalls) /\ \A w \in FileOps!Watchers : FileOps!NoCalls[w] = {}
  BY DEF FileOps!NoCalls, IsCalls
<1>8. IsCalls(calls) /\ \A w \in FileOps!Watchers : w # "FETCH_FILES" => calls[w] = {}
  <2>1. calls = [FileOps!NoCalls EXCEPT !["FETCH_FILES"] = {"page"}]
    BY DEF FileOps!Init
  <2>2. "FETCH_FILES" \in FileOps!Watchers
    BY WatcherNames
  <2>3. PutAt(FileOps!NoCalls, "FETCH_FILES", {"page"}, calls)
    BY <1>7, <2>1, <2>2, CallsPutAt
  <2> QED
    BY <1>7, <2>3 DEF PutAt
<1>9. /\ \A op \in FileOps!Batch \cup FileOps!Job : calls[op] = {}
      /\ \A w \in {"rename", "link", "preview", "pushKeys"} : calls[w] = {}
  BY <1>8, WatcherNames
<1>10. \A op \in FileOps!Batch : BatchServed(store.byKey[op], calls[op], alive)
  BY <1>6, <1>9 DEF BatchServed, AtMostOne
<1>11. \A op \in FileOps!Job : JobServed(op, store.status[op], calls[op], store.keys, ui,
       alive)
  BY <1>6 DEF JobServed
<1>12. RenameServed(store.status["rename"], calls["rename"], alive)
  BY <1>6 DEF RenameServed
<1>13. LinkFits("link" \in store.modals, ui.forgotten, store.props["link"], store.link,
                calls["link"], alive)
  BY <1>5, <1>6, <1>9 DEF LinkFits
<1>14. PreviewFits("preview" \in store.modals /\ ui.opened, store.props["preview"],
                   store.preview, calls["preview"], alive)
  BY <1>5, <1>9 DEF PreviewFits
<1>15. EarlyTold(store.preview.content, "preview" \in store.modals, ui)
  BY <1>1 DEF EarlyTold, FileOps!initialFilesState
<1> QED
  BY <1>1, <1>2, <1>5, <1>8, <1>9, <1>10, <1>11, <1>12, <1>13, <1>14, <1>15
     DEF OpsNow, OpsInv

-----------------------------------------------------------------------------
(* The answers.                                                            *)

\* An answer of a batch.
LEMMA BatchAnswered ==
  ASSUME OpsNow, NEW op \in FileOps!Batch, FileOps!batchAnswer(op)
  PROVE  OpsNow'
<1>0. OpsInv(store, calls, ui, alive) /\ store \in FileStores
      /\ BatchServed(store.byKey[op], calls[op], alive)
  BY DEF OpsNow, OpsInv
<1>1. PICK b \in calls[op] : \E f \in b.open : \E ok \in BOOLEAN :
        LET rest == [b EXCEPT !.open = @ \ {f}, !.err = @ \/ ~ok]
            told == FileOps!SET_OPERATION_STATUS_BY_KEY(store, op, {f},
                                            IF ok THEN "SUCCESS" ELSE "ERROR")
            toggles == ~rest.err /\ op # "upload"
        IN  /\ IF rest.open # {}
               THEN /\ store' = told /\ UNCHANGED ui
                    /\ calls' = [calls EXCEPT ![op] = {rest}]
               ELSE /\ store' = FileOps!reload(IF toggles
                                    THEN FileOps!TOGGLE_MODAL(told, op, NoFile) ELSE told)
                    /\ ui' = IF toggles THEN FileOps!flipped(ui, op) ELSE ui
                    /\ calls' = FileOps!reloading([calls EXCEPT ![op] = {}])
            /\ UNCHANGED alive
  BY DEF FileOps!batchAnswer
<1>2. PICK f \in b.open, ok \in BOOLEAN :
        LET rest == [b EXCEPT !.open = @ \ {f}, !.err = @ \/ ~ok]
            told == FileOps!SET_OPERATION_STATUS_BY_KEY(store, op, {f},
                                            IF ok THEN "SUCCESS" ELSE "ERROR")
            toggles == ~rest.err /\ op # "upload"
        IN  /\ IF rest.open # {}
               THEN /\ store' = told /\ UNCHANGED ui
                    /\ calls' = [calls EXCEPT ![op] = {rest}]
               ELSE /\ store' = FileOps!reload(IF toggles
                                    THEN FileOps!TOGGLE_MODAL(told, op, NoFile) ELSE told)
                    /\ ui' = IF toggles THEN FileOps!flipped(ui, op) ELSE ui
                    /\ calls' = FileOps!reloading([calls EXCEPT ![op] = {}])
            /\ UNCHANGED alive
  BY <1>1
<1>3. PICK rest : rest = [b EXCEPT !.open = @ \ {f}, !.err = @ \/ ~ok]
  OBVIOUS
<1>4. PICK s : s = IF ok THEN "SUCCESS" ELSE "ERROR"
  OBVIOUS
<1>5. PICK told : told = FileOps!SET_OPERATION_STATUS_BY_KEY(store, op, {f}, s)
  OBVIOUS
<1>6. PICK toggles : toggles = (~rest.err /\ op # "upload")
  OBVIOUS
<1>7. /\ IF rest.open # {}
         THEN /\ store' = told /\ UNCHANGED ui
              /\ calls' = [calls EXCEPT ![op] = {rest}]
         ELSE /\ store' = FileOps!reload(IF toggles
                              THEN FileOps!TOGGLE_MODAL(told, op, NoFile) ELSE told)
              /\ ui' = IF toggles THEN FileOps!flipped(ui, op) ELSE ui
              /\ calls' = FileOps!reloading([calls EXCEPT ![op] = {}])
      /\ UNCHANGED alive
  BY <1>2, <1>3, <1>4, <1>5, <1>6
<1>8. s \in FileOps!Statuses /\ s # "RUNNING"
  BY <1>4 DEF FileOps!Statuses
<1>9. b \in Batches /\ b.open \subseteq b.src
  BY <1>0 DEF BatchServed
<1>10. rest \in Batches /\ rest.open = b.open \ {f} /\ rest.src = b.src
  BY <1>3, <1>9 DEF Batches
<1>11. ASSUME NEW g \in Files, alive,
              (IF g \in {f} THEN s ELSE store.byKey[op][g]) = "RUNNING"
       PROVE  g \in rest.open
  <2>1. g # f /\ store.byKey[op][g] = "RUNNING"
    BY <1>8, <1>11
  <2>2. PICK b1 \in calls[op] : g \in b1.open
    BY <1>0, <1>11, <2>1 DEF BatchServed
  <2>3. b1 = b
    BY <1>0, <2>2 DEF BatchServed, AtMostOne
  <2> QED
    BY <1>10, <2>1, <2>2, <2>3
<1>12. CASE rest.open # {}
  <2>1. AtMostOne({rest}) /\ \A x \in {rest} : x \in Batches /\ x.open \subseteq x.src
    BY <1>9, <1>10 DEF AtMostOne
  <2>2. OpsInv(FileOps!SET_OPERATION_STATUS_BY_KEY(store, op, {f}, s),
               [calls EXCEPT ![op] = {rest}], ui, alive)
    BY <1>0, <1>8, <1>11, <2>1, FilesServed
  <2> QED
    BY <1>5, <1>7, <1>12, <2>2 DEF OpsNow
<1>13. CASE rest.open = {}
  <2>1. AtMostOne({})
    BY DEF AtMostOne
  <2>2. OpsInv(FileOps!SET_OPERATION_STATUS_BY_KEY(store, op, {f}, s),
               [calls EXCEPT ![op] = {}], ui, alive)
    BY <1>0, <1>8, <1>11, <1>13, <2>1, FilesServed
  <2>3. PICK cs : cs = [calls EXCEPT ![op] = {}]
    OBVIOUS
  <2>4. OpsInv(told, cs, ui, alive)
    BY <1>5, <2>2, <2>3
  <2>5. told.modals = store.modals
    BY <1>0, <1>5, <1>8, ByKeyPut DEF SameModals
  <2>6. PICK st : st = IF toggles THEN FileOps!TOGGLE_MODAL(told, op, NoFile) ELSE told
    OBVIOUS
  <2>7. PICK u : u = IF toggles THEN FileOps!flipped(ui, op) ELSE ui
    OBVIOUS
  <2>8. OpsInv(st, cs, u, alive)
    <3>1. op \in FileOps!Modals /\ op \notin {"link", "preview"} /\ NoFile \in AnyFile
      BY DEF FileOps!Batch, FileOps!Modals, AnyFile
    <3>2. OpsInv(FileOps!TOGGLE_MODAL(told, op, NoFile), cs, FileOps!flipped(ui, op), alive)
      BY <1>0, <2>4, <2>5, <3>1, FlipServed
    <3> QED
      BY <2>4, <2>6, <2>7, <3>2
  <2>9. OpsInv(FileOps!reload(st), FileOps!reloading(cs), u, alive)
    BY <2>8, Reloaded
  <2> QED
    BY <1>7, <1>13, <2>3, <2>6, <2>7, <2>9 DEF OpsNow
<1> QED
  BY <1>12, <1>13

\* The answer to a compression or an extraction keeps it.
LEMMA JobAnswered ==
  ASSUME OpsNow, NEW op \in FileOps!Job, FileOps!jobAnswer(op)
  PROVE  OpsNow'
<1>0. OpsInv(store, calls, ui, alive) /\ store \in FileStores /\ ui \in FilePages
  BY DEF OpsNow, OpsInv
<1>s. {"none", "RUNNING", "SUCCESS", "ERROR"} \subseteq FileOps!Statuses
  BY DEF FileOps!Statuses
<1>a. alive' = alive
  BY DEF FileOps!jobAnswer
<1>1. CASE store' = FileOps!SET_OPERATION_STATUS(store, op, "RUNNING")
           /\ calls' = [calls EXCEPT ![op] = {"job"}] /\ ui' = ui
  <2>1. JobServed(op, store.status[op], {"job"}, store.keys, ui, alive)
    BY DEF JobServed
  <2>2. PICK cs : cs = [calls EXCEPT ![op] = {"job"}]
    OBVIOUS
  <2>3. OpsInv(store, cs, ui, alive)
    BY <1>0, <2>1, <2>2, CallsOfJob
  <2>4. cs[op] # {}
    BY <1>0, <2>2, CallsPut, WatcherNames DEF OpsInv
  <2>5. OpsInv(FileOps!SET_OPERATION_STATUS(store, op, "RUNNING"), cs, ui, alive)
    BY <1>s, <2>3, <2>4, StatusServed
  <2> QED
    BY <1>1, <1>a, <2>2, <2>5 DEF OpsNow
<1>2. CASE store' = FileOps!SET_OPERATION_STATUS(store, op, "ERROR")
           /\ calls' = [calls EXCEPT ![op] = {}] /\ ui' = ui
  <2>1. PICK st : st = FileOps!SET_OPERATION_STATUS(store, op, "ERROR")
    OBVIOUS
  <2>2. OpsInv(st, calls, ui, alive)
    BY <1>0, <1>s, <2>1, StatusServed
  <2>3. st.status[op] = "ERROR"
    BY <1>0, <1>s, <2>1, StatusPut
  <2>4. JobServed(op, st.status[op], {}, st.keys, ui, alive)
    BY <2>3 DEF JobServed
  <2>5. OpsInv(st, [calls EXCEPT ![op] = {}], ui, alive)
    BY <2>2, <2>4, CallsOfJob
  <2> QED
    BY <1>2, <1>a, <2>1, <2>5 DEF OpsNow
<1>3. CASE /\ store' = FileOps!SYSTEMS_TOGGLE_MODAL(store, op)
           /\ ui' = [ui EXCEPT !.crossed = @ \/ store.keys.open]
           /\ calls' = [calls EXCEPT ![op] = {}]
  <2>1. PICK u : u = [ui EXCEPT !.crossed = @ \/ store.keys.open]
    OBVIOUS
  <2>2. /\ u \in FilePages /\ u.closing = ui.closing /\ u.rejected = ui.rejected
        /\ u.uploaded = ui.uploaded /\ u.crossed = (ui.crossed \/ store.keys.open)
        /\ u.up = ui.up /\ u.opened = ui.opened /\ u.forgotten = ui.forgotten
        /\ u.early = ui.early
    BY <1>0, <2>1 DEF FilePages, FileStores, KeyModals
  <2>3. ui.rejected \subseteq ui.uploaded
    BY <1>0 DEF OpsInv
  <2>4. OpsInv(store, calls, u, alive)
    BY <1>0, <2>2, <2>3, PageApart
  <2>5. op \in Askers
    BY DEF Askers
  <2>6. PICK k \in KeyModals :
           /\ FileOps!SYSTEMS_TOGGLE_MODAL(store, op) = [store EXCEPT !.keys = k]
           /\ k.open = ~store.keys.open /\ k.by = op
    BY <1>0, <2>5, KeysToggled
  <2>7. ASSUME NEW o \in FileOps!Job
        PROVE  JobServed(o, store.status[o], calls[o], k, u, alive)
    BY <1>0, <2>2, <2>6 DEF OpsInv, JobServed
  <2>8. PICK st : st = [store EXCEPT !.keys = k]
    OBVIOUS
  <2>9. OpsInv(st, calls, u, alive)
    BY <2>4, <2>7, <2>8, KeysServed
  <2>10. st.keys = k
    BY <1>0, <2>8 DEF FileStores
  <2>11. JobServed(op, st.status[op], {}, st.keys, u, alive)
    BY <1>0, <2>2, <2>6, <2>10 DEF JobServed, FileStores, KeyModals, FilePages
  <2>12. OpsInv(st, [calls EXCEPT ![op] = {}], u, alive)
    BY <2>9, <2>11, CallsOfJob
  <2> QED
    BY <1>3, <1>a, <2>1, <2>6, <2>8, <2>12 DEF OpsNow
<1>4. CASE /\ store' = FileOps!TOGGLE_MODAL(
                          FileOps!SET_OPERATION_STATUS(store, op, "SUCCESS"), op, NoFile)
           /\ ui' = FileOps!flipped(ui, op)
           /\ calls' = [calls EXCEPT ![op] = {}]
  <2>1. PICK st : st = FileOps!SET_OPERATION_STATUS(store, op, "SUCCESS")
    OBVIOUS
  <2>2. OpsInv(st, calls, ui, alive)
    BY <1>0, <1>s, <2>1, StatusServed
  <2>3. st.status[op] = "SUCCESS" /\ st.modals = store.modals
    BY <1>0, <1>s, <2>1, StatusPut DEF SameModals
  <2>4. JobServed(op, st.status[op], {}, st.keys, ui, alive)
    BY <2>3 DEF JobServed
  <2>5. PICK cs : cs = [calls EXCEPT ![op] = {}]
    OBVIOUS
  <2>6. OpsInv(st, cs, ui, alive)
    BY <2>2, <2>4, <2>5, CallsOfJob
  <2>7. op \in FileOps!Modals /\ op \notin {"link", "preview"} /\ NoFile \in AnyFile
    BY DEF FileOps!Job, FileOps!Modals, AnyFile
  <2>8. OpsInv(FileOps!TOGGLE_MODAL(st, op, NoFile), cs, FileOps!flipped(ui, op), alive)
    BY <1>0, <2>3, <2>6, <2>7, FlipServed
  <2> QED
    BY <1>4, <1>a, <2>1, <2>5, <2>8 DEF OpsNow
<1> QED
  BY <1>1, <1>2, <1>3, <1>4 DEF FileOps!jobAnswer

\* Keys were pushed, or could not be.
LEMMA KeysAnswered ==
  ASSUME OpsNow, FileOps!pushSystemKeys
  PROVE  OpsNow'
<1>0. /\ OpsInv(store, calls, ui, alive) /\ store \in FileStores /\ ui \in FilePages
      /\ IsCalls(calls) /\ calls["pushKeys"] \subseteq Askers
      /\ ui.rejected \subseteq ui.uploaded
  BY DEF OpsNow, OpsInv
<1>1. PICK ended : ended = [calls EXCEPT !["pushKeys"] = {}]
  OBVIOUS
<1>2. PICK by \in calls["pushKeys"] :
        /\ UNCHANGED alive
        /\ \/ /\ store.keys.open
              /\ store' = FileOps!reload(FileOps!SYSTEMS_TOGGLE_MODAL(store, "none"))
              /\ calls' = FileOps!reloading(IF by \in FileOps!Job
                             THEN FileOps!take(ended, by, "app") ELSE ended)
              /\ ui' = [ui EXCEPT !.crossed = @ \/ store.keys.by # by]
           \/ /\ ~store.keys.open
              /\ store' = FileOps!SYSTEMS_TOGGLE_MODAL(store, "none")
              /\ calls' = ended
              /\ ui' = [ui EXCEPT !.up = FALSE]
           \/ /\ store' = FileOps!reload(FileOps!SYSTEMS_MODAL_UPDATE(store, FALSE))
              /\ calls' = FileOps!reloading(ended)
              /\ UNCHANGED ui
  BY <1>1 DEF FileOps!pushSystemKeys
<1>3. OpsInv(store, ended, ui, alive)
  <2>1. {} \subseteq Askers
    OBVIOUS
  <2> QED
    BY <1>0, <1>1, <2>1, CallsOfKeys
<1>4. PICK k \in KeyModals :
         /\ FileOps!SYSTEMS_TOGGLE_MODAL(store, "none") = [store EXCEPT !.keys = k]
         /\ k.open = ~store.keys.open /\ k.by = "none"
  <2>1. "none" \in Askers
    BY DEF Askers
  <2> QED
    BY <1>0, <2>1, KeysToggled
<1>5. CASE /\ store.keys.open
           /\ store' = FileOps!reload(FileOps!SYSTEMS_TOGGLE_MODAL(store, "none"))
           /\ calls' = FileOps!reloading(IF by \in FileOps!Job
                          THEN FileOps!take(ended, by, "app") ELSE ended)
           /\ ui' = [ui EXCEPT !.crossed = @ \/ store.keys.by # by]
  <2>1. PICK cs : cs = IF by \in FileOps!Job THEN FileOps!take(ended, by, "app") ELSE ended
    OBVIOUS
  <2>2. OpsInv(store, cs, ui, alive)
        /\ (by \in FileOps!Job /\ alive => cs[by] # {})
    BY <1>3, <2>1, JobTaken
  <2>3. PICK u : u = [ui EXCEPT !.crossed = @ \/ store.keys.by # by]
    OBVIOUS
  <2>4. /\ u \in FilePages /\ u.closing = ui.closing /\ u.rejected = ui.rejected
        /\ u.uploaded = ui.uploaded /\ u.crossed = (ui.crossed \/ store.keys.by # by)
        /\ u.up = ui.up /\ u.opened = ui.opened /\ u.forgotten = ui.forgotten
        /\ u.early = ui.early
    BY <1>0, <2>3 DEF FilePages
  <2>5. OpsInv(store, cs, u, alive)
    BY <1>0, <2>2, <2>4, PageApart
  <2>6. ASSUME NEW o \in FileOps!Job
        PROVE  JobServed(o, store.status[o], cs[o], k, u, alive)
    <3>1. JobServed(o, store.status[o], cs[o], store.keys, u, alive)
      BY <2>5 DEF OpsInv
    <3> QED
      BY <2>2, <2>4, <3>1 DEF JobServed
  <2>7. PICK st : st = [store EXCEPT !.keys = k]
    OBVIOUS
  <2>8. OpsInv(st, cs, u, alive)
    BY <2>5, <2>6, <2>7, KeysServed
  <2>9. OpsInv(FileOps!reload(st), FileOps!reloading(cs), u, alive)
    BY <2>8, Reloaded
  <2> QED
    BY <1>2, <1>4, <1>5, <2>1, <2>3, <2>7, <2>9 DEF OpsNow
<1>6. CASE /\ ~store.keys.open
           /\ store' = FileOps!SYSTEMS_TOGGLE_MODAL(store, "none")
           /\ calls' = ended
           /\ ui' = [ui EXCEPT !.up = FALSE]
  <2>1. PICK u : u = [ui EXCEPT !.up = FALSE]
    OBVIOUS
  <2>2. /\ u \in FilePages /\ u.closing = ui.closing /\ u.rejected = ui.rejected
        /\ u.uploaded = ui.uploaded /\ u.crossed = ui.crossed
        /\ ~u.up /\ u.opened = ui.opened /\ u.forgotten = ui.forgotten
        /\ u.early = ui.early
    BY <1>0, <2>1 DEF FilePages
  <2>3. OpsInv(store, ended, u, alive)
    BY <1>0, <1>3, <2>2, PageApart
  <2>4. \A o \in FileOps!Job : JobServed(o, store.status[o], ended[o], k, u, alive)
    BY <2>2 DEF JobServed
  <2>5. OpsInv([store EXCEPT !.keys = k], ended, u, alive)
    BY <2>3, <2>4, KeysServed
  <2> QED
    BY <1>2, <1>4, <1>6, <2>1, <2>5 DEF OpsNow
<1>7. CASE /\ store' = FileOps!reload(FileOps!SYSTEMS_MODAL_UPDATE(store, FALSE))
           /\ calls' = FileOps!reloading(ended)
           /\ UNCHANGED ui
  <2>1. PICK q \in KeyModals :
           /\ FileOps!SYSTEMS_MODAL_UPDATE(store, FALSE) = [store EXCEPT !.keys = q]
           /\ q.open = store.keys.open /\ q.by = store.keys.by
    BY <1>0, KeysUpdated
  <2>2. ASSUME NEW o \in FileOps!Job
        PROVE  JobServed(o, store.status[o], ended[o], q, ui, alive)
    BY <1>3, <2>1 DEF OpsInv, JobServed
  <2>3. PICK st : st = [store EXCEPT !.keys = q]
    OBVIOUS
  <2>4. OpsInv(st, ended, ui, alive)
    BY <1>3, <2>2, <2>3, KeysServed
  <2>5. OpsInv(FileOps!reload(st), FileOps!reloading(ended), ui, alive)
    BY <2>4, Reloaded
  <2> QED
    BY <1>2, <1>7, <2>1, <2>3, <2>5 DEF OpsNow
<1> QED
  BY <1>2, <1>5, <1>6, <1>7

\* The answer to a new name keeps it.
LEMMA RenameAnswered ==
  ASSUME OpsNow, FileOps!renameFile
  PROVE  OpsNow'
<1>0. OpsInv(store, calls, ui, alive) /\ store \in FileStores /\ IsCalls(calls)
  BY DEF OpsNow, OpsInv
<1>1. PICK st : st = FileOps!SET_OPERATION_STATUS(store, "rename", "none")
  OBVIOUS
<1>2. "none" \in FileOps!Statuses /\ "none" # "RUNNING"
  BY DEF FileOps!Statuses
<1>3. OpsInv(st, calls, ui, alive)
  BY <1>0, <1>1, <1>2, StatusServed
<1>4. st.status["rename"] = "none"
  BY <1>0, <1>1, <1>2, StatusPut
<1>5. PICK cs : cs = [calls EXCEPT !["rename"] = {}]
  OBVIOUS
<1>6. PutAt(calls, "rename", {}, cs)
  BY <1>0, <1>5, CallsPutAt, WatcherNames
<1>7. /\ \A op \in FileOps!Batch \cup FileOps!Job : cs[op] = calls[op]
      /\ \A w \in {"link", "preview", "pushKeys"} : cs[w] = calls[w]
  BY <1>6, WatcherNames DEF PutAt
<1>8. RenameServed(st.status["rename"], cs["rename"], alive)
  BY <1>2, <1>4 DEF RenameServed
<1>9. OpsInv(st, cs, ui, alive)
  BY <1>3, <1>6, <1>7, <1>8 DEF OpsInv, PutAt
<1>10. OpsInv(FileOps!reload(st), FileOps!reloading(cs), ui, alive)
  BY <1>9, Reloaded
<1>11. /\ ui' = ui /\ alive' = alive
       /\ \/ store' = FileOps!reload(st) /\ calls' = FileOps!reloading(cs)
          \/ store' = st /\ calls' = cs
  BY <1>1, <1>5 DEF FileOps!renameFile
<1> QED
  BY <1>9, <1>10, <1>11 DEF OpsNow

\* The answer about a link keeps it.
LEMMA LinkAnswered ==
  ASSUME OpsNow, FileOps!fileLink
  PROVE  OpsNow'
<1>0. /\ OpsInv(store, calls, ui, alive) /\ ui \in FilePages
      /\ LinkFits("link" \in store.modals, ui.forgotten, store.props["link"], store.link,
                  calls["link"], alive)
  BY DEF OpsNow, OpsInv
<1>1. PICK r \in calls["link"], url \in AnyFile :
        /\ url \in {r.file, NoFile}
        /\ store' = FileOps!SET_LINK(store, "none", url)
        /\ calls' = [calls EXCEPT !["link"] = {}]
        /\ UNCHANGED <<ui, alive>>
  <2>1. \A r \in calls["link"] : r.file \in AnyFile
    BY <1>0 DEF LinkFits
  <2> QED
    BY <2>1 DEF FileOps!fileLink, AnyFile
<1>2. url \in AnyFile
  BY <1>1
<1>3. SamePage(ui, ui)
  BY <1>0 DEF SamePage
<1>4. OpsInv(FileOps!SET_LINK(store, "none", url), [calls EXCEPT !["link"] = {}], ui, alive)
  <2>1. "link" \in store.modals /\ ~ui.forgotten =>
            /\ url # NoFile => url = store.props["link"]
            /\ \A q \in {} : q.file = store.props["link"]
    BY <1>0, <1>1 DEF LinkFits
  <2>2. (\A q \in {} : q.file \in AnyFile)
        /\ (alive /\ url = NoFile /\ "none" # "none" => {} # {})
    OBVIOUS
  <2>3. "none" \in {"none", "get", "post", "put", "delete"}
    OBVIOUS
  <2> QED
    BY ONLY <1>0, <1>2, <1>3, <2>1, <2>2, <2>3, LinkServed
<1> QED
  BY <1>1, <1>4 DEF OpsNow

\* The answer to a preview keeps it.
LEMMA PreviewAnswered ==
  ASSUME OpsNow, FileOps!preview
  PROVE  OpsNow'
<1>0. /\ OpsInv(store, calls, ui, alive) /\ ui \in FilePages
      /\ PreviewFits("preview" \in store.modals /\ ui.opened, store.props["preview"],
                     store.preview, calls["preview"], alive)
  BY DEF OpsNow, OpsInv
<1>1. PICK f \in calls["preview"] : \E shown \in {f, NoFile} :
        /\ store' = FileOps!SET_PREVIEW_CONTENT(store, FALSE, shown)
        /\ calls' = [calls EXCEPT !["preview"] = {}]
        /\ ui' = [ui EXCEPT !.early =
                    shown # NoFile /\ ~("preview" \in store.modals /\ ui.opened)]
        /\ UNCHANGED alive
  BY DEF FileOps!preview
<1>2. PICK shown \in {f, NoFile} :
        /\ store' = FileOps!SET_PREVIEW_CONTENT(store, FALSE, shown)
        /\ calls' = [calls EXCEPT !["preview"] = {}]
        /\ ui' = [ui EXCEPT !.early =
                    shown # NoFile /\ ~("preview" \in store.modals /\ ui.opened)]
        /\ UNCHANGED alive
  BY <1>1
<1>3. shown \in AnyFile /\ FALSE \in BOOLEAN /\ {} \subseteq AnyFile
  BY <1>0, <1>1 DEF PreviewFits, AnyFile
<1> DEFINE e == shown # NoFile /\ ~("preview" \in store.modals /\ ui.opened)
<1>4. PICK v : v = ui'
  OBVIOUS
<1>5. /\ SamePage(ui, v) /\ v.forgotten = ui.forgotten /\ v.opened = ui.opened
      /\ v.early = e
  <2>1. e \in BOOLEAN
    OBVIOUS
  <2>2. v = [ui EXCEPT !.early = e]
    BY <1>2, <1>4
  <2> HIDE DEF e
  <2> QED
    BY <1>0, <2>1, <2>2 DEF FilePages, SamePage
<1>6. "preview" \in store.modals /\ v.opened =>
            /\ alive /\ FALSE => {} # {}
            /\ shown # NoFile => shown = store.props["preview"]
            /\ \A g \in {} : g = store.props["preview"]
  BY <1>0, <1>1, <1>5 DEF PreviewFits
<1>7. EarlyTold(shown, "preview" \in store.modals, v)
  BY <1>5 DEF EarlyTold
<1>8. OpsInv(FileOps!SET_PREVIEW_CONTENT(store, FALSE, shown),
             [calls EXCEPT !["preview"] = {}], v, alive)
  BY ONLY <1>0, <1>3, <1>5, <1>6, <1>7, PreviewServed
<1> QED
  BY <1>2, <1>4, <1>8 DEF OpsNow

\* The answer to a new folder keeps it.
LEMMA MkdirAnswered ==
  ASSUME OpsNow, FileOps!mkdir
  PROVE  OpsNow'
<1>0. OpsInv(store, calls, ui, alive) /\ store \in FileStores
  BY DEF OpsNow, OpsInv
<1>1. CASE /\ store' = FileOps!TOGGLE_MODAL(FileOps!reload(store), "mkdir", NoFile)
           /\ calls' = FileOps!reloading([calls EXCEPT !["mkdir"] = {}])
           /\ ui' = FileOps!flipped(ui, "mkdir")
           /\ UNCHANGED alive
  <2>1. PICK cs : cs = [calls EXCEPT !["mkdir"] = {}]
    OBVIOUS
  <2>2. OpsInv(store, cs, ui, alive)
    BY <1>0, <2>1, CallsApart
  <2>3. PICK st, ds : st = FileOps!reload(store) /\ ds = FileOps!reloading(cs)
    OBVIOUS
  <2>4. OpsInv(st, ds, ui, alive)
    BY <2>2, <2>3, Reloaded
  <2>5. st.modals = store.modals
    BY <1>0, <2>3, ReloadPut DEF SameModals
  <2>6. "mkdir" \in FileOps!Modals /\ NoFile \in AnyFile
    BY DEF FileOps!Modals, AnyFile
  <2>7. OpsInv(FileOps!TOGGLE_MODAL(st, "mkdir", NoFile), ds,
               FileOps!flipped(ui, "mkdir"), alive)
    BY <1>0, <2>4, <2>5, <2>6, FlipServed
  <2> QED
    BY <1>1, <2>1, <2>3, <2>7 DEF OpsNow
<1>2. CASE FileOps!rootSagaEnds /\ UNCHANGED <<store, ui>>
  <2>1. OpsInv(store, FileOps!NoCalls, ui, FALSE)
    BY <1>0, NoneServed
  <2> QED
    BY <1>2, <2>1 DEF OpsNow, FileOps!rootSagaEnds
<1> QED
  BY <1>1, <1>2 DEF FileOps!mkdir

\* The answers that may end the root saga keep it.
LEMMA UnguardedAnswered ==
  ASSUME OpsNow, NEW w \in {"download", "makePublic"}, FileOps!unguarded(w)
  PROVE  OpsNow'
<1>0. OpsInv(store, calls, ui, alive)
  BY DEF OpsNow
<1>1. CASE calls' = [calls EXCEPT ![w] = {}] /\ UNCHANGED <<store, ui, alive>>
  <2>1. OpsInv(store, [calls EXCEPT ![w] = {}], ui, alive)
    BY <1>0, CallsApart
  <2> QED
    BY <1>1, <2>1 DEF OpsNow
<1>2. CASE FileOps!rootSagaEnds /\ UNCHANGED <<store, ui>>
  <2>1. OpsInv(store, FileOps!NoCalls, ui, FALSE)
    BY <1>0, NoneServed
  <2> QED
    BY <1>2, <2>1 DEF OpsNow, FileOps!rootSagaEnds
<1> QED
  BY <1>1, <1>2 DEF FileOps!unguarded

\* The listing that was reloaded arrives.
LEMMA ListingAnswered ==
  ASSUME OpsNow, FileOps!fetchFiles
  PROVE  OpsNow'
<1>0. OpsInv(store, calls, ui, alive) /\ store \in FileStores
      /\ store.selected \subseteq store.listing
  BY DEF OpsNow, OpsInv
<1>1. PICK cs : cs = [calls EXCEPT !["FETCH_FILES"] = {}]
  OBVIOUS
<1>2. OpsInv(store, cs, ui, alive)
  BY <1>0, <1>1, CallsApart
<1>3. /\ \/ store' = [store EXCEPT !.listing = Files]
         \/ store' = [store EXCEPT !.err = TRUE]
      /\ calls' = cs /\ ui' = ui /\ alive' = alive
  BY <1>1 DEF FileOps!fetchFiles
<1>4. PICK d : d = store'
  OBVIOUS
<1>5. /\ d \in FileStores /\ SameModals(store, d) /\ SameShown(store, d)
      /\ d.byKey = store.byKey /\ d.status = store.status /\ d.keys = store.keys
      /\ d.selected \subseteq d.listing
  BY <1>0, <1>3, <1>4 DEF FileStores, SameModals, SameShown
<1>6. OpsInv(d, cs, ui, alive)
  BY <1>2, <1>5, ListingServed
<1> QED
  BY <1>3, <1>4, <1>6 DEF OpsNow

-----------------------------------------------------------------------------
(* The page and its modals.                                                *)

\* The only file of a selection is one.
LEMMA OneFile ==
  ASSUME NEW files, files \subseteq Files, FileOps!Cardinality(files) = 1
  PROVE  FileOps!The(files) \in AnyFile
<1>1. files # {}
  <2>1. Cardinality({}) = 0
    BY FS_EmptySet
  <2>2. FileOps!Cardinality({}) = 0
    BY <2>1 DEF FileOps!Cardinality, Cardinality
  <2> QED
    BY <2>2
<1> QED
  BY <1>1 DEF FileOps!The, AnyFile

\* A window that is opened on a file.
LEMMA OpensServed ==
  ASSUME OpsNow, NEW m \in FileOps!Modals, m # "link", NEW f \in AnyFile,
         m = "preview" => m \notin ui.closing,
         FileOps!opens(m, f)
  PROVE  OpsInv(store', calls, ui', alive) /\ alive' = alive
<1>0. OpsInv(store, calls, ui, alive) /\ store \in FileStores
  BY DEF OpsNow, OpsInv
<1>1. OpsInv(FileOps!TOGGLE_MODAL(store, m, f), calls, FileOps!flipped(ui, m), alive)
  BY <1>0, FlipServed
<1> QED
  BY <1>1 DEF FileOps!opens

\* Selecting keeps the invariant.
LEMMA SelectServed ==
  ASSUME OpsNow, FileOps!select
  PROVE  OpsNow'
<1>0. OpsInv(store, calls, ui, alive) /\ store \in FileStores
  BY DEF OpsNow, OpsInv
<1>1. PICK s \in SUBSET store.listing : store' = [store EXCEPT !.selected = s]
  BY DEF FileOps!select
<1>2. calls' = calls /\ ui' = ui /\ alive' = alive
  BY DEF FileOps!select
<1>3. PICK d : d = store'
  OBVIOUS
<1>4. /\ d \in FileStores /\ SameModals(store, d) /\ SameShown(store, d)
      /\ d.byKey = store.byKey /\ d.status = store.status /\ d.keys = store.keys
      /\ d.selected \subseteq d.listing
  BY <1>0, <1>1, <1>3 DEF FileStores, SameModals, SameShown
<1>5. OpsInv(d, calls, ui, alive)
  BY <1>0, <1>4, ListingServed
<1> QED
  BY <1>2, <1>3, <1>5 DEF OpsNow

\* The link's modal opens, and the link is looked up.
LEMMA LinkOpens ==
  ASSUME OpsNow, FileOps!Idle, NEW f \in AnyFile,
         calls' = FileOps!take(calls, "link", [file |-> f, method |-> "get"]),
         store' = FileOps!TOGGLE_MODAL(
                     IF FileOps!taken("link") THEN FileOps!SET_LINK(store, "get", NoFile)
                     ELSE store, "link", f),
         ui' = [FileOps!flipped(ui, "link") EXCEPT !.forgotten = ~FileOps!taken("link")],
         alive' = alive
  PROVE  OpsNow'
<1>0. /\ OpsInv(store, calls, ui, alive) /\ store \in FileStores /\ ui \in FilePages
      /\ IsCalls(calls)
  BY DEF OpsNow, OpsInv
<1>1. alive /\ "link" \notin store.modals
  BY DEF FileOps!Idle, FileOps!Up
<1>2. "link" \in FileOps!Modals /\ NoFile \in AnyFile
  BY DEF FileOps!Modals, AnyFile
<1>3. PICK w : w = FileOps!flipped(ui, "link")
  OBVIOUS
<1>4. Flips(ui, "link", w)
  BY <1>0, <1>2, <1>3, FlippedPut
<1>5. PICK v : v = ui'
  OBVIOUS
<1>6. /\ v \in FilePages
      /\ v.closing = IF "link" \in store.modals THEN ui.closing \cup {"link"}
                     ELSE ui.closing \ {"link"}
      /\ (v.opened <=> (ui.opened /\ "link" # "preview")) /\ v.early = ui.early
      /\ v.uploaded = ui.uploaded /\ v.rejected = ui.rejected
      /\ v.crossed = ui.crossed /\ v.up = ui.up /\ v.forgotten = ~FileOps!taken("link")
  BY <1>3, <1>4, <1>5 DEF Flips, FilePages, FileOps!taken
<1>7. CASE calls["link"] = {}
  <2>1. FileOps!taken("link")
    BY <1>1, <1>7 DEF FileOps!taken
  <2>2. PICK r : r = [file |-> f, method |-> "get"]
    OBVIOUS
  <2>3. calls' = [calls EXCEPT !["link"] = {r}]
    BY <1>1, <1>7, <2>2 DEF FileOps!take
  <2>4. PICK st : st = FileOps!SET_LINK(store, "get", NoFile)
    OBVIOUS
  <2>5. PICK cs : cs = [calls EXCEPT !["link"] = {r}]
    OBVIOUS
  <2>6. "get" \in {"none", "get", "post", "put", "delete"}
    OBVIOUS
  <2>7. OpsInv(st, cs, ui, alive)
    <3>1. SamePage(ui, ui)
      BY <1>0 DEF SamePage
    <3>2. /\ alive /\ NoFile = NoFile /\ "get" # "none" => {r} # {}
          /\ \A q \in {r} : q.file \in AnyFile
      BY <2>2
    <3>3. OpsInv(FileOps!SET_LINK(store, "get", NoFile), [calls EXCEPT !["link"] = {r}],
                 ui, alive)
      BY <1>0, <1>1, <1>2, <2>6, <3>1, <3>2, LinkServed
    <3> QED
      BY <2>4, <2>5, <3>3
  <2>8. LinkSet(store, "get", NoFile, st)
    BY <1>0, <1>2, <2>4, <2>6, LinkPut
  <2>9. st.modals = store.modals /\ st.link.url = NoFile
    BY <2>8 DEF LinkSet, SameModals
  <2>10. \A q \in cs["link"] : q.file = f
    <3>1. PutAt(calls, "link", {r}, cs)
      BY <1>0, <2>5, CallsPutAt, WatcherNames
    <3> QED
      BY <2>2, <3>1 DEF PutAt
  <2>11. OpsInv(FileOps!TOGGLE_MODAL(st, "link", f), cs, v, alive)
    BY <1>1, <1>2, <1>6, <2>7, <2>9, <2>10, ToggleServed
  <2> QED
    BY <1>5, <2>1, <2>3, <2>4, <2>5, <2>11 DEF OpsNow
<1>8. CASE calls["link"] # {}
  <2>1. ~FileOps!taken("link")
    BY <1>8 DEF FileOps!taken
  <2>2. calls' = calls
    BY <1>8 DEF FileOps!take
  <2>3. OpsInv(FileOps!TOGGLE_MODAL(store, "link", f), calls, v, alive)
    BY <1>0, <1>1, <1>2, <1>6, <2>1, ToggleServed
  <2> QED
    BY <1>5, <2>1, <2>2, <2>3 DEF OpsNow
<1> QED
  BY <1>7, <1>8

\* So does the toolbar.
LEMMA ToolbarServed ==
  ASSUME OpsNow, FileOps!DataFilesToolbar
  PROVE  OpsNow'
<1>0. /\ OpsInv(store, calls, ui, alive) /\ store.selected \subseteq Files
      /\ NoFile \in AnyFile
  BY DEF OpsNow, OpsInv, FileStores, AnyFile
<1> DEFINE can(name) == FileOps!getFilePermissions(name, store.selected,
                                                   FileOps!api, FileOps!scheme)
           f == FileOps!The(store.selected)
<1>1. (can("rename") \/ can("public") \/ can("download")) => f \in AnyFile
  <2>1. (can("rename") \/ can("public") \/ can("download"))
           => FileOps!Cardinality(store.selected) = 1
    BY DEF FileOps!getFilePermissions
  <2> QED
    BY <1>0, <2>1, OneFile
<1>2. FileOps!Idle
  BY DEF FileOps!DataFilesToolbar
<1> HIDE DEF f
<1>3. ASSUME NEW m \in FileOps!Modals, m # "link", NEW g \in AnyFile,
             FileOps!opens(m, g), calls' = calls
      PROVE  OpsNow'
  <2>1. OpsInv(store', calls, ui', alive) /\ alive' = alive
    BY <1>2, <1>3, OpensServed DEF FileOps!Idle
  <2> QED
    BY <1>3, <2>1 DEF OpsNow
<1>4. CASE \E m \in FileOps!Batch \ {"upload"} : FileOps!opens(m, NoFile) /\ UNCHANGED calls
  <2>1. PICK m \in FileOps!Batch : FileOps!opens(m, NoFile) /\ UNCHANGED calls
    BY <1>4
  <2>2. m \in FileOps!Modals /\ m # "link"
    BY DEF FileOps!Batch, FileOps!Modals
  <2> QED
    BY <1>0, <1>3, <2>1, <2>2
<1>5. CASE \E m \in FileOps!Job : FileOps!opens(m, NoFile) /\ UNCHANGED calls
  <2>1. PICK m \in FileOps!Job : FileOps!opens(m, NoFile) /\ UNCHANGED calls
    BY <1>5
  <2>2. m \in FileOps!Modals /\ m # "link"
    BY DEF FileOps!Job, FileOps!Modals
  <2> QED
    BY <1>0, <1>3, <2>1, <2>2
<1>6. CASE can("rename") /\ FileOps!opens("rename", f) /\ UNCHANGED calls
  <2>1. "rename" \in FileOps!Modals /\ f \in AnyFile
    BY <1>1, <1>6 DEF FileOps!Modals
  <2> QED
    BY <1>3, <1>6, <2>1
<1>7. CASE can("public") /\ FileOps!opens("makePublic", f) /\ UNCHANGED calls
  <2>1. "makePublic" \in FileOps!Modals /\ f \in AnyFile
    BY <1>1, <1>7 DEF FileOps!Modals
  <2> QED
    BY <1>3, <1>7, <2>1
<1>8. CASE calls' = FileOps!take(calls, "download", "sent")
      /\ UNCHANGED <<store, ui, alive>>
  <2>1. OpsInv(store, FileOps!take(calls, "download", "sent"), ui, alive)
    BY <1>0, ApartTaken
  <2> QED
    BY <1>8, <2>1 DEF OpsNow
<1>9. CASE FileOps!opens("downloadMessage", NoFile) /\ UNCHANGED calls
  <2>1. "downloadMessage" \in FileOps!Modals
    BY DEF FileOps!Modals
  <2> QED
    BY <1>0, <1>3, <1>9, <2>1
<1>10. CASE /\ can("download")
            /\ calls' = FileOps!take(calls, "link", [file |-> f, method |-> "get"])
            /\ store' = FileOps!TOGGLE_MODAL(
                     IF FileOps!taken("link") THEN FileOps!SET_LINK(store, "get", NoFile)
                     ELSE store, "link", f)
            /\ ui' = [FileOps!flipped(ui, "link") EXCEPT
                        !.forgotten = ~FileOps!taken("link")]
            /\ UNCHANGED alive
  <2>1. f \in AnyFile
    BY <1>1, <1>10
  <2> QED
    BY <1>2, <1>10, <2>1, LinkOpens
<1> HIDE DEF can
<1> QED
  BY <1>4, <1>5, <1>6, <1>7, <1>8, <1>9, <1>10
     DEF FileOps!DataFilesToolbar, can, f

\* So do the sidebar, the cells and the placeholder of the table.
LEMMA PlainPageServed ==
  ASSUME OpsNow,
         FileOps!DataFilesSidebar \/ FileOps!FileNavCell
         \/ FileOps!DataFilesTablePlaceholder
  PROVE  OpsNow'
<1>0. OpsInv(store, calls, ui, alive) /\ store \in FileStores /\ NoFile \in AnyFile
  BY DEF OpsNow, OpsInv, AnyFile
<1>1. CASE FileOps!DataFilesSidebar
  <2>1. PICK m \in {"mkdir", "upload"} : FileOps!opens(m, NoFile) /\ UNCHANGED calls
    BY <1>1 DEF FileOps!DataFilesSidebar, FileOps!Batch
  <2>2. m \in FileOps!Modals /\ m # "link"
    BY DEF FileOps!Modals, FileOps!Batch
  <2>3. OpsInv(store', calls, ui', alive) /\ alive' = alive
    BY <1>0, <2>1, <2>2, OpensServed
  <2> QED
    BY <2>1, <2>3 DEF OpsNow
<1>2. CASE FileOps!FileNavCell
  <2>1. PICK f \in store.listing, m \in {"preview", "showpath"} :
           FileOps!opens(m, f) /\ UNCHANGED calls
    BY <1>2 DEF FileOps!FileNavCell
  <2>2. m \in FileOps!Modals /\ m # "link" /\ f \in AnyFile
    BY <1>0 DEF FileOps!Modals, FileStores, AnyFile
  <2>i. m \notin ui.closing
    BY <1>2 DEF FileOps!FileNavCell, FileOps!Idle
  <2>3. OpsInv(store', calls, ui', alive) /\ alive' = alive
    BY <1>0, <2>1, <2>2, <2>i, OpensServed
  <2> QED
    BY <2>1, <2>3 DEF OpsNow
<1>3. CASE FileOps!DataFilesTablePlaceholder
  <2>1. /\ store' = FileOps!SYSTEMS_TOGGLE_MODAL(store, "listing")
        /\ ~store.keys.open /\ calls' = calls /\ ui' = ui /\ alive' = alive
    BY <1>3 DEF FileOps!DataFilesTablePlaceholder, FileOps!Idle
  <2>2. "listing" \in Askers
    BY DEF Askers
  <2>3. PICK k \in KeyModals :
           /\ FileOps!SYSTEMS_TOGGLE_MODAL(store, "listing") = [store EXCEPT !.keys = k]
           /\ k.open = ~store.keys.open /\ k.by = "listing"
    BY <1>0, <2>2, KeysToggled
  <2>4. ASSUME NEW o \in FileOps!Job
        PROVE  JobServed(o, store.status[o], calls[o], k, ui, alive)
    BY <1>0, <2>1 DEF OpsInv, JobServed
  <2>5. OpsInv([store EXCEPT !.keys = k], calls, ui, alive)
    BY <1>0, <2>4, KeysServed
  <2> QED
    BY <2>1, <2>3, <2>5 DEF OpsNow
<1> QED
  BY <1>1, <1>2, <1>3

\* A window is closed by the user.
LEMMA ToggleStep ==
  ASSUME OpsNow, FileOps!toggle
  PROVE  OpsNow'
<1>0. OpsInv(store, calls, ui, alive) /\ store \in FileStores /\ NoFile \in AnyFile
  BY DEF OpsNow, OpsInv, AnyFile
<1>1. PICK m \in store.modals :
        /\ store' = FileOps!TOGGLE_MODAL(store, m, NoFile)
        /\ ui' = FileOps!flipped(ui, m)
        /\ UNCHANGED <<calls, alive>>
  BY DEF FileOps!toggle
<1>2. m \in FileOps!Modals
  BY <1>0 DEF FileStores
<1>3. OpsInv(FileOps!TOGGLE_MODAL(store, m, NoFile), calls, FileOps!flipped(ui, m), alive)
  BY <1>0, <1>1, <1>2, FlipServed
<1> QED
  BY <1>1, <1>3 DEF OpsNow

\* The store when the animation of the modal m has ended.
LEMMA ClosedStore ==
  ASSUME OpsNow, NEW m, m \in ui.closing, NEW job, job \in FileOps!Job, NEW pushes,
         pushes \in BOOLEAN, pushes => m \in FileOps!Job \cup {"downloadMessage"},
         NEW st,
         st = CASE m \in FileOps!Batch ->
                     FileOps!SET_OPERATION_STATUS_BY_KEY(store, m, Files, "none")
                [] pushes -> FileOps!SET_OPERATION_STATUS(store, job, "none")
                [] m = "rename" -> FileOps!SET_OPERATION_STATUS(store, "rename", "none")
                [] m = "link" -> FileOps!SET_LINK(store, "none", NoFile)
                [] m = "preview" -> FileOps!SET_PREVIEW_CONTENT(store, TRUE, NoFile)
                [] OTHER -> store
  PROVE  OpsInv(st, calls, ui, alive)
<1>0. /\ OpsInv(store, calls, ui, alive) /\ store \in FileStores /\ ui \in FilePages
      /\ NoFile \in AnyFile /\ IsCalls(calls) /\ m \in FileOps!Modals
      /\ m \notin store.modals
  BY DEF OpsNow, OpsInv, AnyFile, FilePages
<1>s. "none" \in FileOps!Statuses /\ "none" # "RUNNING"
  BY DEF FileOps!Statuses
<1>m. SamePage(ui, ui)
  BY <1>0 DEF SamePage
<1>w. "link" \in FileOps!Watchers /\ "preview" \in FileOps!Watchers
  BY WatcherNames
<1>1. CASE m \in FileOps!Batch
  <2>0. ~pushes /\ m \notin {"rename", "link", "preview"}
    BY <1>1 DEF FileOps!Batch, FileOps!Job
  <2>1. st = FileOps!SET_OPERATION_STATUS_BY_KEY(store, m, Files, "none")
    BY <1>1, <2>0
  <2>2. BatchServed(store.byKey[m], calls[m], alive)
    BY <1>0, <1>1 DEF OpsInv
  <2>3. /\ AtMostOne(calls[m])
        /\ \A b \in calls[m] : b \in Batches /\ b.open \subseteq b.src
        /\ alive => \A f \in Files :
              (IF f \in Files THEN "none" ELSE store.byKey[m][f]) = "RUNNING"
                 => \E b \in calls[m] : f \in b.open
    BY <1>s, <2>2 DEF BatchServed
  <2>4. OpsInv(FileOps!SET_OPERATION_STATUS_BY_KEY(store, m, Files, "none"),
               [calls EXCEPT ![m] = calls[m]], ui, alive)
    BY <1>0, <1>1, <1>s, <2>3, FilesServed
  <2>5. [calls EXCEPT ![m] = calls[m]] = calls
    BY <1>0, <1>1, CallsStay, WatcherNames
  <2> QED
    BY <2>1, <2>4, <2>5
<1>2. CASE pushes
  <2>1. m \notin FileOps!Batch /\ m \notin {"rename", "link", "preview"}
    BY <1>2 DEF FileOps!Batch, FileOps!Job
  <2>2. st = FileOps!SET_OPERATION_STATUS(store, job, "none")
    BY <1>2, <2>1
  <2> QED
    BY <1>0, <1>s, <2>2, StatusServed
<1>3. CASE m = "rename"
  <2>1. m \notin FileOps!Batch /\ m \notin FileOps!Job \cup {"downloadMessage"}
    BY <1>3 DEF FileOps!Batch, FileOps!Job
  <2>2. st = FileOps!SET_OPERATION_STATUS(store, "rename", "none")
    BY <1>3, <2>1
  <2> QED
    BY <1>0, <1>s, <2>2, StatusServed
<1>4. CASE m = "link"
  <2>1. m \notin FileOps!Batch /\ m \notin FileOps!Job \cup {"downloadMessage"}
    BY <1>4 DEF FileOps!Batch, FileOps!Job
  <2>2. st = FileOps!SET_LINK(store, "none", NoFile)
    BY <1>4, <2>1
  <2>3. \A r \in calls["link"] : r.file \in AnyFile
    BY <1>0 DEF OpsInv, LinkFits
  <2>4. /\ "none" \in {"none", "get", "post", "put", "delete"}
        /\ (alive /\ NoFile = NoFile /\ "none" # "none" => calls["link"] # {})
        /\ "link" \notin store.modals
    BY <1>0, <1>4
  <2>5. OpsInv(FileOps!SET_LINK(store, "none", NoFile),
               [calls EXCEPT !["link"] = calls["link"]], ui, alive)
    BY ONLY <1>0, <1>m, <2>3, <2>4, LinkServed
  <2>6. [calls EXCEPT !["link"] = calls["link"]] = calls
    BY <1>0, <1>w, CallsStay
  <2> QED
    BY <2>2, <2>5, <2>6
<1>5. CASE m = "preview"
  <2>1. m \notin FileOps!Batch /\ m \notin FileOps!Job \cup {"downloadMessage"}
    BY <1>5 DEF FileOps!Batch, FileOps!Job
  <2>2. st = FileOps!SET_PREVIEW_CONTENT(store, TRUE, NoFile)
    BY <1>5, <2>1
  <2>3. calls["preview"] \subseteq AnyFile /\ TRUE \in BOOLEAN
        /\ "preview" \notin store.modals /\ ui.forgotten = ui.forgotten
        /\ EarlyTold(NoFile, "preview" \in store.modals, ui)
    BY <1>0, <1>5 DEF OpsInv, PreviewFits, EarlyTold
  <2>5. OpsInv(FileOps!SET_PREVIEW_CONTENT(store, TRUE, NoFile),
               [calls EXCEPT !["preview"] = calls["preview"]], ui, alive)
    BY ONLY <1>0, <1>m, <2>3, PreviewServed
  <2>6. [calls EXCEPT !["preview"] = calls["preview"]] = calls
    BY <1>0, <1>w, CallsStay
  <2> QED
    BY <2>2, <2>5, <2>6
<1>6. CASE ~(m \in FileOps!Batch \/ pushes \/ m \in {"rename", "link", "preview"})
  <2>1. st = store
    BY <1>6
  <2> QED
    BY <1>0, <2>1
<1> QED
  BY <1>1, <1>2, <1>3, <1>4, <1>5, <1>6

\* The preview is emptied when its window has closed.
LEMMA PreviewEmptied ==
  ASSUME NEW st \in FileStores
  PROVE  FileOps!SET_PREVIEW_CONTENT(st, TRUE, NoFile).preview.content = NoFile
  BY DEF FileOps!SET_PREVIEW_CONTENT, FileStores, PreviewStates

\* A window has closed: its component lets go of what it kept.
LEMMA ClosedStep ==
  ASSUME OpsNow, FileOps!onClosed
  PROVE  OpsNow'
<1>0. OpsInv(store, calls, ui, alive) /\ ui \in FilePages
      /\ ui.rejected \subseteq ui.uploaded
  BY DEF OpsNow, OpsInv
<1>1. PICK m \in ui.closing :
    LET closes == m \in FileOps!Batch \cup FileOps!Job \cup {"downloadMessage", "showpath"}
        job == IF m = "extract" THEN "extract" ELSE "compress"
        pushes == m \in FileOps!Job \cup {"downloadMessage"} /\ store.status[job] # "none"
        st == CASE m \in FileOps!Batch ->
                     FileOps!SET_OPERATION_STATUS_BY_KEY(store, m, Files, "none")
                [] pushes -> FileOps!SET_OPERATION_STATUS(store, job, "none")
                [] m = "rename" -> FileOps!SET_OPERATION_STATUS(store, "rename", "none")
                [] m = "link" -> FileOps!SET_LINK(store, "none", NoFile)
                [] m = "preview" -> FileOps!SET_PREVIEW_CONTENT(store, TRUE, NoFile)
                [] OTHER -> store
        u == [ui EXCEPT !.closing = @ \ {m}, !.disabled = @ \ {m},
                 !.early = @ /\ m # "preview",
                 !.frozen = IF m \in FileOps!Batch THEN [@ EXCEPT ![m] = {}] ELSE @,
                 !.uploaded = IF m = "upload" THEN {} ELSE @,
                 !.rejected = IF m = "upload" THEN {} ELSE @]
    IN  /\ FileOps!Up
        /\ ui' = u
        /\ IF closes /\ alive /\ \E op \in FileOps!Batch : calls[op] # {}
           THEN FileOps!rootSagaEnds /\ store' = st
           ELSE /\ store' = IF pushes THEN FileOps!reload(st) ELSE st
                /\ calls' = IF pushes THEN FileOps!reloading(calls) ELSE calls
                /\ UNCHANGED alive
  BY DEF FileOps!onClosed
<1>2. PICK job : job = IF m = "extract" THEN "extract" ELSE "compress"
  OBVIOUS
<1>3. PICK pushes : pushes = (m \in FileOps!Job \cup {"downloadMessage"}
                              /\ store.status[job] # "none")
  OBVIOUS
<1>4. PICK st :
        st = CASE m \in FileOps!Batch ->
                     FileOps!SET_OPERATION_STATUS_BY_KEY(store, m, Files, "none")
                [] pushes -> FileOps!SET_OPERATION_STATUS(store, job, "none")
                [] m = "rename" -> FileOps!SET_OPERATION_STATUS(store, "rename", "none")
                [] m = "link" -> FileOps!SET_LINK(store, "none", NoFile)
                [] m = "preview" -> FileOps!SET_PREVIEW_CONTENT(store, TRUE, NoFile)
                [] OTHER -> store
  OBVIOUS
<1>5. PICK closes : closes = (m \in FileOps!Batch \cup FileOps!Job
                                    \cup {"downloadMessage", "showpath"})
  OBVIOUS
<1> DEFINE z == IF m \in FileOps!Batch THEN [ui.frozen EXCEPT ![m] = {}] ELSE ui.frozen
<1> DEFINE e == ui.early /\ m # "preview"
<1>6. /\ ui' = [ui EXCEPT !.closing = @ \ {m}, !.disabled = @ \ {m}, !.early = e,
                 !.frozen = z,
                 !.uploaded = IF m = "upload" THEN {} ELSE @,
                 !.rejected = IF m = "upload" THEN {} ELSE @]
      /\ IF closes /\ alive /\ \E op \in FileOps!Batch : calls[op] # {}
         THEN FileOps!rootSagaEnds /\ store' = st
         ELSE /\ store' = IF pushes THEN FileOps!reload(st) ELSE st
              /\ calls' = IF pushes THEN FileOps!reloading(calls) ELSE calls
              /\ UNCHANGED alive
  BY <1>1, <1>2, <1>3, <1>4, <1>5
<1>7. OpsInv(st, calls, ui, alive)
  <2>1. job \in FileOps!Job /\ pushes \in BOOLEAN
        /\ (pushes => m \in FileOps!Job \cup {"downloadMessage"})
    BY <1>2, <1>3 DEF FileOps!Job
  <2> QED
    BY <2>1, <1>4, ClosedStore
<1>8. PICK u : u = ui'
  OBVIOUS
<1>9. /\ u \in FilePages /\ u.closing \subseteq ui.closing
         /\ u.rejected \subseteq u.uploaded
      /\ u.crossed = ui.crossed /\ u.up = ui.up /\ u.opened = ui.opened
      /\ u.forgotten = ui.forgotten /\ u.early = e /\ u.closing = ui.closing \ {m}
  <2>1. z \in Frozen /\ e \in BOOLEAN
    BY <1>0 DEF FilePages, Frozen
  <2> HIDE DEF z, e
  <2> QED
    BY <1>0, <1>6, <1>8, <2>1 DEF FilePages
<1>e. \/ st.preview.content = NoFile
      \/ u.early = ui.early /\ ("preview" \in ui.closing => "preview" \in u.closing)
  <2>1. CASE m = "preview"
    <3>1. st = FileOps!SET_PREVIEW_CONTENT(store, TRUE, NoFile)
      <4>1. m \notin FileOps!Batch /\ m \notin FileOps!Job \cup {"downloadMessage"}
        BY <2>1 DEF FileOps!Batch, FileOps!Job
      <4> QED
        BY <1>3, <1>4, <2>1, <4>1
    <3>2. store \in FileStores
      BY <1>0 DEF OpsInv
    <3>3. FileOps!SET_PREVIEW_CONTENT(store, TRUE, NoFile).preview.content = NoFile
      BY ONLY <3>2, PreviewEmptied
    <3> QED
      BY ONLY <3>1, <3>3
  <2>2. CASE m # "preview"
    <3>1. ui.early \in BOOLEAN
      BY <1>0 DEF FilePages
    <3> QED
      BY <1>9, <2>2, <3>1
  <2> QED
    BY <2>1, <2>2
<1> HIDE DEF e
<1>10. OpsInv(st, calls, u, alive)
  BY <1>7, <1>9, <1>e, PageApart
<1>11. OpsInv(st, FileOps!NoCalls, u, FALSE)
  BY <1>10, NoneServed
<1>12. OpsInv(FileOps!reload(st), FileOps!reloading(calls), u, alive)
  BY <1>10, Reloaded
<1>13. \/ store' = st /\ calls' = FileOps!NoCalls /\ alive' = FALSE
       \/ store' = st /\ calls' = calls /\ alive' = alive
       \/ store' = FileOps!reload(st) /\ calls' = FileOps!reloading(calls) /\ alive' = alive
  BY <1>6 DEF FileOps!rootSagaEnds
<1> QED
  BY <1>8, <1>10, <1>11, <1>12, <1>13 DEF OpsNow

\* A batch starts on the files src, unless another of its kind is under way.
LEMMA BatchStarted ==
  ASSUME OpsNow, NEW op \in FileOps!Batch, NEW src, src \subseteq Files,
         FileOps!startBatch(op, src)
  PROVE  OpsInv(store', calls', ui, alive) /\ alive' = alive
<1>0. OpsInv(store, calls, ui, alive)
  BY DEF OpsNow
<1>1. PICK b : b = [src |-> src, open |-> src, err |-> FALSE]
  OBVIOUS
<1>2. /\ calls' = FileOps!take(calls, op, b) /\ alive' = alive
      /\ store' = IF FileOps!taken(op)
                  THEN FileOps!SET_OPERATION_STATUS_BY_KEY(store, op, src, "RUNNING")
                  ELSE store
  BY <1>1 DEF FileOps!startBatch
<1>3. b \in Batches /\ b.open = src /\ b.src = src
  BY <1>1 DEF Batches
<1>4. CASE FileOps!taken(op)
  <2>1. calls[op] = {} /\ calls' = [calls EXCEPT ![op] = {b}]
    BY <1>2, <1>4 DEF FileOps!taken, FileOps!take
  <2>2. AtMostOne({b}) /\ (\A x \in {b} : x \in Batches /\ x.open \subseteq x.src)
        /\ "RUNNING" \in FileOps!Statuses
    BY <1>3 DEF AtMostOne, FileOps!Statuses
  <2>3. BatchServed(store.byKey[op], calls[op], alive)
    BY <1>0 DEF OpsInv
  <2>4. alive => \A f \in Files :
           (IF f \in src THEN "RUNNING" ELSE store.byKey[op][f]) = "RUNNING"
              => \E x \in {b} : f \in x.open
    BY <1>3, <2>1, <2>3 DEF BatchServed
  <2>5. OpsInv(FileOps!SET_OPERATION_STATUS_BY_KEY(store, op, src, "RUNNING"),
               [calls EXCEPT ![op] = {b}], ui, alive)
    BY <1>0, <2>2, <2>4, FilesServed
  <2> QED
    BY <1>2, <1>4, <2>1, <2>5
<1>5. CASE ~FileOps!taken(op)
  <2>1. calls' = calls
    BY <1>2, <1>5 DEF FileOps!taken, FileOps!take
  <2> QED
    BY <1>0, <1>2, <1>5, <2>1
<1> QED
  BY <1>4, <1>5

\* The button of a move, a copy or the like, for a batch of files.
LEMMA BatchPressed ==
  ASSUME OpsNow, NEW op \in FileOps!Batch, FileOps!BatchModal(op)
  PROVE  OpsNow'
<1>0. ui \in FilePages /\ ui.rejected \subseteq ui.uploaded
  BY DEF OpsNow, OpsInv
<1> DEFINE src == {f \in ui.frozen[op] : store.byKey[op][f] # "SUCCESS"}
<1>1. src \subseteq Files
  <2>1. ui.frozen[op] \subseteq Files
    BY <1>0 DEF FilePages, Frozen
  <2> QED
    BY <2>1
<1>2. /\ FileOps!startBatch(op, src)
      /\ ui' = [ui EXCEPT !.disabled = @ \cup {op}]
  BY DEF FileOps!BatchModal
<1> HIDE DEF src
<1>3. OpsInv(store', calls', ui, alive) /\ alive' = alive
  BY <1>1, <1>2, BatchStarted
<1>4. PICK u : u = ui'
  OBVIOUS
<1>5. /\ u \in FilePages /\ u.closing \subseteq ui.closing
         /\ u.rejected \subseteq u.uploaded
      /\ u.crossed = ui.crossed /\ u.up = ui.up /\ u.opened = ui.opened
      /\ u.forgotten = ui.forgotten /\ u.early = ui.early /\ u.closing = ui.closing
  BY <1>0, <1>2, <1>4 DEF FilePages
<1>6. PICK st, cs : st = store' /\ cs = calls'
  OBVIOUS
<1>7. OpsInv(st, cs, u, alive)
  BY <1>3, <1>5, <1>6, PageApart
<1> QED
  BY <1>3, <1>4, <1>6, <1>7 DEF OpsNow

\* The button of an upload.
LEMMA UploadPressed ==
  ASSUME OpsNow, FileOps!DataFilesUploadModal
  PROVE  OpsNow'
<1>0. OpsInv(store, calls, ui, alive) /\ ui \in FilePages
      /\ ui.rejected \subseteq ui.uploaded
  BY DEF OpsNow, OpsInv
<1>1. ASSUME store' = store, calls' = calls, alive' = alive, ui' \in FilePages,
             ui'.rejected \subseteq ui'.uploaded, ui'.closing = ui.closing,
             ui'.crossed = ui.crossed, ui'.up = ui.up, ui'.opened = ui.opened,
             ui'.forgotten = ui.forgotten, ui'.early = ui.early
      PROVE  OpsNow'
  <2>1. PICK u : u = ui'
    OBVIOUS
  <2>2. /\ u \in FilePages /\ u.closing = ui.closing /\ u.early = ui.early
        /\ u.closing \subseteq ui.closing
        /\ u.rejected \subseteq u.uploaded
        /\ u.crossed = ui.crossed /\ u.up = ui.up /\ u.opened = ui.opened
        /\ u.forgotten = ui.forgotten
    BY <1>1, <2>1
  <2>3. OpsInv(store, calls, u, alive)
    BY <1>0, <2>2, PageApart
  <2> QED
    BY <1>1, <2>1, <2>3 DEF OpsNow
<1>2. CASE /\ \E f \in Files \ ui.uploaded : \E big \in BOOLEAN :
                ui' = [ui EXCEPT !.uploaded = @ \cup {f},
                          !.rejected = IF big THEN @ \cup {f} ELSE @]
           /\ UNCHANGED <<store, calls, alive>>
  <2>1. PICK f \in Files, big \in BOOLEAN :
           ui' = [ui EXCEPT !.uploaded = @ \cup {f},
                     !.rejected = IF big THEN @ \cup {f} ELSE @]
    BY <1>2
  <2>2. /\ ui' \in FilePages /\ ui'.rejected \subseteq ui'.uploaded
        /\ ui'.closing = ui.closing /\ ui'.crossed = ui.crossed /\ ui'.up = ui.up
        /\ ui'.opened = ui.opened /\ ui'.forgotten = ui.forgotten
        /\ ui'.early = ui.early
    BY <1>0, <2>1 DEF FilePages
  <2> QED
    BY <1>1, <1>2, <2>2
<1>3. CASE /\ \E f \in ui.uploaded \ ui.rejected : ui' = [ui EXCEPT !.uploaded = @ \ {f}]
           /\ UNCHANGED <<store, calls, alive>>
  <2>1. PICK f \in ui.uploaded \ ui.rejected : ui' = [ui EXCEPT !.uploaded = @ \ {f}]
    BY <1>3
  <2>2. /\ ui' \in FilePages /\ ui'.rejected \subseteq ui'.uploaded
        /\ ui'.closing = ui.closing /\ ui'.crossed = ui.crossed /\ ui'.up = ui.up
        /\ ui'.opened = ui.opened /\ ui'.forgotten = ui.forgotten
        /\ ui'.early = ui.early
    BY <1>0, <2>1 DEF FilePages
  <2> QED
    BY <1>1, <1>3, <2>2
<1>4. CASE /\ FileOps!startBatch("upload",
                                 ui.uploaded \ (FileOps!Uploaded \cup ui.rejected))
           /\ UNCHANGED ui
  <2>1. PICK src : src = ui.uploaded \ (FileOps!Uploaded \cup ui.rejected)
    OBVIOUS
  <2>2. src \subseteq Files /\ "upload" \in FileOps!Batch
    BY <1>0, <2>1 DEF FilePages, FileOps!Batch
  <2>3. OpsInv(store', calls', ui, alive) /\ alive' = alive
    BY <1>4, <2>1, <2>2, BatchStarted
  <2> QED
    BY <1>4, <2>3 DEF OpsNow
<1> QED
  BY <1>2, <1>3, <1>4 DEF FileOps!DataFilesUploadModal

\* The button of a compression or an extraction.
LEMMA JobPressed ==
  ASSUME OpsNow, NEW m, NEW op \in FileOps!Job, FileOps!JobModal(m, op)
  PROVE  OpsNow'
<1>0. OpsInv(store, calls, ui, alive)
  BY DEF OpsNow
<1>1. /\ calls' = FileOps!take(calls, op, "app")
      /\ store' = store /\ ui' = ui /\ alive' = alive
  BY DEF FileOps!JobModal
<1>2. OpsInv(store, FileOps!take(calls, op, "app"), ui, alive)
  BY <1>0, JobTaken
<1> QED
  BY <1>1, <1>2 DEF OpsNow

\* The button of a new name.
LEMMA RenamePressed ==
  ASSUME OpsNow, FileOps!DataFilesRenameModal
  PROVE  OpsNow'
<1>0. OpsInv(store, calls, ui, alive) /\ store \in FileStores /\ IsCalls(calls)
  BY DEF OpsNow, OpsInv
<1>1. /\ calls' = FileOps!take(calls, "rename", "sent")
      /\ store' = FileOps!TOGGLE_MODAL(
                     IF FileOps!taken("rename")
                     THEN FileOps!SET_OPERATION_STATUS(store, "rename", "RUNNING")
                     ELSE store, "rename", NoFile)
      /\ ui' = FileOps!flipped(ui, "rename") /\ alive' = alive
  BY DEF FileOps!DataFilesRenameModal
<1>2. "rename" \in FileOps!Modals /\ "rename" # "link" /\ NoFile \in AnyFile
  BY DEF FileOps!Modals, AnyFile
<1>3. CASE FileOps!taken("rename")
  <2>1. PICK cs : cs = [calls EXCEPT !["rename"] = {"sent"}]
    OBVIOUS
  <2>2. calls' = cs
    BY <1>1, <1>3, <2>1 DEF FileOps!taken, FileOps!take
  <2>3. PutAt(calls, "rename", {"sent"}, cs)
    BY <1>0, <2>1, CallsPutAt, WatcherNames
  <2>4. /\ \A op \in FileOps!Batch \cup FileOps!Job : cs[op] = calls[op]
        /\ \A w \in {"link", "preview", "pushKeys"} : cs[w] = calls[w]
        /\ cs["rename"] = {"sent"}
    BY <2>3, WatcherNames DEF PutAt
  <2>5. RenameServed(store.status["rename"], cs["rename"], alive)
    BY <2>4 DEF RenameServed
  <2>6. OpsInv(store, cs, ui, alive)
    BY <1>0, <2>3, <2>4, <2>5 DEF OpsInv, PutAt
  <2>7. PICK st : st = FileOps!SET_OPERATION_STATUS(store, "rename", "RUNNING")
    OBVIOUS
  <2>8. "RUNNING" \in FileOps!Statuses
    BY DEF FileOps!Statuses
  <2>9. OpsInv(st, cs, ui, alive)
    BY <2>4, <2>6, <2>7, <2>8, StatusServed
  <2>10. st.modals = store.modals
    BY <1>0, <2>7, <2>8, StatusPut DEF SameModals
  <2>11. OpsInv(FileOps!TOGGLE_MODAL(st, "rename", NoFile), cs,
                FileOps!flipped(ui, "rename"), alive)
    BY <1>0, <1>2, <2>9, <2>10, FlipServed
  <2> QED
    BY <1>1, <1>3, <2>2, <2>7, <2>11 DEF OpsNow
<1>4. CASE ~FileOps!taken("rename")
  <2>1. calls' = calls
    BY <1>1, <1>4 DEF FileOps!taken, FileOps!take
  <2>2. OpsInv(FileOps!TOGGLE_MODAL(store, "rename", NoFile), calls,
               FileOps!flipped(ui, "rename"), alive)
    BY <1>0, <1>2, FlipServed
  <2> QED
    BY <1>1, <1>4, <2>1, <2>2 DEF OpsNow
<1> QED
  BY <1>3, <1>4

\* The button that makes files public.
LEMMA PublicPressed ==
  ASSUME OpsNow, FileOps!DataFilesMakePublicModal
  PROVE  OpsNow'
<1>1. FileOps!opens("makePublic", NoFile)
      /\ calls' = FileOps!take(calls, "makePublic", "sent")
  BY DEF FileOps!DataFilesMakePublicModal
<1>2. "makePublic" \in FileOps!Modals /\ NoFile \in AnyFile
  BY DEF FileOps!Modals, AnyFile
<1>3. OpsInv(store', calls, ui', alive) /\ alive' = alive
  BY <1>1, <1>2, OpensServed
<1>4. PICK st, u : st = store' /\ u = ui'
  OBVIOUS
<1>5. OpsInv(st, FileOps!take(calls, "makePublic", "sent"), u, alive)
  BY <1>3, <1>4, ApartTaken
<1> QED
  BY <1>1, <1>3, <1>4, <1>5 DEF OpsNow

\* The button of a new folder.
LEMMA MkdirPressed ==
  ASSUME OpsNow, FileOps!DataFilesMkdirModal
  PROVE  OpsNow'
<1>1. OpsInv(store, FileOps!take(calls, "mkdir", "sent"), ui, alive)
  BY ApartTaken DEF OpsNow
<1> QED
  BY <1>1 DEF OpsNow, FileOps!DataFilesMkdirModal

\* The buttons of a link.
LEMMA LinkPressed ==
  ASSUME OpsNow, FileOps!DataFilesLinkModal
  PROVE  OpsNow'
<1>0. /\ OpsInv(store, calls, ui, alive) /\ store \in FileStores /\ ui \in FilePages
      /\ NoFile \in AnyFile
  BY DEF OpsNow, OpsInv, AnyFile
<1>1. PICK method \in {"post", "put", "delete"} :
        /\ FileOps!Shown("link")
        /\ calls' = FileOps!take(calls, "link",
                       [file |-> store.props["link"], method |-> method])
        /\ store' = IF FileOps!taken("link")
                    THEN FileOps!SET_LINK(store, method, NoFile) ELSE store
        /\ ui' = [ui EXCEPT !.forgotten = ~FileOps!taken("link")]
        /\ alive' = alive
  BY DEF FileOps!DataFilesLinkModal
<1>2. PICK p : p = store.props["link"]
  OBVIOUS
<1>3. p \in AnyFile
  BY <1>0, <1>2 DEF FileStores, NamedFiles, FileOps!Named
<1>4. PICK r : r = [file |-> p, method |-> method]
  OBVIOUS
<1>5. PICK v : v = ui'
  OBVIOUS
<1>6. /\ SamePage(ui, v) /\ v.opened = ui.opened /\ v.early = ui.early
      /\ v.forgotten = ~FileOps!taken("link")
  BY <1>0, <1>1, <1>5 DEF FilePages, SamePage, FileOps!taken
<1>7. CASE FileOps!taken("link")
  <2>1. calls' = [calls EXCEPT !["link"] = {r}]
    BY <1>1, <1>2, <1>4, <1>7 DEF FileOps!take, FileOps!taken
  <2>2. /\ (alive /\ NoFile = NoFile /\ method # "none" => {r} # {})
        /\ \A q \in {r} : q.file \in AnyFile
        /\ "link" \in store.modals /\ ~v.forgotten =>
              /\ NoFile # NoFile => NoFile = store.props["link"]
              /\ \A q \in {r} : q.file = store.props["link"]
        /\ method \in {"none", "get", "post", "put", "delete"}
    BY <1>2, <1>3, <1>4
  <2>3. OpsInv(FileOps!SET_LINK(store, method, NoFile), [calls EXCEPT !["link"] = {r}],
               v, alive)
    BY ONLY <1>0, <1>6, <2>2, LinkServed
  <2> QED
    BY <1>1, <1>5, <1>7, <2>1, <2>3 DEF OpsNow
<1>8. CASE ~FileOps!taken("link")
  <2>1. calls' = calls /\ store' = store
    BY <1>1, <1>8 DEF FileOps!take, FileOps!taken
  <2>2. v.forgotten
    BY <1>6, <1>8
  <2>3. OpsInv(store, calls, v, alive)
    BY <1>0, <1>6, <2>2, LinkForgotten
  <2> QED
    BY <1>1, <1>5, <2>1, <2>3 DEF OpsNow
<1> QED
  BY <1>7, <1>8

\* The window of a preview asks for it.
LEMMA PreviewPressed ==
  ASSUME OpsNow, FileOps!DataFilesPreviewModal
  PROVE  OpsNow'
<1>0. /\ OpsInv(store, calls, ui, alive) /\ store \in FileStores /\ ui \in FilePages
      /\ NoFile \in AnyFile
  BY DEF OpsNow, OpsInv, AnyFile
<1>1. PICK f : f = store.props["preview"]
  OBVIOUS
<1>2. f \in AnyFile
  BY <1>0, <1>1 DEF FileStores, NamedFiles, FileOps!Named
<1>3. /\ ui' = [ui EXCEPT !.opened = TRUE, !.early = FALSE] /\ alive' = alive
      /\ calls' = [calls EXCEPT !["preview"] = {f}]
      /\ store' = FileOps!SET_PREVIEW_CONTENT(store, TRUE, NoFile)
  BY <1>1 DEF FileOps!DataFilesPreviewModal, FileOps!Shown, FileOps!Up
<1>4. PICK v : v = ui'
  OBVIOUS
<1>5. SamePage(ui, v) /\ v.forgotten = ui.forgotten
  BY <1>0, <1>3, <1>4 DEF FilePages, SamePage
<1>6. /\ {f} \subseteq AnyFile /\ TRUE \in BOOLEAN
      /\ "preview" \in store.modals /\ v.opened =>
            /\ alive /\ TRUE => {f} # {}
            /\ NoFile # NoFile => NoFile = store.props["preview"]
            /\ \A g \in {f} : g = store.props["preview"]
      /\ EarlyTold(NoFile, "preview" \in store.modals, v)
  BY <1>1, <1>2 DEF EarlyTold
<1>7. OpsInv(FileOps!SET_PREVIEW_CONTENT(store, TRUE, NoFile),
             [calls EXCEPT !["preview"] = {f}], v, alive)
  BY ONLY <1>0, <1>5, <1>6, PreviewServed
<1> QED
  BY <1>3, <1>4, <1>7 DEF OpsNow

\* The button that pushes keys, and takes the operation up that waits for them.
LEMMA KeysPressed ==
  ASSUME OpsNow, FileOps!SystemsPushKeysModal
  PROVE  OpsNow'
<1>0. /\ OpsInv(store, calls, ui, alive) /\ store \in FileStores
      /\ store.keys.by \in Askers
  BY DEF OpsNow, OpsInv, FileStores, KeyModals
<1>1. ui' = ui /\ alive' = alive /\ store.keys.open
  BY DEF FileOps!SystemsPushKeysModal
<1>2. CASE /\ calls' = FileOps!take(calls, "pushKeys", store.keys.by)
           /\ store' = IF FileOps!taken("pushKeys")
                       THEN FileOps!SYSTEMS_MODAL_UPDATE(store, TRUE) ELSE store
  <2>1. CASE FileOps!taken("pushKeys")
    <3>1. PICK cs : cs = [calls EXCEPT !["pushKeys"] = {store.keys.by}]
      OBVIOUS
    <3>2. calls' = cs
      BY <1>2, <2>1, <3>1 DEF FileOps!take, FileOps!taken
    <3>3. {store.keys.by} \subseteq Askers
      BY <1>0
    <3>4. OpsInv(store, cs, ui, alive)
      BY <1>0, <3>1, <3>3, CallsOfKeys
    <3>5. PICK q \in KeyModals :
             /\ FileOps!SYSTEMS_MODAL_UPDATE(store, TRUE) = [store EXCEPT !.keys = q]
             /\ q.open = store.keys.open /\ q.by = store.keys.by
      BY <1>0, KeysUpdated
    <3>6. ASSUME NEW o \in FileOps!Job
          PROVE  JobServed(o, store.status[o], cs[o], q, ui, alive)
      BY <3>4, <3>5 DEF OpsInv, JobServed
    <3>7. OpsInv([store EXCEPT !.keys = q], cs, ui, alive)
      BY <3>4, <3>6, KeysServed
    <3> QED
      BY <1>1, <1>2, <2>1, <3>2, <3>5, <3>7 DEF OpsNow
  <2>2. CASE ~FileOps!taken("pushKeys")
    <3>1. calls' = calls /\ store' = store
      BY <1>2, <2>2 DEF FileOps!take, FileOps!taken
    <3> QED
      BY <1>0, <1>1, <3>1 DEF OpsNow
  <2> QED
    BY <2>1, <2>2
<1>3. CASE /\ store' = IF store.keys.by \in FileOps!Job
                       THEN FileOps!SET_OPERATION_STATUS(
                              FileOps!SYSTEMS_TOGGLE_MODAL(store, "none"),
                              store.keys.by, "ERROR")
                       ELSE FileOps!SYSTEMS_TOGGLE_MODAL(store, "none")
           /\ UNCHANGED calls
  <2>1. PICK k \in KeyModals :
           /\ FileOps!SYSTEMS_TOGGLE_MODAL(store, "none") = [store EXCEPT !.keys = k]
           /\ k.open = ~store.keys.open /\ k.by = "none"
    <3>1. "none" \in Askers
      BY DEF Askers
    <3> QED
      BY <1>0, <3>1, KeysToggled
  <2>2. CASE store.keys.by \notin FileOps!Job
    <3>1. ASSUME NEW o \in FileOps!Job
          PROVE  JobServed(o, store.status[o], calls[o], k, ui, alive)
      BY <1>0, <2>2 DEF OpsInv, JobServed
    <3>2. OpsInv([store EXCEPT !.keys = k], calls, ui, alive)
      BY <1>0, <3>1, KeysServed
    <3> QED
      BY <1>1, <1>3, <2>1, <2>2, <3>2 DEF OpsNow
  <2>3. CASE store.keys.by \in FileOps!Job
    <3>1. PICK op \in FileOps!Job : op = store.keys.by
      BY <2>3
    <3>2. PICK st : st = FileOps!SET_OPERATION_STATUS(store, op, "ERROR")
      OBVIOUS
    <3>3. "ERROR" \in FileOps!Statuses /\ "ERROR" # "RUNNING"
      BY DEF FileOps!Statuses
    <3>4. OpsInv(st, calls, ui, alive)
      BY <1>0, <3>2, <3>3, StatusServed
    <3>5. /\ st.status[op] = "ERROR" /\ st.keys = store.keys
          /\ \A o \in FileOps!Job : o # op => st.status[o] = store.status[o]
      BY <1>0, <3>2, <3>3, StatusPut
    <3>6. ASSUME NEW o \in FileOps!Job
          PROVE  JobServed(o, st.status[o], calls[o], k, ui, alive)
      <4>1. JobServed(o, st.status[o], calls[o], st.keys, ui, alive)
        BY <3>4 DEF OpsInv
      <4> QED
        BY <3>1, <3>3, <3>5, <4>1 DEF JobServed
    <3>7. OpsInv([st EXCEPT !.keys = k], calls, ui, alive)
      BY <3>4, <3>6, KeysServed
    <3>8. FileOps!SET_OPERATION_STATUS([store EXCEPT !.keys = k], op, "ERROR")
             = [st EXCEPT !.keys = k]
      BY <1>0, <3>2 DEF FileOps!SET_OPERATION_STATUS, FileStores
    <3> QED
      BY <1>1, <1>3, <2>1, <2>3, <3>1, <3>7, <3>8 DEF OpsNow
  <2> QED
    BY <2>2, <2>3
<1> QED
  BY <1>2, <1>3 DEF FileOps!SystemsPushKeysModal

\* Every window, saga and answer keeps the invariant.
LEMMA OpsStep ==
  ASSUME OpsNow, [FileOps!Next]_<<store, calls, ui, alive>>
  PROVE  OpsNow'
<1>1. CASE FileOps!Page
  BY <1>1, SelectServed, ToolbarServed, PlainPageServed DEF FileOps!Page
<1>2. CASE FileOps!ModalSteps
  <2>1. {"move", "copy", "trash"} \subseteq FileOps!Batch
        /\ {"compress", "extract"} \subseteq FileOps!Job
    BY DEF FileOps!Batch, FileOps!Job
  <2>2. CASE FileOps!DataFilesMoveModal \/ FileOps!DataFilesCopyModal
             \/ FileOps!DataFilesTrashModal
    BY <2>1, <2>2, BatchPressed DEF FileOps!DataFilesMoveModal,
          FileOps!DataFilesCopyModal, FileOps!DataFilesTrashModal
  <2>3. CASE FileOps!DataFilesCompressModal \/ FileOps!DataFilesExtractModal
             \/ FileOps!DataFilesDownloadMessageModal
    BY <2>1, <2>3, JobPressed DEF FileOps!DataFilesCompressModal,
          FileOps!DataFilesExtractModal, FileOps!DataFilesDownloadMessageModal
  <2> QED
    BY <1>2, <2>2, <2>3, ToggleStep, ClosedStep, UploadPressed, RenamePressed,
       PublicPressed, MkdirPressed, LinkPressed, PreviewPressed, KeysPressed
       DEF FileOps!ModalSteps
<1>3. CASE FileOps!Answers
  <2>1. {"move", "copy", "trash", "upload"} \subseteq FileOps!Batch
        /\ {"compress", "extract"} \subseteq FileOps!Job
    BY DEF FileOps!Batch, FileOps!Job
  <2>2. CASE FileOps!moveFiles \/ FileOps!copyFiles \/ FileOps!trashFiles
             \/ FileOps!uploadFiles
    BY <2>1, <2>2, BatchAnswered DEF FileOps!moveFiles, FileOps!copyFiles,
          FileOps!trashFiles, FileOps!uploadFiles
  <2>3. CASE FileOps!extractFiles \/ FileOps!compressFiles
    BY <2>1, <2>3, JobAnswered DEF FileOps!extractFiles, FileOps!compressFiles
  <2>4. CASE FileOps!doMakePublic \/ FileOps!download
    BY <2>4, UnguardedAnswered DEF FileOps!doMakePublic, FileOps!download
  <2> QED
    BY <1>3, <2>2, <2>3, <2>4, KeysAnswered, RenameAnswered, LinkAnswered,
       PreviewAnswered, MkdirAnswered, ListingAnswered DEF FileOps!Answers
<1>4. CASE UNCHANGED <<store, calls, ui, alive>>
  BY <1>4 DEF OpsNow
<1> QED
  BY <1>1, <1>2, <1>3, <1>4 DEF FileOps!Next

\* What it says of types, windows and spinners.
LEMMA OpsHold ==
  ASSUME OpsNow
  PROVE  FileOps!TypeOK /\ FileOps!WindowIsOfFile /\ FileOps!SpinnerIsServed
<1>0. OpsInv(store, calls, ui, alive)
  BY DEF OpsNow
<1>1. FileOps!TypeOK
  <2>1. store \in FileStores /\ ui \in FilePages /\ alive \in BOOLEAN
        /\ store.selected \subseteq store.listing /\ ui.rejected \subseteq ui.uploaded
    BY <1>0 DEF OpsInv
  <2>2. \A op \in FileOps!Batch : \A b \in calls[op] : b.open \subseteq b.src
    BY <1>0 DEF OpsInv, BatchServed
  <2>3. /\ store.props \in [FileOps!Named -> Files \cup {NoFile}]
        /\ store.byKey \in [FileOps!Batch -> [Files -> FileOps!Statuses]]
        /\ store.status \in [FileOps!Job \cup {"rename"} -> FileOps!Statuses]
    BY <2>1 DEF FileStores, NamedFiles, AnyFile, BatchStatuses, FileStatuses, JobStatuses
  <2>4. /\ store.listing \subseteq Files /\ store.modals \subseteq FileOps!Modals
        /\ ui.closing \subseteq FileOps!Modals /\ ui.disabled \subseteq FileOps!Batch
        /\ ui.up \in BOOLEAN
    BY <2>1 DEF FileStores, FilePages
  <2> QED
    BY <2>1, <2>2, <2>3, <2>4 DEF FileOps!TypeOK
<1>2. FileOps!WindowIsOfFile
  <2>1. FileOps!Shown("preview") => "preview" \in store.modals
    BY DEF FileOps!Shown
  <2>2. "preview" \in store.modals => "preview" \notin ui.closing
    BY <1>0 DEF OpsInv
  <2>3. "preview" \in store.modals /\ store.preview.content # NoFile
          => \/ store.preview.content = store.props["preview"]
             \/ ui.early /\ ~ui.opened
    BY <1>0, <2>2 DEF OpsInv, PreviewFits, EarlyTold
  <2> QED
    BY <1>0, <2>1, <2>3 DEF OpsInv, LinkFits, FileOps!WindowIsOfFile, FileOps!Shown
<1>3. FileOps!SpinnerIsServed
  BY <1>0 DEF OpsInv, BatchServed, JobServed, RenameServed, LinkFits, PreviewFits,
              FileOps!SpinnerIsServed, FileOps!Shown
<1> QED
  BY <1>1, <1>2, <1>3
-----------------------------------------------------------------------------
(* The run times the form accepts.                                         *)

\* The places of a time are digits.
LEMMA TimePlaces ==
    ASSUME NEW t \in Form!Time
    PROVE  Len(t) = 6 /\ \A i \in Form!Place : t[i] \in Int /\ t[i] >= 0
<1>1. Len(t) = 6 /\ t \in Seq(Form!Digit)
  BY DEF Form!Time
<1>2. ASSUME NEW i \in Form!Place PROVE t[i] \in Form!Digit
  <2>1. i \in 1..Len(t)
    BY <1>1 DEF Form!Place
  <2> QED
    BY <1>1, <2>1, ElementOfSeq
<1>3. \A d \in Form!Digit : d \in Int /\ d >= 0
  BY DEF Form!Digit
<1> QED
  BY <1>1, <1>2, <1>3

\* The last six digits of an entry are a time, and a time is its last six.
LEMMA LastAreSix ==
    ASSUME NEW t \in Seq(Form!Digit), Len(t) >= 6
    PROVE  Form!LastSix(t) \in Form!Time /\ (Len(t) = 6 => Form!LastSix(t) = t)
<1>1. /\ Len(t) \in Nat /\ Len(t) - 5 \in 1..Len(t) /\ Len(t) \in 1..Len(t)
      /\ Len(t) - (Len(t) - 5) + 1 = 6
  OBVIOUS
<1>2. Form!LastSix(t) \in Seq(Form!Digit) /\ Len(Form!LastSix(t)) = 6
  BY <1>1, SubSeqProperties DEF Form!LastSix
<1>3. SubSeq(t, 1, Len(t)) = t
  BY SubSeqFull
<1>4. Len(t) = 6 => Len(t) - 5 = 1
  OBVIOUS
<1> QED
  BY <1>2, <1>3, <1>4 DEF Form!LastSix, Form!Time

\* Of a queue that allows any time at all, no entry is accepted whose last six
\* digits exceed the maximum: for an entry in the form HH:MM:SS, none that
\* exceeds it (Form!createMaxRunTimeRegex, the validation of maxRunTime).
THEOREM AcceptedFits ==
    ASSUME NEW max \in Form!Time, \E i \in Form!Place : max[i] # 0,
           NEW t \in Seq(Form!Digit), Form!createMaxRunTimeRegex(max, t)
    PROVE  Len(t) >= 6 /\ Form!Fits(Form!LastSix(t), max)
<1>1. /\ Len(t) >= 6
      /\ \/ Form!Within(Form!LastSix(t), max)
         \/ Len(t) = 6 /\ \E i \in Form!Place : Form!Within(t, Form!Below(max, i))
  <2>1. Len(t) = 6 => Len(t) >= 6
    OBVIOUS
  <2>2. \/ Len(t) >= 6 /\ Form!Within(Form!LastSix(t), max)
        \/ /\ Len(t) = 6
           /\ \E i \in Form!Place : Form!Within(t, Form!Below(max, i))
    BY Zenon DEF Form!createMaxRunTimeRegex
  <2> QED
    BY <2>1, <2>2, Zenon
<1> DEFINE u == Form!LastSix(t)
<1>2. u \in Form!Time /\ (Len(t) = 6 => u = t)
  BY <1>1, LastAreSix
<1>3. Form!Within(u, max) \/ \E i \in Form!Place : Form!Within(u, Form!Below(max, i))
  BY <1>1, <1>2
<1> HIDE DEF u
<1>4. \A i \in Form!Place : u[i] \in Int /\ max[i] \in Int
  BY <1>2, TimePlaces
<1>5. CASE Form!Within(u, max)
  BY <1>1, <1>5 DEF Form!Within, Form!Fits, u
<1>6. CASE \E i \in Form!Place : Form!Within(u, Form!Below(max, i))
  <2>1. PICK i \in Form!Place : Form!Within(u, Form!Below(max, i))
    BY <1>6
  <2>2. u[i] < max[i] /\ \A j \in Form!Place : j < i => u[j] <= max[j]
    <3>1. \A j \in Form!Place : u[j] <= Form!Below(max, i)[j]
      BY <2>1 DEF Form!Within
    <3>2. \A j \in Form!Place : j < i => Form!Below(max, i)[j] = max[j]
      BY DEF Form!Below
    <3>3. Form!Below(max, i)[i] = max[i] - 1
      BY DEF Form!Below, Form!Place
    <3> QED
      BY <3>1, <3>2, <3>3, <1>4
  <2>3. ASSUME NEW k \in Form!Place, \A j \in 1..(k - 1) : u[j] = max[j]
        PROVE  u[k] <= max[k]
    <3>1. ~(i < k)
      <4>1. ASSUME i < k PROVE u[i] = max[i]
        BY <4>1, <2>3 DEF Form!Place
      <4> QED
        BY <4>1, <2>2, <1>4
    <3>2. k < i => u[k] <= max[k]
      BY <2>2
    <3>3. k = i => u[k] <= max[k]
      BY <2>2, <1>4
    <3> QED
      BY <3>1, <3>2, <3>3 DEF Form!Place
  <2>4. Form!Fits(u, max)
    BY <2>3 DEF Form!Fits
  <2> QED
    BY <1>1, <2>4 DEF u
<1> QED
  BY <1>3, <1>5, <1>6

\* Every legal time is accepted: minutes and seconds are below sixty, and the
\* time does not exceed the maximum.
THEOREM FittingAccepted ==
    ASSUME NEW max \in Form!Time, NEW t \in Form!Time, Form!Fits(t, max),
           \A i \in Form!Place \ {1} : t[i] <= Form!regBase[i]
    PROVE  Form!createMaxRunTimeRegex(max, t)
<1>0. /\ \A i \in Form!Place : t[i] \in Int /\ max[i] \in Int
      /\ Form!LastSix(t) = t
      /\ Len(t) = 6 /\ Len(max) = 6 /\ Len(t) >= 6
  <2>1. t \in Seq(Form!Digit) /\ Len(t) = 6 /\ Len(max) = 6
    BY DEF Form!Time
  <2>2. Len(t) >= 6 /\ Form!LastSix(t) = t
    <3>1. Len(t) >= 6
      BY <2>1
    <3> QED
      BY <2>1, <3>1, LastAreSix
  <2>3. \A i \in Form!Place : t[i] \in Int
    BY TimePlaces
  <2>4. \A i \in Form!Place : max[i] \in Int
    BY TimePlaces
  <2> QED
    BY <2>1, <2>2, <2>3, <2>4
<1>a. \A i \in Form!Place : t[i] >= 0
  BY TimePlaces
<1>1. CASE Form!Within(t, max)
  BY <1>0, <1>1 DEF Form!createMaxRunTimeRegex
<1>2. CASE ~Form!Within(t, max)
  <2>1. PICK k \in Form!Place : max[k] < t[k]
    BY <1>2, <1>0 DEF Form!Within
  <2>2. \E i \in Form!Place : /\ i < k /\ t[i] # max[i]
                         /\ \A j \in Form!Place : j < i => t[j] = max[j]
    <3>1. \E i \in Form!Place : i < k /\ t[i] # max[i]
      BY <2>1, <1>0 DEF Form!Fits, Form!Place
    <3>2. ASSUME \A i \in Form!Place : i < k =>
                    (t[i] = max[i] \/ \E j \in Form!Place : j < i /\ t[j] # max[j])
          PROVE  \A i \in Form!Place : i < k => t[i] = max[i]
      <4>1. 1 < k => t[1] = max[1]
        BY <3>2 DEF Form!Place
      <4>2. 2 < k => t[2] = max[2]
        BY <3>2, <4>1 DEF Form!Place
      <4>3. 3 < k => t[3] = max[3]
        BY <3>2, <4>1, <4>2 DEF Form!Place
      <4>4. 4 < k => t[4] = max[4]
        BY <3>2, <4>1, <4>2, <4>3 DEF Form!Place
      <4>5. 5 < k => t[5] = max[5]
        BY <3>2, <4>1, <4>2, <4>3, <4>4 DEF Form!Place
      <4> QED
        BY <4>1, <4>2, <4>3, <4>4, <4>5 DEF Form!Place
    <3> QED
      BY <3>1, <3>2
  <2>3. PICK i \in Form!Place : /\ i < k /\ t[i] # max[i]
                           /\ \A j \in Form!Place : j < i => t[j] = max[j]
    BY <2>2
  <2>4. t[i] < max[i]
    BY <2>3, <1>0 DEF Form!Fits, Form!Place
  <2>5. Form!Within(t, Form!Below(max, i))
    <3>1. SUFFICES ASSUME NEW j \in Form!Place PROVE t[j] <= Form!Below(max, i)[j]
      BY DEF Form!Within
    <3>2. CASE j < i
      BY <3>2, <2>3, <1>0 DEF Form!Below
    <3>3. CASE j = i
      BY <3>3, <2>4, <1>0 DEF Form!Below, Form!Place
    <3>4. CASE j > i
      <4>1. Form!Below(max, i)[j] = Form!regBase[j] /\ j # 1
        BY <3>4 DEF Form!Below, Form!Place
      <4> QED
        BY <4>1
    <3> QED
      BY <3>2, <3>3, <3>4 DEF Form!Place
  <2>6. max[i] > 0 /\ i < Len(max)
    BY <2>3, <2>4, <1>0, <1>a DEF Form!Place
  <2> QED
    BY <2>5, <2>6, <1>0 DEF Form!createMaxRunTimeRegex
<1> QED
  BY <1>1, <1>2
-----------------------------------------------------------------------------
(* The application form.                                                   *)

SomeJob == UNION {Form!Jobs(a) : a \in Apps}

FormStore ==
  [apps : [loading : BOOLEAN, tray : BOOLEAN, error : BOOLEAN],
   app : [definition : Apps \cup {NoApp}, loading : BOOLEAN, error : BOOLEAN,
          systemHasKeys : BOOLEAN],
   allocations : [loading : BOOLEAN, hosts : BOOLEAN],
   submit : [submitting : BOOLEAN,
             response : [kind : {"none", "success", "error"}, app : Apps \cup {NoApp}]],
   keys : [open : BOOLEAN, by : SomeJob \cup {Form!NoJob}, submitting : BOOLEAN]]

FormUi ==
  [route : Apps \cup {NoApp}, isSubmitting : BOOLEAN, left : BOOLEAN,
   outlived : BOOLEAN, up : BOOLEAN]

FormCalls ==
  /\ calls = [w \in Form!Watchers |-> calls[w]]
  /\ \A w \in Form!Watchers : AtMostOne(calls[w])
  /\ calls["GET_APP"] \subseteq Apps
  /\ calls["SUBMIT_JOB"] \subseteq SomeJob
  /\ calls["pushKeys"] \subseteq SomeJob \cup {Form!NoJob}

FormTypes ==
  /\ store \in FormStore
  /\ FormCalls
  /\ ui \in FormUi
  /\ ui.isSubmitting => Form!FormShown(store, ui.route)

(* No application is on the route before the tray has come, and the tray   *)
(* comes once.  A call for an application is for the one on the route, and *)
(* while it is open there is no form, unless a page of text came between.  *)
RouteAsked ==
  /\ ~store.apps.tray => ui.route = NoApp
  /\ calls["GET_APPS"] # {} => ~store.apps.tray
  /\ calls["pushKeys"] # {} => ui.route # NoApp
  /\ calls["GET_APP"] # {} => store.app.loading \/ store.app.definition \in Html
  /\ \A a \in calls["GET_APP"] : a = ui.route \/ ui.outlived
  /\ (~store.app.loading /\ ~store.app.error)
        => store.app.definition = ui.route \/ ui.outlived

(* A submission that was not left alone has its form, its spinner and no   *)
(* answer yet; an application that is asked for starts without an answer.  *)
Attended ==
  /\ (calls["SUBMIT_JOB"] # {} /\ ~ui.left) =>
        /\ ui.isSubmitting /\ store.submit.submitting
        /\ store.submit.response = Form!NoAnswer
        /\ \A job \in calls["SUBMIT_JOB"] : job.app = store.app.definition
  /\ calls["GET_APP"] # {} => store.submit.response = Form!NoAnswer \/ ui.left

(* Without the allocations there is no form, and nothing was submitted.    *)
Awaiting ==
  /\ calls["GET_ALLOCATIONS"] # {} => store.allocations.loading
  /\ store.allocations.loading =>
       /\ ~store.submit.submitting /\ store.submit.response = Form!NoAnswer
       /\ calls["SUBMIT_JOB"] = {} /\ calls["pushKeys"] = {}

FormInv ==
  /\ FormTypes /\ RouteAsked /\ Attended /\ Awaiting
  /\ Form!SpinnerIsServed /\ Form!FormIsOfRoute

(* When the form is shown.                                                 *)
LEMMA FormVisible ==
  ASSUME NEW st \in FormStore, NEW r
  PROVE  Form!FormShown(st, r) <=>
           /\ r # NoApp /\ st.apps.tray /\ ~st.apps.error
           /\ ~st.app.error /\ ~st.app.loading /\ ~st.allocations.loading
           /\ st.app.definition # NoApp /\ st.app.definition \notin Html
BY DEF FormStore, Form!FormShown, Form!AppsLayout, Form!AppDetail

(* What the reducers of the tray and of the application make of a state.   *)
LEMMA AppReducers ==
  ASSUME NEW st \in FormStore
  PROVE  /\ LET r == Form!GET_APPS_SUCCESS(st) IN
              /\ r \in FormStore /\ r.app = st.app /\ r.submit = st.submit
              /\ r.keys = st.keys
              /\ r.allocations = st.allocations
              /\ ~r.apps.loading /\ r.apps.tray /\ r.apps.error = st.apps.error
         /\ LET r == Form!GET_APPS_ERROR(st) IN
              /\ r \in FormStore /\ r.app = st.app /\ r.submit = st.submit
              /\ r.keys = st.keys
              /\ r.allocations = st.allocations
              /\ ~r.apps.loading /\ r.apps.tray = st.apps.tray /\ r.apps.error
         /\ LET r == Form!GET_APP_START(st) IN
              /\ r \in FormStore /\ r.apps = st.apps /\ r.allocations = st.allocations
              /\ r.submit = st.submit /\ r.keys = st.keys
              /\ r.app.loading /\ ~r.app.error
         /\ \A a \in Apps, keys \in BOOLEAN : LET r == Form!LOAD_APP(st, a, keys) IN
              /\ r \in FormStore /\ r.apps = st.apps /\ r.allocations = st.allocations
              /\ r.submit = st.submit /\ r.keys = st.keys
              /\ ~r.app.loading /\ r.app.error = st.app.error /\ r.app.definition = a
         /\ LET r == Form!GET_APP_ERROR(st) IN
              /\ r \in FormStore /\ r.apps = st.apps /\ r.allocations = st.allocations
              /\ r.submit = st.submit /\ r.keys = st.keys
              /\ ~r.app.loading /\ r.app.error /\ r.app.definition = st.app.definition
<1>1. LET r == Form!GET_APPS_SUCCESS(st) IN
        /\ r \in FormStore /\ r.app = st.app /\ r.submit = st.submit /\ r.keys = st.keys
        /\ r.allocations = st.allocations
        /\ ~r.apps.loading /\ r.apps.tray /\ r.apps.error = st.apps.error
  BY DEF FormStore, Form!GET_APPS_SUCCESS
<1>2. LET r == Form!GET_APPS_ERROR(st) IN
        /\ r \in FormStore /\ r.app = st.app /\ r.submit = st.submit /\ r.keys = st.keys
        /\ r.allocations = st.allocations
        /\ ~r.apps.loading /\ r.apps.tray = st.apps.tray /\ r.apps.error
  BY DEF FormStore, Form!GET_APPS_ERROR
<1>3. LET r == Form!GET_APP_START(st) IN
        /\ r \in FormStore /\ r.apps = st.apps /\ r.allocations = st.allocations
        /\ r.submit = st.submit /\ r.keys = st.keys
        /\ r.app.loading /\ ~r.app.error
  BY DEF FormStore, Form!GET_APP_START, Form!initialAppState
<1>4. ASSUME NEW a \in Apps, NEW keys \in BOOLEAN
      PROVE  LET r == Form!LOAD_APP(st, a, keys) IN
               /\ r \in FormStore /\ r.apps = st.apps /\ r.allocations = st.allocations
               /\ r.submit = st.submit /\ r.keys = st.keys
               /\ ~r.app.loading /\ r.app.error = st.app.error /\ r.app.definition = a
  BY DEF FormStore, Form!LOAD_APP
<1>5. LET r == Form!GET_APP_ERROR(st) IN
        /\ r \in FormStore /\ r.apps = st.apps /\ r.allocations = st.allocations
        /\ r.submit = st.submit /\ r.keys = st.keys
        /\ ~r.app.loading /\ r.app.error /\ r.app.definition = st.app.definition
  BY DEF FormStore, Form!GET_APP_ERROR
<1> QED
  BY <1>1, <1>2, <1>3, <1>4, <1>5

(* What the answer to the allocations makes of it.                         *)
LEMMA FormAllocationReducers ==
  ASSUME NEW st \in FormStore,
         NEW q \in {Form!ADD_ALLOCATIONS(st), Form!ADD_ALLOCATIONS_ERROR(st)}
  PROVE  /\ q \in FormStore /\ q.apps = st.apps /\ q.app = st.app /\ q.submit = st.submit
         /\ q.keys = st.keys /\ ~q.allocations.loading
<1>1. CASE q = Form!ADD_ALLOCATIONS(st)
  BY <1>1 DEF FormStore, Form!ADD_ALLOCATIONS
<1>2. CASE q = Form!ADD_ALLOCATIONS_ERROR(st)
  BY <1>2 DEF FormStore, Form!ADD_ALLOCATIONS_ERROR
<1> QED
  BY <1>1, <1>2

(* What those of a submission and of the keys make of it.                  *)
LEMMA SubmitReducers ==
  ASSUME NEW st \in FormStore
  PROVE  /\ LET r == Form!FLUSH_SUBMIT(st) IN
              /\ r \in FormStore /\ r.apps = st.apps /\ r.allocations = st.allocations
              /\ r.app = st.app /\ r.keys = st.keys
              /\ ~r.submit.submitting /\ r.submit.response = Form!NoAnswer
         /\ LET r == Form!TOGGLE_SUBMITTING(st) IN
              /\ r \in FormStore /\ r.apps = st.apps /\ r.allocations = st.allocations
              /\ r.app = st.app /\ r.keys = st.keys
              /\ r.submit.submitting = ~st.submit.submitting
              /\ r.submit.response = st.submit.response
         /\ \A kind \in {"success", "error"}, a \in Apps :
              LET r == Form!SUBMIT_JOB_ANSWER(st, kind, a) IN
              /\ r \in FormStore /\ r.apps = st.apps /\ r.allocations = st.allocations
              /\ r.app = st.app /\ r.keys = st.keys
              /\ r.submit.submitting = st.submit.submitting
              /\ r.submit.response.app = a /\ r.submit.response # Form!NoAnswer
         /\ \A by \in SomeJob \cup {Form!NoJob} :
              LET r == Form!SYSTEMS_TOGGLE_MODAL(st, by) IN
              /\ r \in FormStore /\ r.apps = st.apps /\ r.allocations = st.allocations
              /\ r.app = st.app
              /\ r.submit = st.submit /\ r.keys.open = ~st.keys.open
BY DEF FormStore, Form!FLUSH_SUBMIT, Form!TOGGLE_SUBMITTING, Form!SUBMIT_JOB_ANSWER,
       Form!SYSTEMS_TOGGLE_MODAL, Form!initialSubmit, Form!NoAnswer

(* What is rendered: the form ends its submission when an answer is there. *)
LEMMA Rendered ==
  ASSUME NEW st \in FormStore, NEW u \in FormUi, Form!AppSchemaForm(st, u)
  PROVE  /\ store' \in FormStore /\ store'.apps = st.apps /\ store'.app = st.app
         /\ store'.allocations = st.allocations
         /\ store'.keys = st.keys /\ store'.submit.response = st.submit.response
         /\ ui' \in FormUi /\ ui'.route = u.route /\ ui'.left = u.left
         /\ ui'.outlived = u.outlived
         /\ ui'.isSubmitting => Form!FormShown(store', ui'.route)
         /\ store'.submit.submitting => st.submit.submitting
         /\ (u.isSubmitting /\ Form!FormShown(st, u.route))
              => IF st.submit.response # Form!NoAnswer THEN ~store'.submit.submitting
                 ELSE ui'.isSubmitting /\ store'.submit.submitting = st.submit.submitting
<1> DEFINE mine == u.isSubmitting /\ Form!FormShown(st, u.route)
           done == mine /\ st.submit.response # Form!NoAnswer /\ st.submit.submitting
<1>1. store' = (IF done THEN Form!TOGGLE_SUBMITTING(st) ELSE st)
      /\ ui' = [u EXCEPT !.isSubmitting = mine /\ ~done]
  BY DEF Form!AppSchemaForm
<1>2. /\ ui' \in FormUi /\ ui'.route = u.route /\ ui'.left = u.left
      /\ ui'.outlived = u.outlived /\ ui'.isSubmitting = (mine /\ ~done)
  <2> HIDE DEF mine, done
  <2> QED BY <1>1 DEF FormUi
<1>3. CASE done
  <2>1. /\ store' \in FormStore /\ store'.apps = st.apps
        /\ store'.allocations = st.allocations /\ store'.app = st.app
        /\ store'.keys = st.keys /\ store'.submit.response = st.submit.response
        /\ store'.submit.submitting = ~st.submit.submitting
    BY <1>1, <1>3, SubmitReducers
  <2> QED
    BY <1>2, <1>3, <2>1, FormVisible
<1>4. CASE ~done
  BY <1>1, <1>2, <1>4, FormVisible DEF FormStore
<1> QED
  BY <1>3, <1>4

(* An application is asked for on route a: what it finds of the submission *)
(* is forgotten, and left alone if it was under way.                       *)
LEMMA AppAskedFor ==
  ASSUME FormInv, NEW a \in Apps, NEW st \in FormStore, NEW u \in FormUi, NEW c,
         st.apps = store.apps /\ st.allocations = store.allocations, st.apps.tray,
         c = [w \in Form!Watchers |-> c[w]],
         \A w \in Form!Watchers : AtMostOne(c[w]),
         c["SUBMIT_JOB"] \subseteq SomeJob,
           c["pushKeys"] \subseteq SomeJob \cup {Form!NoJob},
         c["GET_APPS"] = calls["GET_APPS"], c["GET_ALLOCATIONS"] = calls["GET_ALLOCATIONS"],
         store.allocations.loading => c["SUBMIT_JOB"] = {} /\ c["pushKeys"] = {},
         c["SUBMIT_JOB"] = calls["SUBMIT_JOB"] \/ u.left,
         Form!getApp(a, st, c, u)
  PROVE  FormInv'
<1> DEFINE q == Form!GET_APP_START(Form!FLUSH_SUBMIT(st))
           v == [u EXCEPT !.route = a, !.left = @ \/ Form!Submitting, !.outlived = FALSE]
<1>1. /\ Form!AppSchemaForm(q, v)
      /\ calls' = [c EXCEPT !["GET_APP"] = {a}]
  BY DEF Form!getApp
<1>2. /\ q \in FormStore /\ q.apps = store.apps /\ q.allocations = store.allocations
      /\ q.app.loading /\ ~q.app.error
      /\ ~q.submit.submitting /\ q.submit.response = Form!NoAnswer
  BY AppReducers, SubmitReducers
<1>3. /\ v \in FormUi /\ v.route = a /\ v.left = (u.left \/ Form!Submitting) /\ ~v.outlived
  BY DEF FormUi, Form!Submitting
<1> HIDE DEF q, v
<1>4. /\ store' \in FormStore /\ store'.apps = store.apps
      /\ store'.allocations = store.allocations /\ store'.app = q.app
      /\ ~store'.submit.submitting /\ store'.submit.response = Form!NoAnswer
      /\ ui' \in FormUi /\ ui'.route = a /\ ui'.left = v.left /\ ~ui'.outlived
      /\ ui'.isSubmitting => Form!FormShown(store', ui'.route)
  BY <1>1, <1>2, <1>3, Rendered DEF FormStore
<1>5. /\ calls'["GET_APP"] = {a}
      /\ calls' = [w \in Form!Watchers |-> calls'[w]]
      /\ \A w \in Form!Watchers \ {"GET_APP"} : calls'[w] = c[w]
  BY <1>1 DEF Form!Watchers
<1>6. FormTypes'
  BY <1>4, <1>5 DEF FormTypes, FormCalls, AtMostOne, Form!Watchers
<1>7. RouteAsked'
  BY <1>2, <1>4, <1>5, WorkbenchAssumption
  DEF FormInv, RouteAsked, Form!FormAssumption, Form!Watchers
<1>8. Attended'
  BY <1>3, <1>4, <1>5 DEF Attended, Form!Submitting, Form!Watchers
<1>w. Awaiting'
  BY <1>2, <1>4, <1>5 DEF FormInv, Awaiting, Form!Watchers
<1>9. Form!SpinnerIsServed' /\ Form!FormIsOfRoute'
  BY <1>2, <1>4, <1>5, FormVisible
  DEF FormInv, Form!SpinnerIsServed, Form!FormIsOfRoute, Form!Watchers
<1> QED
  BY <1>w, <1>6, <1>7, <1>8, <1>9 DEF FormInv

\* The form is opened in its invariant.
LEMMA FormStart == ASSUME Form!Init PROVE FormInv
<1>1. /\ store \in FormStore /\ store.app.loading /\ ~store.apps.tray
      /\ ~store.submit.submitting
      /\ store.submit.response = Form!NoAnswer
  BY DEF Form!Init, FormStore, Form!GET_APPS_START, Form!GET_APP_START, Form!initialState,
         Form!initialAppState, Form!initialSubmit, Form!NoAnswer
<1>2. FormTypes
  BY <1>1 DEF Form!Init, FormTypes, FormCalls, FormUi, AtMostOne, Form!Watchers
<1> QED
  BY <1>1, <1>2, FormVisible
  DEF Form!Init, FormInv, RouteAsked, Attended, Awaiting, Form!SpinnerIsServed,
      Form!FormIsOfRoute,
      Form!Watchers

\* The answer to the tray of applications keeps it.
LEMMA TrayAnswered ==
  ASSUME FormInv, Form!getAppTray
  PROVE  FormInv'
<1>1. PICK st \in FormStore :
         /\ Form!AppSchemaForm(st, ui)
         /\ st.app = store.app /\ st.submit = store.submit /\ st.keys = store.keys
         /\ st.allocations = store.allocations
         /\ ~st.apps.loading /\ st.apps.tray \in {store.apps.tray, TRUE}
  <2>1. store \in FormStore
    BY DEF FormInv, FormTypes
  <2>2. CASE Form!AppSchemaForm(Form!GET_APPS_SUCCESS(store), ui)
    BY <2>1, <2>2, AppReducers
  <2>3. CASE Form!AppSchemaForm(Form!GET_APPS_ERROR(store), ui)
    <3>1. LET r == Form!GET_APPS_ERROR(store) IN
            /\ r \in FormStore /\ r.app = store.app /\ r.submit = store.submit
            /\ r.allocations = store.allocations
            /\ r.keys = store.keys /\ ~r.apps.loading /\ r.apps.tray = store.apps.tray
      BY <2>1, AppReducers
    <3> QED
      BY <2>3, <3>1
  <2> QED
    BY <2>2, <2>3 DEF Form!getAppTray
<1>2. /\ calls["GET_APPS"] # {} /\ ~store.apps.tray /\ ui.route = NoApp
      /\ calls' = [calls EXCEPT !["GET_APPS"] = {}]
      /\ ui \in FormUi
  BY DEF Form!getAppTray, FormInv, RouteAsked, FormTypes
<1>3. /\ store' \in FormStore /\ store'.apps = st.apps
      /\ store'.allocations = st.allocations
      /\ store'.app = store.app
      /\ store'.submit.response = store.submit.response
      /\ ui' \in FormUi /\ ui'.route = NoApp /\ ui'.left = ui.left
      /\ ui'.outlived = ui.outlived
      /\ ui'.isSubmitting => Form!FormShown(store', ui'.route)
      /\ store'.submit.submitting => store.submit.submitting
  BY <1>1, <1>2, Rendered
<1>4. ~ui.isSubmitting
  BY <1>2, FormVisible DEF FormInv, FormTypes
<1>5. /\ calls'["GET_APPS"] = {}
      /\ calls' = [w \in Form!Watchers |-> calls'[w]]
      /\ \A w \in Form!Watchers \ {"GET_APPS"} : calls'[w] = calls[w]
  BY <1>2 DEF Form!Watchers, FormInv, FormTypes, FormCalls
<1>6. FormTypes'
  BY <1>3, <1>5 DEF FormInv, FormTypes, FormCalls, AtMostOne, Form!Watchers
<1>7. RouteAsked'
  BY <1>2, <1>3, <1>5 DEF FormInv, RouteAsked, Form!Watchers
<1>8. Attended'
  BY <1>3, <1>4, <1>5 DEF FormInv, Attended, Form!Watchers
<1>w. Awaiting'
  BY <1>1, <1>2, <1>3, <1>5 DEF FormInv, Awaiting, Form!Watchers
<1>9. Form!SpinnerIsServed' /\ Form!FormIsOfRoute'
  BY <1>1, <1>2, <1>3, <1>5, FormVisible
  DEF FormInv, Form!SpinnerIsServed, Form!FormIsOfRoute, Form!Watchers
<1> QED
  BY <1>w, <1>6, <1>7, <1>8, <1>9 DEF FormInv

\* The answer to the allocations keeps it: the form was not on show.
LEMMA AllocationsAnswered ==
  ASSUME FormInv, Form!getAllocations
  PROVE  FormInv'
<1>1. store \in FormStore /\ ui \in FormUi /\ store.allocations.loading
  BY DEF FormInv, FormTypes, Awaiting, Form!getAllocations
<1>2. PICK st \in FormStore :
         /\ Form!AppSchemaForm(st, ui)
         /\ st.apps = store.apps /\ st.app = store.app /\ st.submit = store.submit
         /\ ~st.allocations.loading
  BY <1>1, FormAllocationReducers DEF Form!getAllocations
<1>3. /\ calls["GET_ALLOCATIONS"] # {}
      /\ calls' = [calls EXCEPT !["GET_ALLOCATIONS"] = {}]
  BY DEF Form!getAllocations
<1>4. /\ store' \in FormStore /\ store'.apps = store.apps /\ store'.app = store.app
      /\ store'.submit.response = store.submit.response /\ ~store'.allocations.loading
      /\ ui' \in FormUi /\ ui'.route = ui.route /\ ui'.left = ui.left
      /\ ui'.outlived = ui.outlived
      /\ ui'.isSubmitting => Form!FormShown(store', ui'.route)
      /\ store'.submit.submitting => store.submit.submitting
      /\ (/\ ui.isSubmitting /\ Form!FormShown(st, ui.route)
          /\ st.submit.response = Form!NoAnswer)
           => ui'.isSubmitting /\ store'.submit.submitting = st.submit.submitting
  BY <1>1, <1>2, Rendered
<1>5. /\ calls'["GET_ALLOCATIONS"] = {}
      /\ calls' = [w \in Form!Watchers |-> calls'[w]]
      /\ \A w \in Form!Watchers \ {"GET_ALLOCATIONS"} : calls'[w] = calls[w]
  BY <1>3 DEF Form!Watchers, FormInv, FormTypes, FormCalls
<1>6. FormTypes'
  BY <1>4, <1>5 DEF FormInv, FormTypes, FormCalls, AtMostOne, Form!Watchers
<1>7. RouteAsked'
  BY <1>4, <1>5 DEF FormInv, RouteAsked, Form!Watchers
<1>8. ui.isSubmitting => Form!FormShown(st, ui.route)
  BY <1>1, <1>2, FormVisible DEF FormInv, FormTypes
<1>9. Attended'
  BY <1>2, <1>4, <1>5, <1>8 DEF FormInv, Attended, Form!Watchers
<1>w. Awaiting'
  BY <1>4, <1>5 DEF FormInv, Awaiting, Form!Watchers
<1>10. Form!SpinnerIsServed'
  BY <1>4, <1>5 DEF FormInv, Form!SpinnerIsServed, Form!Watchers
<1>11. Form!FormIsOfRoute'
  <2>1. Form!FormShown(store', ui'.route) => ~store.app.loading /\ ~store.app.error
    BY <1>4, FormVisible
  <2>2. store.submit.response = Form!NoAnswer
    BY <1>1 DEF FormInv, Awaiting, FormStore
  <2> QED BY <1>4, <2>1, <2>2 DEF FormInv, RouteAsked, Form!FormIsOfRoute
<1> QED
  BY <1>w, <1>6, <1>7, <1>9, <1>10, <1>11 DEF FormInv

\* The answer to the application of the address keeps it.
LEMMA AppAnswered ==
  ASSUME FormInv, Form!getAppAnswer
  PROVE  FormInv'
<1>1. PICK a \in calls["GET_APP"] :
         /\ calls' = [calls EXCEPT !["GET_APP"] = {}]
         /\ \/ \E keys \in BOOLEAN : Form!AppSchemaForm(Form!LOAD_APP(store, a, keys), ui)
            \/ Form!AppSchemaForm(Form!GET_APP_ERROR(store), ui)
  BY DEF Form!getAppAnswer
<1>2. /\ a \in Apps /\ store \in FormStore /\ ui \in FormUi
      /\ a = ui.route \/ ui.outlived
      /\ store.submit.response = Form!NoAnswer \/ ui.left
      /\ store.app.loading \/ store.app.definition \in Html
  BY <1>1 DEF FormInv, FormTypes, FormCalls, RouteAsked, Attended
<1>3. PICK st \in FormStore :
         /\ Form!AppSchemaForm(st, ui)
         /\ st.apps = store.apps /\ st.allocations = store.allocations
         /\ st.submit = store.submit /\ st.keys = store.keys
         /\ ~st.app.loading
         /\ st.app.definition = a \/ st.app.error
  BY <1>1, <1>2, AppReducers
<1>4. /\ store' \in FormStore /\ store'.apps = store.apps
      /\ store'.allocations = store.allocations /\ store'.app = st.app
      /\ store'.submit.response = store.submit.response
      /\ ui' \in FormUi /\ ui'.route = ui.route /\ ui'.left = ui.left
      /\ ui'.outlived = ui.outlived
      /\ ui'.isSubmitting => Form!FormShown(store', ui'.route)
      /\ store'.submit.submitting => store.submit.submitting
  BY <1>2, <1>3, Rendered
<1>5. /\ calls'["GET_APP"] = {}
      /\ calls' = [w \in Form!Watchers |-> calls'[w]]
      /\ \A w \in Form!Watchers \ {"GET_APP"} : calls'[w] = calls[w]
  BY <1>1 DEF Form!Watchers, FormInv, FormTypes, FormCalls
<1>6. FormTypes'
  BY <1>4, <1>5 DEF FormInv, FormTypes, FormCalls, AtMostOne, Form!Watchers
<1>7. RouteAsked'
  BY <1>2, <1>3, <1>4, <1>5 DEF FormInv, RouteAsked, Form!Watchers
<1>8. calls["SUBMIT_JOB"] = {} \/ ui.left
  <2>1. ~Form!FormShown(store, ui.route)
    BY <1>2, FormVisible
  <2> QED
    BY <2>1 DEF FormInv, FormTypes, Attended
<1>9. Attended'
  BY <1>4, <1>5, <1>8 DEF FormInv, Attended, Form!Watchers
<1>w. Awaiting'
  BY <1>3, <1>4, <1>5 DEF FormInv, Awaiting, Form!Watchers
<1>10. Form!SpinnerIsServed' /\ Form!FormIsOfRoute'
  BY <1>2, <1>3, <1>4, <1>5, FormVisible
  DEF FormInv, Form!SpinnerIsServed, Form!FormIsOfRoute, Form!Watchers
<1> QED
  BY <1>w, <1>6, <1>7, <1>9, <1>10 DEF FormInv

(* A submission: it is sent unless another one is open.                    *)
LEMMA Submitted ==
  ASSUME NEW job \in SomeJob, NEW st \in FormStore, NEW c,
         c = [w \in Form!Watchers |-> c[w]]
  PROVE  LET r == Form!submitJob(job, st, c) IN
         /\ c["SUBMIT_JOB"] # {} => r.st = st /\ r.calls = c
         /\ c["SUBMIT_JOB"] = {} =>
              /\ r.st \in FormStore /\ r.st.apps = st.apps
              /\ r.st.allocations = st.allocations /\ r.st.app = st.app
              /\ r.st.keys = st.keys
              /\ r.st.submit.submitting /\ r.st.submit.response = Form!NoAnswer
              /\ r.calls = [w \in Form!Watchers |-> r.calls[w]]
              /\ r.calls["SUBMIT_JOB"] = {job}
              /\ \A w \in Form!Watchers \ {"SUBMIT_JOB"} : r.calls[w] = c[w]
<1>1. /\ Form!TOGGLE_SUBMITTING(Form!FLUSH_SUBMIT(st)) \in FormStore
      /\ LET r == Form!TOGGLE_SUBMITTING(Form!FLUSH_SUBMIT(st)) IN
           /\ r.apps = st.apps /\ r.allocations = st.allocations /\ r.app = st.app
           /\ r.keys = st.keys
           /\ r.submit.submitting /\ r.submit.response = Form!NoAnswer
 <2>1. LET r == Form!FLUSH_SUBMIT(st) IN
         /\ r \in FormStore /\ r.apps = st.apps /\ r.allocations = st.allocations
         /\ r.app = st.app /\ r.keys = st.keys
         /\ ~r.submit.submitting /\ r.submit.response = Form!NoAnswer
   BY SubmitReducers
 <2> QED
   BY <2>1, SubmitReducers
<1>2. "SUBMIT_JOB" \in Form!Watchers
  BY DEF Form!Watchers
<1>3. LET d == [c EXCEPT !["SUBMIT_JOB"] = {job}] IN
        /\ d = [w \in Form!Watchers |-> d[w]]
        /\ d["SUBMIT_JOB"] = {job}
        /\ \A w \in Form!Watchers \ {"SUBMIT_JOB"} : d[w] = c[w]
  BY <1>2
<1> QED
  BY <1>1, <1>3 DEF Form!submitJob

\* The answer to a submission keeps it.
LEMMA SubmitAnswered ==
  ASSUME FormInv, Form!submitJobAnswer
  PROVE  FormInv'
<1>1. PICK job \in calls["SUBMIT_JOB"] :
         /\ calls' = [calls EXCEPT !["SUBMIT_JOB"] = {}]
         /\ \/ Form!AppSchemaForm(Form!TOGGLE_SUBMITTING(Form!SYSTEMS_TOGGLE_MODAL(store,
               job)), ui)
            \/ \E kind \in {"success", "error"} :
                 Form!AppSchemaForm(Form!SUBMIT_JOB_ANSWER(store, kind, job.app), ui)
  BY DEF Form!submitJobAnswer
<1>2. /\ job \in SomeJob /\ job.app \in Apps /\ store \in FormStore /\ ui \in FormUi
      /\ ~ui.left =>
           /\ ui.isSubmitting /\ store.submit.submitting
           /\ store.submit.response = Form!NoAnswer
           /\ job.app = store.app.definition
      /\ ui.isSubmitting => Form!FormShown(store, ui.route)
  BY <1>1 DEF FormInv, FormTypes, FormCalls, Attended, SomeJob, Form!Jobs, Form!values
<1>3. PICK st \in FormStore :
         /\ Form!AppSchemaForm(st, ui)
         /\ st.apps = store.apps /\ st.allocations = store.allocations /\ st.app = store.app
         /\ \/ /\ st.submit.submitting = ~store.submit.submitting
               /\ st.submit.response = store.submit.response
            \/ /\ st.submit.submitting = store.submit.submitting
               /\ st.submit.response # Form!NoAnswer /\ st.submit.response.app = job.app
  <2>1. CASE Form!AppSchemaForm(Form!TOGGLE_SUBMITTING(Form!SYSTEMS_TOGGLE_MODAL(store,
        job)), ui)
    <3>1. /\ Form!SYSTEMS_TOGGLE_MODAL(store, job) \in FormStore
          /\ LET r == Form!SYSTEMS_TOGGLE_MODAL(store, job) IN
               /\ r.apps = store.apps /\ r.allocations = store.allocations
               /\ r.app = store.app /\ r.submit = store.submit
      <4>1. store \in FormStore /\ job \in SomeJob \cup {Form!NoJob}
        BY <1>2
      <4> QED
        BY ONLY <4>1, SubmitReducers
    <3>2. LET r == Form!TOGGLE_SUBMITTING(Form!SYSTEMS_TOGGLE_MODAL(store, job)) IN
            /\ r \in FormStore /\ r.apps = store.apps
            /\ r.allocations = store.allocations /\ r.app = store.app
            /\ r.submit.submitting = ~store.submit.submitting
            /\ r.submit.response = store.submit.response
      BY <3>1, SubmitReducers
    <3> QED
      BY <2>1, <3>2
  <2>2. ASSUME NEW kind \in {"success", "error"},
               Form!AppSchemaForm(Form!SUBMIT_JOB_ANSWER(store, kind, job.app), ui)
        PROVE  \E st \in FormStore :
                 /\ Form!AppSchemaForm(st, ui)
                 /\ st.apps = store.apps /\ st.allocations = store.allocations
                 /\ st.app = store.app
                 /\ st.submit.submitting = store.submit.submitting
                 /\ st.submit.response # Form!NoAnswer /\ st.submit.response.app = job.app
    BY <1>2, <2>2, SubmitReducers
  <2> QED
    BY <1>1, <2>1, <2>2
<1>4. /\ store' \in FormStore /\ store'.apps = store.apps
      /\ store'.allocations = store.allocations /\ store'.app = store.app
      /\ store'.submit.response = st.submit.response
      /\ ui' \in FormUi /\ ui'.route = ui.route /\ ui'.left = ui.left
      /\ ui'.outlived = ui.outlived
      /\ ui'.isSubmitting => Form!FormShown(store', ui'.route)
      /\ store'.submit.submitting => st.submit.submitting
      /\ (ui.isSubmitting /\ st.submit.response # Form!NoAnswer)
         => ~store'.submit.submitting
  BY <1>2, <1>3, Rendered, FormVisible
<1>5. /\ calls'["SUBMIT_JOB"] = {}
      /\ calls' = [w \in Form!Watchers |-> calls'[w]]
      /\ \A w \in Form!Watchers \ {"SUBMIT_JOB"} : calls'[w] = calls[w]
  BY <1>1 DEF Form!Watchers, FormInv, FormTypes, FormCalls
<1>6. FormTypes'
  BY <1>4, <1>5 DEF FormInv, FormTypes, FormCalls, AtMostOne, Form!Watchers
<1>7. RouteAsked'
  BY <1>4, <1>5 DEF FormInv, RouteAsked, Form!Watchers
<1>8. Attended'
  BY <1>2, <1>3, <1>4, <1>5, FormVisible DEF FormInv, RouteAsked, Attended, Form!Watchers
<1>w. Awaiting'
  BY <1>1, <1>3, <1>4, <1>5 DEF FormInv, Awaiting, Form!Watchers
<1>9. Form!SpinnerIsServed'
  BY <1>2, <1>3, <1>4, <1>5 DEF FormInv, Form!SpinnerIsServed, Form!Watchers
<1>10. Form!FormIsOfRoute'
  BY <1>2, <1>3, <1>4, FormVisible DEF FormInv, Form!FormIsOfRoute
<1> QED
  BY <1>w, <1>6, <1>7, <1>8, <1>9, <1>10 DEF FormInv

(* The keys are pushed: the job is sent again, and forgotten at once.      *)
LEMMA KeysPushed ==
  ASSUME FormInv, Form!pushSystemKeys
  PROVE  FormInv'
<1>1. PICK by \in calls["pushKeys"] :
        LET ended == [calls EXCEPT !["pushKeys"] = {}]
            toggled == Form!SYSTEMS_TOGGLE_MODAL(store, Form!NoJob)
            r == IF by = Form!NoJob THEN [st |-> toggled, calls |-> ended]
                 ELSE Form!submitJob(by, toggled, ended)
        IN \/ Form!getApp(ui.route, r.st,
              r.calls, [ui EXCEPT !.left = @ \/ by # Form!NoJob])
           \/ store' = toggled /\ calls' = ended /\ ui' = [ui EXCEPT !.up = FALSE]
           \/ Form!getApp(ui.route, [store EXCEPT !.keys.submitting = FALSE], ended, ui)
  BY DEF Form!pushSystemKeys
<1> DEFINE ended == [calls EXCEPT !["pushKeys"] = {}]
           toggled == Form!SYSTEMS_TOGGLE_MODAL(store, Form!NoJob)
           freed == [store EXCEPT !.keys.submitting = FALSE]
           sent == Form!submitJob(by, toggled, ended)
<1>2. /\ by \in SomeJob \cup {Form!NoJob} /\ store \in FormStore /\ ui \in FormUi
      /\ ui.route \in Apps /\ store.apps.tray /\ ~store.allocations.loading
  BY <1>1 DEF FormInv, FormTypes, FormCalls, RouteAsked, Awaiting, FormUi, FormStore
<1>3. /\ toggled \in FormStore /\ toggled.apps = store.apps
      /\ toggled.allocations = store.allocations /\ toggled.app = store.app
      /\ toggled.submit = store.submit
  BY <1>2, SubmitReducers
<1>4. freed \in FormStore /\ freed.apps = store.apps
      /\ freed.allocations = store.allocations
  BY <1>2 DEF FormStore
<1>5. /\ ended = [w \in Form!Watchers |-> ended[w]]
      /\ ended["pushKeys"] = {}
      /\ \A w \in Form!Watchers \ {"pushKeys"} : ended[w] = calls[w]
  BY DEF Form!Watchers, FormInv, FormTypes, FormCalls
<1>6. /\ \A w \in Form!Watchers : AtMostOne(ended[w])
      /\ ended["SUBMIT_JOB"] = calls["SUBMIT_JOB"] /\ ended["SUBMIT_JOB"] \subseteq SomeJob
      /\ ended["GET_APPS"] = calls["GET_APPS"]
      /\ ended["GET_ALLOCATIONS"] = calls["GET_ALLOCATIONS"]
  BY <1>5 DEF FormInv, FormTypes, FormCalls, AtMostOne, Form!Watchers
<1> HIDE DEF ended, toggled, freed
<1>7. ASSUME Form!getApp(ui.route, freed, ended, ui)
      PROVE  FormInv'
  BY <1>2, <1>4, <1>5, <1>6, <1>7, AppAskedFor
<1>8. ASSUME by = Form!NoJob, Form!getApp(ui.route, toggled, ended, ui)
      PROVE  FormInv'
  BY <1>2, <1>3, <1>5, <1>6, <1>8, AppAskedFor
<1>9. ASSUME by # Form!NoJob, NEW u, u = [ui EXCEPT !.left = TRUE],
             Form!getApp(ui.route, sent.st, sent.calls, u)
      PROVE  FormInv'
  <2>1. u \in FormUi /\ u.left
    BY <1>2, <1>9 DEF FormUi
  <2>2. by \in SomeJob
    BY <1>2, <1>9
  <2>3. /\ sent.st \in FormStore /\ sent.st.apps = store.apps
        /\ sent.st.allocations = store.allocations
        /\ sent.calls = [w \in Form!Watchers |-> sent.calls[w]]
        /\ \A w \in Form!Watchers \ {"SUBMIT_JOB"} : sent.calls[w] = ended[w]
        /\ sent.calls["SUBMIT_JOB"] \in {{by}, ended["SUBMIT_JOB"]}
    BY <2>2, <1>3, <1>5, Submitted
  <2>4. /\ \A w \in Form!Watchers : AtMostOne(sent.calls[w])
        /\ sent.calls["SUBMIT_JOB"] \subseteq SomeJob
        /\ sent.calls["pushKeys"] = {}
        /\ sent.calls["GET_APPS"] = calls["GET_APPS"]
        /\ sent.calls["GET_ALLOCATIONS"] = calls["GET_ALLOCATIONS"]
    <3>1. AtMostOne({by})
      BY DEF AtMostOne
    <3> QED
      BY <2>2, <2>3, <3>1, <1>5, <1>6 DEF Form!Watchers
  <2> HIDE DEF sent
  <2> QED
    BY <2>1, <2>3, <2>4, <1>2, <1>9, AppAskedFor
<1>10. ASSUME store' = toggled, calls' = ended, ui' = [ui EXCEPT !.up = FALSE]
       PROVE  FormInv'
  <2>1. /\ ui' \in FormUi /\ ui'.route = ui.route /\ ui'.left = ui.left
        /\ ui'.outlived = ui.outlived /\ ui'.isSubmitting = ui.isSubmitting
    BY <1>2, <1>10 DEF FormUi
  <2>2. FormTypes'
    BY <2>1, <1>2, <1>3, <1>5, <1>6, <1>10, FormVisible
    DEF FormInv, FormTypes, FormCalls, Form!Watchers
  <2>3. RouteAsked' /\ Attended'
    BY <2>1, <1>3, <1>5, <1>10 DEF FormInv, RouteAsked, Attended, Form!Watchers
  <2>w. Awaiting'
    BY <1>1, <1>3, <1>5, <1>10 DEF FormInv, Awaiting, Form!Watchers
  <2>4. Form!SpinnerIsServed' /\ Form!FormIsOfRoute'
    BY <2>1, <1>2, <1>3, <1>5, <1>10, FormVisible
    DEF FormInv, Form!SpinnerIsServed, Form!FormIsOfRoute, Form!Watchers
  <2> QED
    BY <2>w, <2>2, <2>3, <2>4 DEF FormInv
<1>11. by = Form!NoJob => [ui EXCEPT !.left = @ \/ by # Form!NoJob] = ui
  BY <1>2 DEF FormUi
<1>12. by # Form!NoJob => [ui EXCEPT !.left = @ \/ by # Form!NoJob]
       = [ui EXCEPT !.left = TRUE]
  BY <1>2 DEF FormUi
<1> QED
  BY <1>1, <1>7, <1>8, <1>9, <1>10, <1>11, <1>12 DEF ended, toggled, freed

(* The route of an application is rendered.                                *)
LEMMA RouteRendered ==
  ASSUME FormInv, Form!AppsRoutes
  PROVE  FormInv'
<1>1. PICK a \in Apps :
        /\ store.apps.tray
        /\ IF a \in Html
           THEN /\ Form!AppSchemaForm(Form!LOAD_APP(store, a, TRUE),
                         [ui EXCEPT !.route = a, !.left = @ \/ Form!Submitting,
                                    !.outlived = calls["GET_APP"] # {}])
                /\ UNCHANGED calls
           ELSE Form!getApp(a, store, calls, ui)
  BY DEF Form!AppsRoutes, Form!AppsLayout
<1>2. /\ store \in FormStore /\ ui \in FormUi /\ FormCalls
  BY DEF FormInv, FormTypes
<1>3. CASE a \notin Html
  BY <1>1, <1>2, <1>3, AppAskedFor DEF FormInv, Awaiting, FormCalls
<1>4. CASE a \in Html
  <2> DEFINE st == Form!LOAD_APP(store, a, TRUE)
             u == [ui EXCEPT !.route = a, !.left = @ \/ Form!Submitting,
                             !.outlived = calls["GET_APP"] # {}]
  <2>1. /\ st \in FormStore /\ st.apps = store.apps
        /\ st.allocations = store.allocations /\ st.submit = store.submit
        /\ ~st.app.loading /\ st.app.definition = a
    <3>1. store \in FormStore /\ a \in Apps
      BY <1>2
    <3> QED
      BY ONLY <3>1 DEF FormStore, Form!LOAD_APP
  <2>2. /\ u \in FormUi /\ u.route = a /\ u.left = (ui.left \/ Form!Submitting)
        /\ u.outlived = (calls["GET_APP"] # {})
    BY <1>2 DEF FormUi, Form!Submitting
  <2>3. Form!AppSchemaForm(st, u) /\ UNCHANGED calls
    BY <1>1, <1>4
  <2> HIDE DEF st, u
  <2>4. /\ store' \in FormStore /\ store'.apps = store.apps
        /\ store'.allocations = store.allocations /\ store'.app = st.app
        /\ store'.submit.response = store.submit.response
        /\ ui' \in FormUi /\ ui'.route = a /\ ui'.left = u.left /\ ui'.outlived = u.outlived
        /\ ui'.isSubmitting => Form!FormShown(store', ui'.route)
        /\ store'.submit.submitting => store.submit.submitting
    BY <2>1, <2>2, <2>3, Rendered
  <2>5. ~Form!FormShown(store', ui'.route)
    BY <1>4, <2>1, <2>4, FormVisible
  <2>6. FormTypes'
    BY <1>2, <2>3, <2>4 DEF FormTypes, FormCalls
  <2>7. RouteAsked'
    BY <1>1, <1>4, <2>1, <2>2, <2>3, <2>4, WorkbenchAssumption
    DEF FormInv, RouteAsked, Form!FormAssumption
  <2>8. Attended'
    BY <2>2, <2>3, <2>4 DEF FormInv, Attended, Form!Submitting
  <2>w. Awaiting'
    BY <2>1, <2>3, <2>4 DEF FormInv, Awaiting, Form!Watchers
  <2>9. Form!SpinnerIsServed' /\ Form!FormIsOfRoute'
    BY <2>1, <2>2, <2>3, <2>4, <2>5
    DEF FormInv, Form!SpinnerIsServed, Form!FormIsOfRoute, Form!Submitting
  <2> QED
    BY <2>w, <2>6, <2>7, <2>8, <2>9 DEF FormInv
<1> QED
  BY <1>3, <1>4

(* Submit is pressed.                                                      *)
LEMMA SubmitPressed ==
  ASSUME FormInv, Form!onSubmit
  PROVE  FormInv'
<1>1. PICK job \in Form!Jobs(store.app.definition) :
        LET r == Form!submitJob(job, store, calls) IN
        /\ Form!AppSchemaForm(r.st, [ui EXCEPT !.isSubmitting = TRUE,
                                      !.left = @ /\ calls["SUBMIT_JOB"] # {}])
        /\ calls' = r.calls
  BY DEF Form!onSubmit
<1>2. /\ store \in FormStore /\ ui \in FormUi /\ FormCalls
      /\ Form!FormShown(store, ui.route) /\ ~store.submit.submitting
  BY DEF FormInv, FormTypes, Form!onSubmit, Form!readOnly
<1>3. /\ store.app.definition \in Apps
      /\ job \in SomeJob /\ job.app = store.app.definition
  BY <1>2, FormVisible DEF FormStore, SomeJob, Form!Jobs, Form!values
<1> DEFINE r == Form!submitJob(job, store, calls)
           u == [ui EXCEPT !.isSubmitting = TRUE, !.left = @ /\ calls["SUBMIT_JOB"] # {}]
<1>4. /\ u \in FormUi /\ u.route = ui.route /\ u.outlived = ui.outlived
      /\ u.left = (ui.left /\ calls["SUBMIT_JOB"] # {}) /\ u.isSubmitting
  BY <1>2 DEF FormUi
<1>5. /\ calls["SUBMIT_JOB"] # {} => r.st = store /\ r.calls = calls
      /\ calls["SUBMIT_JOB"] = {} =>
           /\ r.st \in FormStore /\ r.st.apps = store.apps
           /\ r.st.allocations = store.allocations /\ r.st.app = store.app
           /\ r.st.submit.submitting /\ r.st.submit.response = Form!NoAnswer
           /\ r.calls = [w \in Form!Watchers |-> r.calls[w]]
           /\ r.calls["SUBMIT_JOB"] = {job}
           /\ \A w \in Form!Watchers \ {"SUBMIT_JOB"} : r.calls[w] = calls[w]
  BY <1>2, <1>3, Submitted DEF FormCalls
<1>6. Form!AppSchemaForm(r.st, u) /\ calls' = r.calls
  BY <1>1
<1> HIDE DEF r, u
<1>7. calls["GET_APP"] = {}
  BY <1>2, FormVisible DEF FormInv, RouteAsked
<1>8. CASE calls["SUBMIT_JOB"] # {}
  <2>1. ui.left
    BY <1>2, <1>8 DEF FormInv, Attended
  <2>2. /\ store' \in FormStore /\ store'.apps = store.apps
        /\ store'.allocations = store.allocations /\ store'.app = store.app
        /\ ui' \in FormUi /\ ui'.route = ui.route /\ ui'.left /\ ui'.outlived = ui.outlived
        /\ ui'.isSubmitting => Form!FormShown(store', ui'.route)
    BY <1>2, <1>4, <1>5, <1>6, <1>8, <2>1, Rendered
  <2>3. calls' = calls
    BY <1>5, <1>6, <1>8
  <2> QED
    BY <1>2, <1>7, <2>2, <2>3, FormVisible
    DEF FormInv, FormTypes, FormCalls, RouteAsked, Attended, Awaiting, Form!SpinnerIsServed,
        Form!FormIsOfRoute
<1>9. CASE calls["SUBMIT_JOB"] = {}
  <2>1. Form!FormShown(r.st, u.route)
    BY <1>2, <1>4, <1>5, <1>9, FormVisible
  <2>2. /\ store' \in FormStore /\ store'.apps = store.apps
        /\ store'.allocations = store.allocations /\ store'.app = store.app
        /\ store'.submit.response = Form!NoAnswer /\ store'.submit.submitting
        /\ ui' \in FormUi /\ ui'.route = ui.route /\ ~ui'.left /\ ui'.outlived = ui.outlived
        /\ ui'.isSubmitting /\ Form!FormShown(store', ui'.route)
    <3>1. r.st \in FormStore /\ u \in FormUi /\ Form!AppSchemaForm(r.st, u)
      BY <1>4, <1>5, <1>6, <1>9
    <3>2. /\ store' \in FormStore /\ store'.apps = r.st.apps
          /\ store'.allocations = r.st.allocations /\ store'.app = r.st.app
          /\ store'.submit.response = r.st.submit.response
          /\ ui' \in FormUi /\ ui'.route = u.route /\ ui'.left = u.left
          /\ ui'.outlived = u.outlived
          /\ ui'.isSubmitting => Form!FormShown(store', ui'.route)
          /\ (u.isSubmitting /\ Form!FormShown(r.st, u.route))
               => IF r.st.submit.response # Form!NoAnswer THEN ~store'.submit.submitting
                  ELSE ui'.isSubmitting /\ store'.submit.submitting = r.st.submit.submitting
      BY ONLY <3>1, Rendered
    <3> QED
      BY <1>4, <1>5, <1>9, <2>1, <3>2
  <2>3. FormTypes'
    BY <1>2, <1>3, <1>5, <1>6, <1>9, <2>2 DEF FormTypes, FormCalls, AtMostOne, Form!Watchers
  <2>4. RouteAsked' /\ Attended'
    BY <1>3, <1>5, <1>6, <1>7, <1>9, <2>2 DEF FormInv, RouteAsked, Attended, Form!Watchers
  <2>w. Awaiting'
    <3>1. ~store'.allocations.loading
      BY <2>2, FormVisible
    <3>2. calls'["GET_ALLOCATIONS"] = calls["GET_ALLOCATIONS"]
      BY <1>5, <1>6, <1>9 DEF Form!Watchers
    <3>3. ~store.allocations.loading
      BY <1>2, FormVisible
    <3> QED
      BY <3>1, <3>2, <3>3 DEF FormInv, Awaiting
  <2>5. Form!SpinnerIsServed' /\ Form!FormIsOfRoute'
    BY <1>2, <1>5, <1>6, <1>9, <2>2
    DEF FormInv, Form!SpinnerIsServed, Form!FormIsOfRoute, Form!Watchers
  <2> QED
    BY <2>w, <2>3, <2>4, <2>5 DEF FormInv
<1> QED
  BY <1>8, <1>9

(* The keys are asked for, entered or not.                                 *)
LEMMA KeysAsked ==
  ASSUME FormInv, Form!pushKeys \/ Form!SystemsPushKeysModal
  PROVE  FormInv'
<1>1. /\ store \in FormStore /\ ui' = ui /\ Form!FormShown(store, ui.route)
  BY DEF FormInv, FormTypes, Form!pushKeys, Form!SystemsPushKeysModal, Form!KeysShown
<1>2. /\ store' \in FormStore /\ store'.apps = store.apps
      /\ store'.allocations = store.allocations /\ store'.app = store.app
      /\ store'.submit = store.submit
  <2>1. CASE store' = Form!SYSTEMS_TOGGLE_MODAL(store, Form!NoJob)
    BY <1>1, <2>1, SubmitReducers
  <2>2. CASE store' = [store EXCEPT !.keys.submitting = TRUE]
    BY <1>1, <2>2 DEF FormStore
  <2> QED
    BY <2>1, <2>2 DEF Form!pushKeys, Form!SystemsPushKeysModal
<1>3. calls' = calls \/ calls' = [calls EXCEPT !["pushKeys"] = {store.keys.by}]
  BY DEF Form!pushKeys, Form!SystemsPushKeysModal
<1>4. /\ FormCalls'
      /\ \A w \in Form!Watchers \ {"pushKeys"} : calls'[w] = calls[w]
  <2>1. store.keys.by \in SomeJob \cup {Form!NoJob}
    BY <1>1 DEF FormStore
  <2> QED
    BY <2>1, <1>3 DEF FormInv, FormTypes, FormCalls, AtMostOne, Form!Watchers
<1>5. Form!FormShown(store', ui'.route) /\ ui.route # NoApp
  BY <1>1, <1>2, FormVisible
<1>6. Awaiting'
  <2>1. ~store'.allocations.loading
    BY <1>2, <1>5, FormVisible
  <2> QED
    BY <1>2, <1>4, <2>1 DEF FormInv, Awaiting, Form!Watchers
<1>7. RouteAsked' /\ Attended'
  BY <1>1, <1>2, <1>4, <1>5 DEF FormInv, RouteAsked, Attended, Form!Watchers
<1>8. Form!SpinnerIsServed' /\ Form!FormIsOfRoute'
  BY <1>1, <1>2, <1>4, <1>5
  DEF FormInv, Form!SpinnerIsServed, Form!FormIsOfRoute, Form!Watchers
<1> QED
  BY <1>1, <1>2, <1>4, <1>5, <1>6, <1>7, <1>8 DEF FormInv, FormTypes

\* Every step of the form and of its sagas keeps it.
LEMMA FormStep ==
  ASSUME FormInv, [Form!Next]_<<store, calls, ui, alive>>
  PROVE  FormInv'
<1>1. CASE UNCHANGED <<store, calls, ui, alive>>
  BY <1>1 DEF FormInv, FormTypes, FormCalls, RouteAsked, Attended, Awaiting,
              Form!SpinnerIsServed,
              Form!FormIsOfRoute, Form!FormShown, Form!AppsLayout, Form!AppDetail
<1> QED
  BY <1>1, TrayAnswered, AllocationsAnswered, AppAnswered, SubmitAnswered, KeysPushed,
     RouteRendered,
     SubmitPressed, KeysAsked DEF Form!Next

\* What it says of types, spinners, the address and run times.
LEMMA FormHolds ==
  ASSUME FormInv
  PROVE  /\ Form!TypeOK /\ Form!SpinnerIsServed /\ Form!FormIsOfRoute /\ Form!RunTimeFits
<1>1. /\ store \in FormStore /\ ui \in FormUi /\ FormCalls
      /\ ui.isSubmitting => Form!FormShown(store, ui.route)
  BY DEF FormInv, FormTypes
<1>2. Form!TypeOK
  <2>1. /\ store.app.definition \in Apps \cup {NoApp}
        /\ store.submit.response.app \in Apps \cup {NoApp}
        /\ store.submit.submitting \in BOOLEAN /\ store.keys.open \in BOOLEAN
        /\ store.keys.by \in SomeJob \cup {Form!NoJob}
    BY <1>1 DEF FormStore
  <2>2. store.keys.by.app \in Apps \cup {NoApp}
    BY <2>1 DEF SomeJob, Form!Jobs, Form!values, Form!NoJob
  <2>3. \A w \in Form!Watchers : Form!Cardinality(calls[w]) <= 1
    BY <1>1, OneAtMost DEF FormCalls, Form!Cardinality, Cardinality
  <2>4. ui.route \in Apps \cup {NoApp}
    BY <1>1 DEF FormUi
  <2> QED
    BY ONLY <1>1, <2>1, <2>2, <2>3, <2>4 DEF Form!TypeOK
<1>3. ASSUME NEW job \in calls["SUBMIT_JOB"],
             \E i \in Form!Place : Queue[job.queue].time[i] # 0
      PROVE  Len(job.time) >= 6 /\ Form!Fits(Form!LastSix(job.time), Queue[job.queue].time)
  <2>1. PICK a \in Apps : job \in Form!Jobs(a)
    BY <1>1 DEF FormCalls, SomeJob
  <2>2. /\ job.queue \in DOMAIN Queue /\ job.time \in Entries
        /\ Form!createMaxRunTimeRegex(Queue[job.queue].time, job.time)
    BY <2>1 DEF Form!Jobs, Form!values
  <2>3. job.time \in Seq(Form!Digit) /\ Queue[job.queue].time \in Form!Time
    BY <2>2, WorkbenchAssumption DEF Form!FormAssumption
  <2> QED
    BY <1>3, <2>2, <2>3, AcceptedFits
<1> QED
  BY <1>2, <1>3 DEF FormInv, Form!RunTimeFits
=============================================================================
