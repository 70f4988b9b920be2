--------------------------- MODULE Gallery_proofs ---------------------------
(***************************************************************************)
(* Proofs about the Gallery page, for any albums, groups, folders and      *)
(* bounds, as long as posts that answer with the list overlap nothing and  *)
(* albums are created outside groups: what is shown belongs to the place,  *)
(* the session storage to its keys, and nothing gets older.                *)
(***************************************************************************)
EXTENDS Gallery, TLAPS

(* A request as Fetch makes it. *)
Request(r) ==
  /\ r = [slot |-> r.slot, of |-> r.of, latest |-> r.latest, since |-> r.since, then |-> r.then]
  /\ \/ r.slot = "albums" /\ r.of \in Keys
     \/ r.slot = "media" /\ r.of \in Albums
     \/ r.slot = "folders" /\ r.of \in Paths
  /\ r.latest \in BOOLEAN
  /\ r.since \in Nat
  /\ r.then \in {"nothing", "albums"} \cup Albums

UserOK ==
  /\ groupStack \in {<<>>} \cup {<<g>> : g \in Groups}
  /\ showHidden \in BOOLEAN
  /\ currentAlbum \in Albums \cup {None}
  /\ viewer \in BOOLEAN /\ pickCoverMode \in BOOLEAN /\ selecting \in BOOLEAN
  /\ viewer \/ pickCoverMode => currentAlbum # None
  /\ picker \in Paths \cup {None}
  /\ picker # None => currentAlbum = None

CountersOK ==
  /\ loading \in BOOLEAN /\ refreshing \in BOOLEAN
  /\ notice \in BOOLEAN /\ refreshTimer \in BOOLEAN
  /\ missed \in BOOLEAN
  /\ inputs \in 0 .. MaxInputs /\ changes \in 0 .. MaxChanges

FoldersOK ==
  /\ folders \in Paths \cup {None}
  /\ folderCache \subseteq Paths
  /\ folders # None => folders = picker

(* The list shown is that of the place, and what the session storage has.  *)
ListOK ==
  /\ albumsContextKey = Key
  /\ albums # None => albums = listCache[Key]
  /\ listCache \in [Keys -> Content(Keys)]
  /\ \A k \in Keys : listCache[k] # None =>
       listCache[k].of = k /\ listCache[k].version <= version["albums"]

MediaOK ==
  /\ mediaReadyFor \in Albums \cup {None}
  /\ media # None => currentAlbum \in Albums /\ mediaReadyFor = currentAlbum
                     /\ media = mediaCache[currentAlbum]
  /\ mediaCache \in [Albums -> Content(Albums)]
  /\ \A a \in Albums : mediaCache[a] # None =>
       mediaCache[a].of = a /\ mediaCache[a].version <= version["media"]

(* The latest request of a slot was sent when all that is stored of its    *)
(* place was known: R are the requests, v the versions, lc and mc the      *)
(* stored lists and media.                                                 *)
Fresh(R, v, lc, mc) ==
  /\ \A r \in R :
       /\ Request(r)
       /\ r.since <= v[r.slot]
       /\ r.slot = "albums" /\ r.latest /\ lc[r.of] # None => lc[r.of].version <= r.since
       /\ r.slot = "media" /\ r.latest /\ mc[r.of] # None => mc[r.of].version <= r.since
  /\ \A r, s \in R : r.latest /\ s.latest /\ r.slot = s.slot => r = s

(* The rest of a cover post waits with the user.                           *)
RequestsOK ==
  /\ Fresh(requests, version, listCache, mediaCache)
  /\ \A r \in requests : r.then \in Albums => r.then = currentAlbum /\ post = None

(* While a post that answers with the list is on its way, the place stays, *)
(* and nobody else loads the list.                                         *)
PostOK ==
  post # None =>
    /\ post \in [kind : PostKinds, of : Keys, done : Nat]
    /\ post.done <= version["albums"]
    /\ post.kind \in ListPosts =>
         /\ post.of = Key
         /\ ListSettled
         /\ post.done # 0 => \A k \in Keys : listCache[k] # None => listCache[k].version <= post.done
    /\ post.kind = "hideCurrent" => ~ viewer /\ ~ pickCoverMode

VersionOK == version \in [Slots -> Nat]

GInv == UserOK /\ CountersOK /\ FoldersOK /\ ListOK /\ MediaOK /\ RequestsOK /\ PostOK /\ VersionOK

-----------------------------------------------------------------------------
LEMMA KeyTyped ==
  ASSUME NEW stack \in {<<>>} \cup {<<g>> : g \in Groups}, NEW hidden \in BOOLEAN
  PROVE  KeyOf(stack, hidden) \in Keys
<1>1. CASE stack = <<>>
  BY <1>1 DEF KeyOf, Keys
<1>2. ASSUME NEW g \in Groups, stack = <<g>> PROVE KeyOf(stack, hidden) \in Keys
  <2>1. stack # <<>> /\ stack[Len(stack)] = g
    BY <1>2
  <2> QED
    BY <2>1 DEF KeyOf, Keys
<1> QED
  BY <1>1, <1>2

LEMMA KeyInKeys == UserOK => Key \in Keys
BY KeyTyped DEF UserOK, Key

(***************************************************************************)
(* The server's versions only grow.                                        *)
(***************************************************************************)
LEMMA ChangedGrows ==
  ASSUME VersionOK, NEW slots
  PROVE  /\ Changed(slots) \in [Slots -> Nat]
         /\ \A s \in Slots : version[s] <= Changed(slots)[s]
         /\ "albums" \in slots => Changed(slots)["albums"] = version["albums"] + 1
BY DEF VersionOK, Changed, Slots

LEMMA ChangedByGrows ==
  ASSUME VersionOK, NEW kind
  PROVE  /\ ChangedBy(kind) \in [Slots -> Nat]
         /\ \A s \in Slots : version[s] <= ChangedBy(kind)[s]
         /\ ChangedBy(kind)["albums"] = version["albums"] + 1
<1>1. CASE kind \in {"delete", "favorite"}
  BY <1>1, ChangedGrows DEF ChangedBy
<1>2. CASE kind \notin {"delete", "favorite"}
  BY <1>2, ChangedGrows DEF ChangedBy
<1> QED
  BY <1>1, <1>2

LEMMA VersionStep ==
  ASSUME GInv, [Next]_vars
  PROVE  VersionOK' /\ \A s \in Slots : version[s] <= version'[s]
<1> USE DEF GInv, VersionOK, outsideVars
<1>1. ASSUME NEW r \in requests, NEW got \in Answers(r), AlbumsReturn(r, got)
      PROVE  VersionOK' /\ \A s \in Slots : version[s] <= version'[s]
  BY <1>1 DEF AlbumsReturn
<1>2. ASSUME NEW r \in requests, NEW got \in Answers(r), MediaReturn(r, got)
      PROVE  VersionOK' /\ \A s \in Slots : version[s] <= version'[s]
  BY <1>2 DEF MediaReturn
<1>3. ASSUME NEW r \in requests, NEW got \in Answers(r), FoldersReturn(r, got)
      PROVE  VersionOK' /\ \A s \in Slots : version[s] <= version'[s]
  BY <1>3 DEF FoldersReturn
<1>4. ASSUME NEW a \in Albums, OpenAlbum(a)
      PROVE  VersionOK' /\ \A s \in Slots : version[s] <= version'[s]
  BY <1>4 DEF OpenAlbum
<1>5. ASSUME NEW g \in Groups, OpenGroup(g)
      PROVE  VersionOK' /\ \A s \in Slots : version[s] <= version'[s]
  BY <1>5 DEF OpenGroup
<1>6. CASE ToggleShowHidden
  BY <1>6 DEF ToggleShowHidden
<1>7. CASE ChangeMode
  BY <1>7 DEF ChangeMode
<1>8. CASE Reload
  BY <1>8, ChangedByGrows DEF Reload
<1>9. CASE CloseTopmost
  BY <1>9 DEF CloseTopmost
<1>10. CASE BackInPicker
  BY <1>10 DEF BackInPicker
<1>11. CASE LeaveAlbum
  BY <1>11 DEF LeaveAlbum
<1>12. CASE LeaveGroup
  BY <1>12 DEF LeaveGroup
<1>13. ASSUME NEW p \in Paths, PickFolder(p)
       PROVE  VersionOK' /\ \A s \in Slots : version[s] <= version'[s]
  BY <1>13 DEF PickFolder
<1>14. ASSUME NEW kind \in PostKinds, SendPost(kind)
       PROVE  VersionOK' /\ \A s \in Slots : version[s] <= version'[s]
  BY <1>14 DEF SendPost
<1>15. CASE PostExecuted
  BY <1>15, ChangedByGrows DEF PostExecuted
<1>16. CASE PostReturns /\ ListReturned
  BY <1>16 DEF PostReturns, ListReturned
<1>17. CASE PostReturns /\ CoverReturned
  BY <1>17 DEF PostReturns, CoverReturned
<1>18. CASE PostReturns /\ SortReturned
  BY <1>18 DEF PostReturns, SortReturned
<1>19. CASE PostReturns /\ MediaReturned
  BY <1>19 DEF PostReturns, MediaReturned
<1>20. CASE PostFails
  BY <1>20 DEF PostFails
<1>21. CASE ExternalChange
  BY <1>21, ChangedGrows DEF ExternalChange
<1>22. CASE ScheduleFilesystemRefresh
  BY <1>22 DEF ScheduleFilesystemRefresh
<1>23. CASE RefreshTimerFires
  BY <1>23 DEF RefreshTimerFires, RefreshFromFilesystem
<1>24. CASE UNCHANGED vars
  BY <1>24 DEF vars
<1> QED
  BY <1>1, <1>2, <1>3, <1>4, <1>5, <1>6, <1>7, <1>8, <1>9, <1>10, <1>11, <1>12, <1>13,
     <1>14, <1>15, <1>16, <1>17, <1>18, <1>19, <1>20, <1>21, <1>22, <1>23, <1>24
  DEF Next, RequestEnds, PostReturns

(***************************************************************************)
(* Between a post that answers with the list and the end of what it        *)
(* starts, nobody clicks.                                                  *)
(***************************************************************************)
LEMMA ApartQuiet ==
  ASSUME ~ Overlap, Apart
  PROVE  /\ post # None => post.kind \notin ListPosts
         /\ \A r \in requests : r.then \notin Albums
BY DEF Apart

LEMMA UserStep ==
  ASSUME ~ Overlap, ~ CreateInGroup, GInv, [Next]_vars
  PROVE  UserOK'
<1> USE GalleryAssumption DEF GInv, UserOK, placeVars, modeVars, pickerVars, Click,
   Uncovered, NothingOpen, OpenFolderPickerPath
<1>1. ASSUME NEW r \in requests, NEW got \in Answers(r), AlbumsReturn(r, got)
      PROVE  UserOK'
  <2>1. UNCHANGED <<groupStack, showHidden, modeVars, pickerVars>>
    BY <1>1 DEF AlbumsReturn
  <2>2. currentAlbum' = currentAlbum \/ (r.then \in Albums /\ currentAlbum' = r.then)
    BY <1>1 DEF AlbumsReturn
  <2>3. currentAlbum' = currentAlbum
    BY <2>2 DEF RequestsOK
  <2> QED
    BY <2>1, <2>3
<1>2. ASSUME NEW r \in requests, NEW got \in Answers(r), MediaReturn(r, got) PROVE UserOK'
  BY <1>2 DEF MediaReturn
<1>3. ASSUME NEW r \in requests, NEW got \in Answers(r), FoldersReturn(r, got)
      PROVE  UserOK'
  <2>1. UNCHANGED <<placeVars, modeVars>>
    BY <1>3 DEF FoldersReturn
  <2>2. picker' = picker \/ (picker # None /\ picker' = r.of /\ r.slot = "folders")
    BY <1>3 DEF FoldersReturn, Applies
  <2>3. r.slot = "folders" => r.of \in Paths
    BY DEF RequestsOK, Fresh, Request
  <2> QED
    BY <2>1, <2>2, <2>3
<1>4. ASSUME NEW a \in Albums, OpenAlbum(a) PROVE UserOK'
  BY <1>4 DEF OpenAlbum
<1>5. ASSUME NEW g \in Groups, OpenGroup(g) PROVE UserOK'
  BY <1>5 DEF OpenGroup
<1>6. CASE ToggleShowHidden
  BY <1>6 DEF ToggleShowHidden
<1>7. CASE ChangeMode
  BY <1>7 DEF ChangeMode
<1>8. CASE Reload
  BY <1>8 DEF Reload
<1>9. CASE CloseTopmost
  <2>1. UNCHANGED <<placeVars, picker>>
    BY <1>9 DEF CloseTopmost
  <2>2. viewer' = viewer \/ viewer' = FALSE
    BY <1>9 DEF CloseTopmost
  <2>3. pickCoverMode' = pickCoverMode \/ pickCoverMode' = FALSE
    BY <1>9 DEF CloseTopmost
  <2>4. selecting' = selecting \/ selecting' = FALSE
    BY <1>9 DEF CloseTopmost
  <2>5. viewer' \/ pickCoverMode' => viewer \/ pickCoverMode
    BY <2>2, <2>3, Zenon
  <2>6. viewer' \in BOOLEAN /\ pickCoverMode' \in BOOLEAN /\ selecting' \in BOOLEAN
    BY <2>2, <2>3, <2>4
  <2> QED
    BY <2>1, <2>5, <2>6
<1>10. CASE BackInPicker
  BY <1>10 DEF BackInPicker
<1>11. CASE LeaveAlbum
  BY <1>11 DEF LeaveAlbum
<1>12. CASE LeaveGroup
  BY <1>12 DEF LeaveGroup
<1>13. ASSUME NEW p \in Paths, PickFolder(p) PROVE UserOK'
  BY <1>13 DEF PickFolder
<1>14. ASSUME NEW kind \in PostKinds, SendPost(kind) PROVE UserOK'
  <2>1. UNCHANGED <<showHidden, modeVars, pickerVars>>
    BY <1>14 DEF SendPost
  <2>2. CASE kind = "create"
    <3>1. groupStack' = <<>> /\ currentAlbum' = None /\ picker # None /\ ~ viewer
      BY <1>14, <2>2 DEF SendPost, MayPost
    <3> QED
      BY <2>1, <3>1
  <2>3. CASE kind # "create"
    BY <1>14, <2>1, <2>3 DEF SendPost
  <2> QED
    BY <2>2, <2>3
<1>15. CASE PostExecuted
  BY <1>15 DEF PostExecuted
<1>16. CASE PostReturns /\ ListReturned
  <2>1. UNCHANGED <<groupStack, showHidden, modeVars>>
    BY <1>16 DEF ListReturned
  <2>2. CASE post.kind = "hideCurrent"
    <3>1. currentAlbum' = None /\ UNCHANGED picker
      BY <1>16, <2>2 DEF ListReturned
    <3>2. ~ viewer /\ ~ pickCoverMode
      BY <1>16, <2>2 DEF PostReturns, PostOK
    <3> QED
      BY <2>1, <3>1, <3>2
  <2>3. CASE post.kind # "hideCurrent"
    <3>1. UNCHANGED currentAlbum /\ picker' \in {picker, None}
      BY <1>16, <2>3 DEF ListReturned
    <3> QED
      BY <2>1, <3>1
  <2> QED
    BY <2>2, <2>3
<1>17. CASE PostReturns /\ CoverReturned
  BY <1>17 DEF PostReturns, CoverReturned
<1>18. CASE PostReturns /\ SortReturned
  BY <1>18 DEF PostReturns, SortReturned
<1>19. CASE PostReturns /\ MediaReturned
  BY <1>19 DEF PostReturns, MediaReturned
<1>20. CASE PostFails
  BY <1>20 DEF PostFails
<1>21. CASE ExternalChange
  BY <1>21 DEF ExternalChange
<1>22. CASE ScheduleFilesystemRefresh
  BY <1>22 DEF ScheduleFilesystemRefresh
<1>23. CASE RefreshTimerFires
  BY <1>23 DEF RefreshTimerFires, RefreshFromFilesystem
<1>24. CASE UNCHANGED vars
  BY <1>24 DEF vars
<1> QED
  BY <1>1, <1>2, <1>3, <1>4, <1>5, <1>6, <1>7, <1>8, <1>9, <1>10, <1>11, <1>12, <1>13,
     <1>14, <1>15, <1>16, <1>17, <1>18, <1>19, <1>20, <1>21, <1>22, <1>23, <1>24
  DEF Next, RequestEnds, PostReturns

LEMMA FetchSpins ==
  ASSUME NEW slot, NEW of, NEW known \in BOOLEAN, NEW then, NEW pending,
         Fetch(slot, of, known, then, pending)
  PROVE  loading' \in BOOLEAN /\ refreshing' \in BOOLEAN
BY DEF Fetch

LEMMA LoadsSpin ==
  /\ \A key, pending : LoadAlbums(key, pending) => loading' \in BOOLEAN /\ refreshing' \in BOOLEAN
  /\ \A a, then : LoadMedia(a, then) => loading' \in BOOLEAN /\ refreshing' \in BOOLEAN
  /\ \A p : OpenFolderPickerPath(p) => loading' \in BOOLEAN /\ refreshing' \in BOOLEAN
<1>1. ASSUME NEW key, NEW pending, LoadAlbums(key, pending)
      PROVE  loading' \in BOOLEAN /\ refreshing' \in BOOLEAN
  <2> DEFINE known == (IF albumsContextKey = key THEN albums ELSE listCache[key]) # None
  <2>1. Fetch("albums", key, known, "nothing", pending)
    BY <1>1 DEF LoadAlbums
  <2>2. known \in BOOLEAN
    OBVIOUS
  <2> HIDE DEF known
  <2> QED
    BY <2>1, <2>2, FetchSpins
<1>2. ASSUME NEW a, NEW then, LoadMedia(a, then)
      PROVE  loading' \in BOOLEAN /\ refreshing' \in BOOLEAN
  <2> DEFINE known == mediaReadyFor = a \/ mediaCache[a] # None
  <2>1. Fetch("media", a, known, then, requests)
    BY <1>2 DEF LoadMedia
  <2>2. known \in BOOLEAN
    OBVIOUS
  <2> HIDE DEF known
  <2> QED
    BY <2>1, <2>2, FetchSpins
<1>3. ASSUME NEW p, OpenFolderPickerPath(p)
      PROVE  loading' \in BOOLEAN /\ refreshing' \in BOOLEAN
  <2> DEFINE known == p \in folderCache
  <2>1. Fetch("folders", p, known, "nothing", requests)
    BY <1>3 DEF OpenFolderPickerPath
  <2>2. known \in BOOLEAN
    OBVIOUS
  <2> HIDE DEF known
  <2> QED
    BY <2>1, <2>2, FetchSpins
<1> QED
  BY <1>1, <1>2, <1>3

LEMMA ClickCounts ==
  ASSUME inputs \in 0 .. MaxInputs, Click
  PROVE  inputs' \in 0 .. MaxInputs
BY GalleryAssumption DEF Click

LEMMA CountersStep ==
  ASSUME GInv, [Next]_vars
  PROVE  CountersOK'
<1> USE LoadsSpin, ClickCounts DEF GInv, CountersOK, EndFetch, loadVars, outsideVars
<1>1. ASSUME NEW r \in requests, NEW got \in Answers(r), AlbumsReturn(r, got)
      PROVE  CountersOK'
  BY <1>1 DEF AlbumsReturn
<1>2. ASSUME NEW r \in requests, NEW got \in Answers(r), MediaReturn(r, got)
      PROVE  CountersOK'
  BY <1>2 DEF MediaReturn
<1>3. ASSUME NEW r \in requests, NEW got \in Answers(r), FoldersReturn(r, got)
      PROVE  CountersOK'
  BY <1>3 DEF FoldersReturn
<1>4. ASSUME NEW a \in Albums, OpenAlbum(a) PROVE CountersOK'
  BY <1>4 DEF OpenAlbum
<1>5. ASSUME NEW g \in Groups, OpenGroup(g) PROVE CountersOK'
  BY <1>5 DEF OpenGroup
<1>6. CASE ToggleShowHidden
  BY <1>6 DEF ToggleShowHidden
<1>7. CASE ChangeMode
  BY <1>7 DEF ChangeMode
<1>8. CASE Reload
  <2>1. loading' \in BOOLEAN /\ refreshing' \in BOOLEAN
    <3>1. loading' = (albums' = None) /\ refreshing' = (albums' # None)
      BY <1>8 DEF Reload
    <3> QED
      BY <3>1, Zenon
  <2> QED
    BY <1>8, <2>1, Zenon DEF Reload
<1>9. CASE CloseTopmost
  BY <1>9 DEF CloseTopmost
<1>10. CASE BackInPicker
  <2>1. loading' \in BOOLEAN /\ refreshing' \in BOOLEAN
    BY <1>10 DEF BackInPicker
  <2> QED
    BY <1>10, <2>1 DEF BackInPicker
<1>11. CASE LeaveAlbum
  BY <1>11 DEF LeaveAlbum
<1>12. CASE LeaveGroup
  BY <1>12 DEF LeaveGroup
<1>13. ASSUME NEW p \in Paths, PickFolder(p) PROVE CountersOK'
  BY <1>13 DEF PickFolder
<1>14. ASSUME NEW kind \in PostKinds, SendPost(kind) PROVE CountersOK'
  <2>1. refreshing' = TRUE \/ refreshing' = refreshing
    BY <1>14 DEF SendPost
  <2>2. inputs' \in 0 .. MaxInputs
    BY <1>14 DEF SendPost
  <2>3. UNCHANGED <<loading, outsideVars, missed>>
    BY <1>14 DEF SendPost
  <2> QED
    BY <2>1, <2>2, <2>3
<1>15. CASE PostExecuted
  BY <1>15 DEF PostExecuted
<1>16. CASE PostReturns /\ ListReturned
  BY <1>16 DEF PostReturns, ListReturned
<1>17. CASE PostReturns /\ CoverReturned
  <2>1. loading' \in BOOLEAN /\ refreshing' \in BOOLEAN
    BY <1>17, FetchSpins DEF CoverReturned
  <2> QED
    BY <1>17, <2>1 DEF CoverReturned, PostReturns
<1>18. CASE PostReturns /\ SortReturned
  BY <1>18 DEF PostReturns, SortReturned
<1>19. CASE PostReturns /\ MediaReturned
  BY <1>19 DEF PostReturns, MediaReturned
<1>20. CASE PostFails
  BY <1>20 DEF PostFails
<1>21. CASE ExternalChange
  <2>1. changes' \in 0 .. MaxChanges
    BY <1>21, GalleryAssumption DEF ExternalChange
  <2> QED
    BY <1>21, <2>1 DEF ExternalChange
<1>22. CASE ScheduleFilesystemRefresh
  <2>1. changes' \in 0 .. MaxChanges
    BY <1>22, GalleryAssumption DEF ScheduleFilesystemRefresh
  <2>2. notice' = FALSE \/ notice' = notice
    BY <1>22 DEF ScheduleFilesystemRefresh
  <2> QED
    BY <1>22, <2>1, <2>2 DEF ScheduleFilesystemRefresh
<1>23. CASE RefreshTimerFires
  BY <1>23 DEF RefreshTimerFires, RefreshFromFilesystem
<1>24. CASE UNCHANGED vars
  BY <1>24 DEF vars
<1> QED
  BY <1>1, <1>2, <1>3, <1>4, <1>5, <1>6, <1>7, <1>8, <1>9, <1>10, <1>11, <1>12, <1>13,
     <1>14, <1>15, <1>16, <1>17, <1>18, <1>19, <1>20, <1>21, <1>22, <1>23, <1>24
  DEF Next, RequestEnds, PostReturns

LEMMA FoldersStep ==
  ASSUME GInv, [Next]_vars
  PROVE  FoldersOK'
<1> USE GalleryAssumption DEF GInv, UserOK, RequestsOK, Fresh, Request, FoldersOK,
   Applies, OpenFolderPickerPath, pickerVars
<1>1. ASSUME NEW r \in requests, NEW got \in Answers(r), AlbumsReturn(r, got)
      PROVE  FoldersOK'
  BY <1>1 DEF AlbumsReturn
<1>2. ASSUME NEW r \in requests, NEW got \in Answers(r), MediaReturn(r, got)
      PROVE  FoldersOK'
  BY <1>2 DEF MediaReturn
<1>3. ASSUME NEW r \in requests, NEW got \in Answers(r), FoldersReturn(r, got)
      PROVE  FoldersOK'
  BY <1>3 DEF FoldersReturn
<1>4. ASSUME NEW a \in Albums, OpenAlbum(a) PROVE FoldersOK'
  BY <1>4 DEF OpenAlbum
<1>5. ASSUME NEW g \in Groups, OpenGroup(g) PROVE FoldersOK'
  BY <1>5 DEF OpenGroup
<1>6. CASE ToggleShowHidden
  BY <1>6 DEF ToggleShowHidden
<1>7. CASE ChangeMode
  BY <1>7 DEF ChangeMode
<1>8. CASE Reload
  BY <1>8 DEF Reload
<1>9. CASE CloseTopmost
  BY <1>9 DEF CloseTopmost
<1>10. CASE BackInPicker
  BY <1>10 DEF BackInPicker
<1>11. CASE LeaveAlbum
  BY <1>11 DEF LeaveAlbum
<1>12. CASE LeaveGroup
  BY <1>12 DEF LeaveGroup
<1>13. ASSUME NEW p \in Paths, PickFolder(p) PROVE FoldersOK'
  BY <1>13 DEF PickFolder
<1>14. ASSUME NEW kind \in PostKinds, SendPost(kind) PROVE FoldersOK'
  BY <1>14 DEF SendPost
<1>15. CASE PostExecuted
  BY <1>15 DEF PostExecuted
<1>16. CASE PostReturns /\ ListReturned
  BY <1>16 DEF PostReturns, ListReturned
<1>17. CASE PostReturns /\ CoverReturned
  BY <1>17 DEF PostReturns, CoverReturned
<1>18. CASE PostReturns /\ SortReturned
  BY <1>18 DEF PostReturns, SortReturned
<1>19. CASE PostReturns /\ MediaReturned
  BY <1>19 DEF PostReturns, MediaReturned
<1>20. CASE PostFails
  BY <1>20 DEF PostFails
<1>21. CASE ExternalChange
  BY <1>21 DEF ExternalChange
<1>22. CASE ScheduleFilesystemRefresh
  BY <1>22 DEF ScheduleFilesystemRefresh
<1>23. CASE RefreshTimerFires
  BY <1>23 DEF RefreshTimerFires, RefreshFromFilesystem
<1>24. CASE UNCHANGED vars
  BY <1>24 DEF vars
<1> QED
  BY <1>1, <1>2, <1>3, <1>4, <1>5, <1>6, <1>7, <1>8, <1>9, <1>10, <1>11, <1>12, <1>13,
     <1>14, <1>15, <1>16, <1>17, <1>18, <1>19, <1>20, <1>21, <1>22, <1>23, <1>24
  DEF Next, RequestEnds, PostReturns

-----------------------------------------------------------------------------
(***************************************************************************)
(* Sets of requests.                                                       *)
(***************************************************************************)
LEMMA AbortedOf ==
  ASSUME NEW R, NEW slot, NEW q \in Aborted(slot, R), \A r \in R : Request(r)
  PROVE  /\ Request(q)
         /\ q.slot = slot => ~ q.latest
         /\ \E r \in R : q.slot = r.slot /\ q.of = r.of /\ q.since = r.since /\ q.then = r.then
         /\ q.latest => q \in R /\ q.slot # slot
<1>1. CASE q \in R /\ q.slot # slot
  BY <1>1
<1>2. ASSUME NEW r \in R, r.slot = slot, q = [r EXCEPT !.latest = FALSE]
      PROVE  /\ Request(q) /\ ~ q.latest
             /\ q.slot = r.slot /\ q.of = r.of /\ q.since = r.since /\ q.then = r.then
  <2>1. r = [slot |-> r.slot, of |-> r.of, latest |-> r.latest, since |-> r.since,
             then |-> r.then]
    BY DEF Request
  <2>2. q = [slot |-> r.slot, of |-> r.of, latest |-> FALSE, since |-> r.since,
             then |-> r.then]
    BY <1>2, <2>1
  <2>3. ~ q.latest /\ q.latest \in BOOLEAN /\ q.slot = r.slot /\ q.of = r.of
        /\ q.since = r.since /\ q.then = r.then
    BY <2>2
  <2>4. q = [slot |-> q.slot, of |-> q.of, latest |-> q.latest, since |-> q.since,
             then |-> q.then]
    BY <2>2
  <2> QED
    BY <2>3, <2>4 DEF Request
<1>3. (q \in R /\ q.slot # slot) \/ \E r \in R : r.slot = slot /\ q = [r EXCEPT !.latest = FALSE]
  BY DEF Aborted
<1> QED
  BY <1>1, <1>2, <1>3

Fetched(R, v, slot, of, then) ==
  Aborted(slot, R)
    \cup {[slot |-> slot, of |-> of, latest |-> TRUE, since |-> v[slot], then |-> then]}

(* What is stored of the place is not newer than the server.               *)
Known(slot, of, v, lc, mc) ==
  \/ slot = "albums" /\ of \in Keys /\ (lc[of] # None => lc[of].version <= v["albums"])
  \/ slot = "media" /\ of \in Albums /\ (mc[of] # None => mc[of].version <= v["media"])
  \/ slot = "folders" /\ of \in Paths

LEMMA FetchFresh ==
  ASSUME NEW R, NEW v \in [Slots -> Nat], NEW lc, NEW mc, Fresh(R, v, lc, mc),
         NEW slot, NEW of, NEW then \in {"nothing", "albums"} \cup Albums,
         Known(slot, of, v, lc, mc)
  PROVE  /\ Fresh(Fetched(R, v, slot, of, then), v, lc, mc)
         /\ \A q \in Fetched(R, v, slot, of, then) :
              q.then \in Albums => q.then = then \/ \E r \in R : q.then = r.then
<1> DEFINE R2 == Fetched(R, v, slot, of, then)
<1> DEFINE new == [slot |-> slot, of |-> of, latest |-> TRUE, since |-> v[slot], then |-> then]
<1>1. \A r \in R : Request(r)
  BY DEF Fresh
<1>2. /\ new.slot = slot /\ new.of = of /\ new.latest = TRUE /\ new.since = v[slot]
      /\ new.then = then
  OBVIOUS
<1>3. v[slot] \in Nat
  BY DEF Slots, Known
<1>4. Request(new)
  BY <1>2, <1>3 DEF Request, Known
<1>5. R2 = Aborted(slot, R) \cup {new}
  BY DEF Fetched
<1> HIDE DEF new, R2
<1>6. ASSUME NEW q \in Aborted(slot, R)
      PROVE  /\ Request(q)
             /\ q.slot = slot => ~ q.latest
             /\ q.since <= v[q.slot]
             /\ \E r \in R : q.then = r.then
             /\ q.latest => q \in R
  BY <1>1, <1>6, AbortedOf DEF Fresh
<1>7. ASSUME NEW q \in Aborted(slot, R)
      PROVE  /\ q.slot = "albums" /\ q.latest /\ lc[q.of] # None => lc[q.of].version <= q.since
             /\ q.slot = "media" /\ q.latest /\ mc[q.of] # None => mc[q.of].version <= q.since
  BY <1>6, <1>7 DEF Fresh
<1>8. /\ new.since <= v[new.slot]
      /\ new.slot = "albums" /\ new.latest /\ lc[new.of] # None => lc[new.of].version <= new.since
      /\ new.slot = "media" /\ new.latest /\ mc[new.of] # None => mc[new.of].version <= new.since
  BY <1>2, <1>3 DEF Known
<1>9. \A r, s \in R2 : r.latest /\ s.latest /\ r.slot = s.slot => r = s
  BY <1>2, <1>5, <1>6 DEF Fresh
<1>10. Fresh(R2, v, lc, mc)
  BY <1>4, <1>5, <1>6, <1>7, <1>8, <1>9 DEF Fresh
<1>11. \A q \in R2 : q.then \in Albums => q.then = then \/ \E r \in R : q.then = r.then
  BY <1>2, <1>5, <1>6
<1> QED
  BY <1>10, <1>11 DEF R2

LEMMA FreshGrows ==
  ASSUME NEW R, NEW v \in [Slots -> Nat], NEW v2 \in [Slots -> Nat], NEW lc, NEW mc,
         Fresh(R, v, lc, mc), NEW R2 \in SUBSET R, \A s \in Slots : v[s] <= v2[s]
  PROVE  Fresh(R2, v2, lc, mc)
<1>1. \A r \in R : r.slot \in Slots /\ r.since \in Nat
  BY DEF Fresh, Request, Slots
<1>2. \A r \in R : r.since <= v2[r.slot]
  BY <1>1 DEF Fresh
<1> QED
  BY <1>2 DEF Fresh

LEMMA FreshNoList ==
  ASSUME NEW R, NEW v, NEW lc, NEW mc, Fresh(R, v, lc, mc), NEW lc2,
         NEW R2 \in SUBSET R, \A r \in R2 : r.slot = "albums" => ~ r.latest
  PROVE  Fresh(R2, v, lc2, mc)
BY DEF Fresh

LEMMA FreshNoMedia ==
  ASSUME NEW R, NEW v, NEW lc, NEW mc, Fresh(R, v, lc, mc), NEW mc2,
         NEW R2 \in SUBSET R, \A r \in R2 : r.slot = "media" => ~ r.latest
  PROVE  Fresh(R2, v, lc, mc2)
BY DEF Fresh

-----------------------------------------------------------------------------
(***************************************************************************)
(* What an answer carries, and what a load shows.                          *)
(***************************************************************************)
LEMMA Answered ==
  ASSUME RequestsOK, VersionOK, NEW r \in requests, NEW got \in Answers(r), got # None
  PROVE  /\ got.of = r.of /\ got.version \in Nat
         /\ got = [of |-> got.of, version |-> got.version]
         /\ got.version <= version[r.slot] /\ r.since <= got.version
<1>1. r.slot \in Slots /\ r.since \in Nat /\ version[r.slot] \in Nat
  BY DEF RequestsOK, Fresh, Request, VersionOK, Slots
<1>2. PICK n \in r.since .. version[r.slot] : got = [of |-> r.of, version |-> n]
  BY DEF Answers
<1> QED
  BY <1>1, <1>2

LEMMA ListKept ==
  ASSUME GInv, UNCHANGED listVars, Key' = Key, \A s \in Slots : version[s] <= version'[s],
         VersionOK'
  PROVE  ListOK'
<1>1. \A k \in Keys : listCache[k] # None => listCache[k].version \in Nat
  BY DEF GInv, ListOK, Content
<1>2. version["albums"] \in Nat /\ version'["albums"] \in Nat /\ version["albums"] <= version'["albums"]
  BY DEF GInv, VersionOK, Slots
<1> QED
  BY <1>1, <1>2 DEF GInv, ListOK, listVars

LEMMA ListLoaded ==
  ASSUME GInv, NEW key, NEW pending, LoadAlbums(key, pending), Key' = key, UNCHANGED version
  PROVE  ListOK'
<1>1. albumsContextKey' = key /\ UNCHANGED listCache
  BY DEF LoadAlbums
<1>2. albums' # None => albums' = listCache[key]
  BY DEF LoadAlbums, GInv, ListOK
<1> QED
  BY <1>1, <1>2 DEF GInv, ListOK

LEMMA ListApplied ==
  ASSUME GInv, NEW list, ApplyListPayload(list, Key), albumsContextKey' = Key, Key' = Key,
         UNCHANGED version, list = [of |-> list.of, version |-> list.version],
         list.of = Key, list.version \in Nat, list.version <= version["albums"]
  PROVE  ListOK'
<1>1. Key \in Keys
  BY KeyInKeys DEF GInv
<1>2. albums' = list /\ listCache' = [listCache EXCEPT ![Key] = list]
  BY DEF ApplyListPayload
<1>3. list \in Content(Keys)
  BY <1>1 DEF Content
<1>4. listCache' \in [Keys -> Content(Keys)] /\ listCache'[Key] = list
      /\ \A k \in Keys : k # Key => listCache'[k] = listCache[k]
  BY <1>1, <1>2, <1>3 DEF GInv, ListOK
<1> HIDE DEF Key
<1> QED
  BY <1>1, <1>2, <1>4 DEF GInv, ListOK

LEMMA PayloadOK ==
  ASSUME GInv, post # None, post.kind \in ListPosts
  PROVE  /\ Payload = [of |-> Payload.of, version |-> Payload.version]
         /\ Payload.of = Key
         /\ Payload.version \in Nat /\ Payload.version <= version["albums"]
<1>1. Payload.of = post.of /\ Payload.version = post.done
      /\ Payload = [of |-> Payload.of, version |-> Payload.version]
  BY DEF Payload
<1> QED
  BY <1>1 DEF GInv, PostOK

LEMMA ListStep ==
  ASSUME ~ Overlap, ~ CreateInGroup, GInv, [Next]_vars
  PROVE  ListOK'
<1>0. VersionOK' /\ \A s \in Slots : version[s] <= version'[s]
  BY VersionStep
<1> USE <1>0
<1>1. ASSUME NEW r \in requests, NEW got \in Answers(r), AlbumsReturn(r, got)
      PROVE  ListOK'
  <2>1. Key' = Key /\ UNCHANGED version
    BY <1>1 DEF AlbumsReturn, Key, outsideVars
  <2>2. CASE Applies(r) /\ got # None
    <3>1. ApplyListPayload(got, Key) /\ albumsContextKey' = Key /\ r.of = Key /\ r.slot = "albums"
      BY <1>1, <2>2 DEF AlbumsReturn, Applies
    <3> QED
      BY <2>1, <2>2, <3>1, Answered, ListApplied DEF GInv
  <2>3. CASE ~ (Applies(r) /\ got # None)
    BY <1>1, <2>1, <2>3, ListKept DEF AlbumsReturn
  <2> QED
    BY <2>2, <2>3
<1>2. ASSUME NEW r \in requests, NEW got \in Answers(r), MediaReturn(r, got) PROVE ListOK'
  <2>1. Key' = Key /\ UNCHANGED version
    BY <1>2 DEF MediaReturn, Key, placeVars, outsideVars
  <2>2. CASE r.then = "albums"
    BY <1>2, <2>1, <2>2, ListLoaded DEF MediaReturn
  <2>3. CASE r.then # "albums"
    BY <1>2, <2>1, <2>3, ListKept DEF MediaReturn
  <2> QED
    BY <2>2, <2>3
<1>3. ASSUME NEW r \in requests, NEW got \in Answers(r), FoldersReturn(r, got)
      PROVE  ListOK'
  BY <1>3, ListKept DEF FoldersReturn, Key, placeVars
<1>4. ASSUME NEW a \in Albums, OpenAlbum(a) PROVE ListOK'
  BY <1>4, ListKept DEF OpenAlbum, Key, placeVars
<1>5. ASSUME NEW g \in Groups, OpenGroup(g) PROVE ListOK'
  <2>1. LoadAlbums(KeyOf(<<g>>, showHidden), requests) /\ UNCHANGED version
    BY <1>5 DEF OpenGroup, outsideVars
  <2>2. Key' = KeyOf(<<g>>, showHidden)
    BY <1>5 DEF OpenGroup, Key
  <2> QED
    BY <2>1, <2>2, ListLoaded
<1>6. CASE ToggleShowHidden
  <2>1. LoadAlbums(KeyOf(groupStack, ~ showHidden), requests) /\ UNCHANGED version
    BY <1>6 DEF ToggleShowHidden, outsideVars
  <2>2. Key' = KeyOf(groupStack, ~ showHidden)
    BY <1>6 DEF ToggleShowHidden, Key
  <2> QED
    BY <2>1, <2>2, ListLoaded
<1>7. CASE ChangeMode
  BY <1>7, ListKept DEF ChangeMode, Key, placeVars
<1>8. CASE Reload
  <2>1. Key' = <<Root, FALSE>>
    BY <1>8 DEF Reload, Key, KeyOf
  <2>2. UNCHANGED listCache /\ albums' = listCache[<<Root, FALSE>>]
        /\ albumsContextKey' = <<Root, FALSE>>
    BY <1>8 DEF Reload
  <2>3. \A k \in Keys : listCache[k] # None => listCache[k].version \in Nat
    BY DEF GInv, ListOK, Content
  <2>4. version["albums"] \in Nat /\ version'["albums"] \in Nat
        /\ version["albums"] <= version'["albums"]
    BY <1>0 DEF GInv, VersionOK, Slots
  <2> QED
    BY <2>1, <2>2, <2>3, <2>4 DEF GInv, ListOK
<1>9. CASE CloseTopmost
  BY <1>9, ListKept DEF CloseTopmost, Key, placeVars
<1>10. CASE BackInPicker
  BY <1>10, ListKept DEF BackInPicker, Key, placeVars
<1>11. CASE LeaveAlbum
  <2>1. LoadAlbums(Key, requests) /\ UNCHANGED version
    BY <1>11 DEF LeaveAlbum, outsideVars
  <2>2. Key' = Key
    BY <1>11 DEF LeaveAlbum, Key
  <2> QED
    BY <2>1, <2>2, ListLoaded
<1>12. CASE LeaveGroup
  <2>1. LoadAlbums(KeyOf(groupStack', showHidden), requests) /\ UNCHANGED version
    BY <1>12 DEF LeaveGroup, outsideVars
  <2>2. Key' = KeyOf(groupStack', showHidden)
    BY <1>12 DEF LeaveGroup, Key
  <2> QED
    BY <2>1, <2>2, ListLoaded
<1>13. ASSUME NEW p \in Paths, PickFolder(p) PROVE ListOK'
  BY <1>13, ListKept DEF PickFolder, Key, placeVars
<1>14. ASSUME NEW kind \in PostKinds, SendPost(kind) PROVE ListOK'
  <2>1. UNCHANGED <<listVars, showHidden>> /\ groupStack' = groupStack
    BY <1>14 DEF SendPost, MayPost
  <2> QED
    BY <2>1, ListKept DEF Key
<1>15. CASE PostExecuted
  BY <1>15, ListKept DEF PostExecuted, Key, placeVars
<1>16. CASE PostReturns /\ ListReturned
  <2>1. Key' = Key /\ UNCHANGED version
    BY <1>16 DEF PostReturns, ListReturned, CoverReturned, Key, placeVars, outsideVars
  <2>2. /\ Payload = [of |-> Payload.of, version |-> Payload.version] /\ Payload.of = Key
        /\ Payload.version \in Nat /\ Payload.version <= version["albums"]
    BY <1>16, PayloadOK DEF PostReturns, ListReturned, CoverReturned, ListPosts
  <2>3. ApplyListPayload(Payload, Key) /\ albumsContextKey' = Key
    BY <1>16 DEF ListReturned, GInv, ListOK
  <2> QED
    BY <2>1, <2>2, <2>3, ListApplied
<1>17. CASE PostReturns /\ CoverReturned
  <2>1. Key' = Key /\ UNCHANGED version
    BY <1>17 DEF PostReturns, ListReturned, CoverReturned, Key, placeVars, outsideVars
  <2>2. /\ Payload = [of |-> Payload.of, version |-> Payload.version] /\ Payload.of = Key
        /\ Payload.version \in Nat /\ Payload.version <= version["albums"]
    BY <1>17, PayloadOK DEF PostReturns, ListReturned, CoverReturned, ListPosts
  <2>3. ApplyListPayload(Payload, Key) /\ albumsContextKey' = Key
    BY <1>17 DEF CoverReturned, GInv, ListOK
  <2> QED
    BY <2>1, <2>2, <2>3, ListApplied
<1>18. CASE PostReturns /\ SortReturned
  <2>1. LoadAlbums(Key, requests) /\ UNCHANGED version
    BY <1>18 DEF PostReturns, SortReturned, outsideVars
  <2>2. Key' = Key
    BY <1>18 DEF SortReturned, Key, placeVars
  <2> QED
    BY <2>1, <2>2, ListLoaded
<1>19. CASE PostReturns /\ MediaReturned
  BY <1>19, ListKept DEF PostReturns, MediaReturned, Key, placeVars
<1>20. CASE PostFails
  BY <1>20, ListKept DEF PostFails, Key, placeVars
<1>21. CASE ExternalChange
  BY <1>21, ListKept DEF ExternalChange, Key, placeVars
<1>22. CASE ScheduleFilesystemRefresh
  BY <1>22, ListKept DEF ScheduleFilesystemRefresh, Key, placeVars
<1>23. CASE RefreshTimerFires
  <2>1. Key' = Key /\ UNCHANGED version
    BY <1>23 DEF RefreshTimerFires, Key, placeVars
  <2>2. UNCHANGED listVars \/ LoadAlbums(Key, requests)
    BY <1>23 DEF RefreshTimerFires, RefreshFromFilesystem
  <2> QED
    BY <2>1, <2>2, ListKept, ListLoaded
<1>24. CASE UNCHANGED vars
  BY <1>24, ListKept DEF vars, Key, placeVars
<1> QED
  BY <1>1, <1>2, <1>3, <1>4, <1>5, <1>6, <1>7, <1>8, <1>9, <1>10, <1>11, <1>12, <1>13,
     <1>14, <1>15, <1>16, <1>17, <1>18, <1>19, <1>20, <1>21, <1>22, <1>23, <1>24
  DEF Next, RequestEnds, PostReturns

-----------------------------------------------------------------------------
LEMMA MediaKept ==
  ASSUME GInv, UNCHANGED <<mediaReadyFor, mediaCache>>,
         UNCHANGED <<media, currentAlbum>> \/ media' = None,
         \A s \in Slots : version[s] <= version'[s], VersionOK'
  PROVE  MediaOK'
<1>1. \A a \in Albums : mediaCache[a] # None => mediaCache[a].version \in Nat
  BY DEF GInv, MediaOK, Content
<1>2. version["media"] \in Nat /\ version'["media"] \in Nat /\ version["media"] <= version'["media"]
  BY DEF GInv, VersionOK, Slots
<1> QED
  BY <1>1, <1>2 DEF GInv, MediaOK

LEMMA MediaLoaded ==
  ASSUME GInv, NEW a \in Albums, NEW then, LoadMedia(a, then), currentAlbum' = a,
         UNCHANGED version
  PROVE  MediaOK'
<1>1. UNCHANGED mediaCache /\ mediaReadyFor' \in {a, mediaReadyFor}
  BY DEF LoadMedia
<1>2. media' # None => media' = mediaCache[a] /\ mediaReadyFor' = a
  <2>1. CASE mediaReadyFor = a
    <3>1. media' = media /\ mediaReadyFor' = a
      BY <2>1 DEF LoadMedia
    <3> QED
      BY <2>1, <3>1 DEF GInv, MediaOK
  <2>2. CASE mediaReadyFor # a
    BY <2>2 DEF LoadMedia
  <2> QED
    BY <2>1, <2>2
<1> QED
  BY <1>1, <1>2 DEF GInv, MediaOK

LEMMA MediaStep ==
  ASSUME ~ Overlap, ~ CreateInGroup, GInv, [Next]_vars
  PROVE  MediaOK'
<1>0. VersionOK' /\ \A s \in Slots : version[s] <= version'[s]
  BY VersionStep
<1> USE <1>0
<1>1. ASSUME NEW r \in requests, NEW got \in Answers(r), AlbumsReturn(r, got)
      PROVE  MediaOK'
  <2>1. currentAlbum' = currentAlbum \/ (r.then \in Albums /\ currentAlbum' = r.then)
    BY <1>1 DEF AlbumsReturn
  <2>2. currentAlbum' = currentAlbum
    BY <2>1 DEF GInv, RequestsOK
  <2> QED
    BY <1>1, <2>2, MediaKept DEF AlbumsReturn, mediaVars
<1>2. ASSUME NEW r \in requests, NEW got \in Answers(r), MediaReturn(r, got)
      PROVE  MediaOK'
  <2>1. UNCHANGED <<currentAlbum, version>>
    BY <1>2 DEF MediaReturn, placeVars, outsideVars
  <2>2. CASE Applies(r) /\ got # None
    <3>1. /\ media' = got /\ mediaReadyFor' = r.of
          /\ mediaCache' = [mediaCache EXCEPT ![r.of] = got]
          /\ r.slot = "media" /\ r.of = currentAlbum
      BY <1>2, <2>2 DEF MediaReturn, Applies
    <3>2. r.of \in Albums
      BY <3>1 DEF GInv, RequestsOK, Fresh, Request
    <3>3. /\ got = [of |-> got.of, version |-> got.version] /\ got.of = r.of
          /\ got.version \in Nat /\ got.version <= version["media"]
      BY <2>2, <3>1, Answered DEF GInv
    <3>4. got \in Content(Albums)
      BY <3>2, <3>3 DEF Content
    <3>5. mediaCache' \in [Albums -> Content(Albums)] /\ mediaCache'[r.of] = got
          /\ \A a \in Albums : a # r.of => mediaCache'[a] = mediaCache[a]
      BY <3>1, <3>2, <3>4 DEF GInv, MediaOK
    <3> QED
      BY <2>1, <3>1, <3>2, <3>3, <3>5 DEF GInv, MediaOK
  <2>3. CASE ~ (Applies(r) /\ got # None)
    BY <1>2, <2>1, <2>3, MediaKept DEF MediaReturn, mediaVars
  <2> QED
    BY <2>2, <2>3
<1>3. ASSUME NEW r \in requests, NEW got \in Answers(r), FoldersReturn(r, got)
      PROVE  MediaOK'
  BY <1>3, MediaKept DEF FoldersReturn, mediaVars, placeVars
<1>4. ASSUME NEW a \in Albums, OpenAlbum(a) PROVE MediaOK'
  BY <1>4, MediaLoaded DEF OpenAlbum, outsideVars
<1>5. ASSUME NEW g \in Groups, OpenGroup(g) PROVE MediaOK'
  BY <1>5, MediaKept DEF OpenGroup, mediaVars, placeVars
<1>6. CASE ToggleShowHidden
  BY <1>6, MediaKept DEF ToggleShowHidden, mediaVars, placeVars
<1>7. CASE ChangeMode
  BY <1>7, MediaKept DEF ChangeMode, mediaVars, placeVars
<1>8. CASE Reload
  <2>1. media' = None /\ mediaReadyFor' = None /\ UNCHANGED mediaCache
    BY <1>8 DEF Reload
  <2>2. \A a \in Albums : mediaCache[a] # None => mediaCache[a].version \in Nat
    BY DEF GInv, MediaOK, Content
  <2>3. version["media"] \in Nat /\ version'["media"] \in Nat /\ version["media"] <= version'["media"]
    BY DEF GInv, VersionOK, Slots
  <2> QED
    BY <2>1, <2>2, <2>3 DEF GInv, MediaOK
<1>9. CASE CloseTopmost
  BY <1>9, MediaKept DEF CloseTopmost, mediaVars, placeVars
<1>10. CASE BackInPicker
  BY <1>10, MediaKept DEF BackInPicker, mediaVars, placeVars
<1>11. CASE LeaveAlbum
  BY <1>11, MediaKept DEF LeaveAlbum, mediaVars, placeVars
<1>12. CASE LeaveGroup
  BY <1>12, MediaKept DEF LeaveGroup, mediaVars, placeVars
<1>13. ASSUME NEW p \in Paths, PickFolder(p) PROVE MediaOK'
  BY <1>13, MediaKept DEF PickFolder, mediaVars, placeVars
<1>14. ASSUME NEW kind \in PostKinds, SendPost(kind) PROVE MediaOK'
  <2>1. UNCHANGED mediaVars
    BY <1>14 DEF SendPost
  <2>2. currentAlbum' = currentAlbum
    <3>1. kind = "create" => picker # None /\ currentAlbum' = None
      BY <1>14 DEF SendPost, MayPost
    <3>2. kind # "create" => currentAlbum' = currentAlbum
      BY <1>14 DEF SendPost
    <3> QED
      BY <3>1, <3>2 DEF GInv, UserOK
  <2> QED
    BY <2>1, <2>2, MediaKept DEF mediaVars
<1>15. CASE PostExecuted
  BY <1>15, MediaKept DEF PostExecuted, mediaVars, placeVars
<1>16. CASE PostReturns /\ ListReturned
  <2>1. UNCHANGED <<mediaReadyFor, mediaCache>>
    BY <1>16 DEF ListReturned
  <2>2. UNCHANGED <<media, currentAlbum>> \/ media' = None
    BY <1>16 DEF ListReturned
  <2> QED
    BY <2>1, <2>2, MediaKept
<1>17. CASE PostReturns /\ CoverReturned
  BY <1>17, MediaKept DEF PostReturns, CoverReturned, mediaVars, placeVars
<1>18. CASE PostReturns /\ SortReturned
  BY <1>18, MediaKept DEF PostReturns, SortReturned, mediaVars, placeVars
<1>19. CASE PostReturns /\ MediaReturned
  <2>1. UNCHANGED <<currentAlbum, version>>
    BY <1>19 DEF PostReturns, MediaReturned, placeVars, outsideVars
  <2>2. CASE currentAlbum = None
    BY <1>19, <2>1, <2>2, MediaKept DEF MediaReturned, mediaVars
  <2>3. CASE currentAlbum # None
    <3>1. currentAlbum \in Albums
      BY <2>3 DEF GInv, UserOK
    <3>2. \E then : LoadMedia(currentAlbum, then)
      BY <1>19, <2>3 DEF MediaReturned
    <3> QED
      BY <2>1, <3>1, <3>2, MediaLoaded
  <2> QED
    BY <2>2, <2>3
<1>20. CASE PostFails
  BY <1>20, MediaKept DEF PostFails, mediaVars, placeVars
<1>21. CASE ExternalChange
  BY <1>21, MediaKept DEF ExternalChange, mediaVars, placeVars
<1>22. CASE ScheduleFilesystemRefresh
  BY <1>22, MediaKept DEF ScheduleFilesystemRefresh, mediaVars, placeVars
<1>23. CASE RefreshTimerFires
  <2>1. UNCHANGED <<currentAlbum, version>>
    BY <1>23 DEF RefreshTimerFires, placeVars
  <2>2. UNCHANGED mediaVars \/ (currentAlbum # None /\ LoadMedia(currentAlbum, "nothing"))
    BY <1>23 DEF RefreshTimerFires, RefreshFromFilesystem
  <2>3. currentAlbum # None => currentAlbum \in Albums
    BY DEF GInv, UserOK
  <2> QED
    BY <2>1, <2>2, <2>3, MediaKept, MediaLoaded DEF mediaVars
<1>24. CASE UNCHANGED vars
  BY <1>24, MediaKept DEF vars, mediaVars, placeVars
<1> QED
  BY <1>1, <1>2, <1>3, <1>4, <1>5, <1>6, <1>7, <1>8, <1>9, <1>10, <1>11, <1>12, <1>13,
     <1>14, <1>15, <1>16, <1>17, <1>18, <1>19, <1>20, <1>21, <1>22, <1>23, <1>24
  DEF Next, RequestEnds, PostReturns

-----------------------------------------------------------------------------
(***************************************************************************)
(* A post on its way: one that answers with the list finds what it left.   *)
(***************************************************************************)
LEMMA PostQuiet ==
  ASSUME GInv, UNCHANGED post, post # None => post.kind \notin ListPosts,
         \A s \in Slots : version[s] <= version'[s], VersionOK'
  PROVE  PostOK'
<1>1. version["albums"] \in Nat /\ version'["albums"] \in Nat /\ version["albums"] <= version'["albums"]
  BY DEF GInv, VersionOK, Slots
<1> QED
  BY <1>1 DEF GInv, PostOK, ListPosts

LEMMA PostWaits ==
  ASSUME GInv, UNCHANGED post, Key' = Key, requests' \subseteq requests,
         UNCHANGED <<viewer, pickCoverMode, listCache>>,
         \A s \in Slots : version[s] <= version'[s], VersionOK'
  PROVE  PostOK'
<1>1. version["albums"] \in Nat /\ version'["albums"] \in Nat /\ version["albums"] <= version'["albums"]
  BY DEF GInv, VersionOK, Slots
<1>2. ListSettled => ListSettled'
  BY DEF ListSettled
<1> HIDE DEF Key
<1> QED
  BY <1>1, <1>2 DEF GInv, PostOK

LEMMA PostStep ==
  ASSUME ~ Overlap, ~ CreateInGroup, GInv, [Next]_vars
  PROVE  PostOK'
<1>0. VersionOK' /\ \A s \in Slots : version[s] <= version'[s]
  BY VersionStep
<1> USE <1>0
<1>1. ASSUME NEW r \in requests, NEW got \in Answers(r), AlbumsReturn(r, got)
      PROVE  PostOK'
  <2>1. Key' = Key /\ UNCHANGED <<post, viewer, pickCoverMode>> /\ requests' \subseteq requests
    BY <1>1 DEF AlbumsReturn, Key, modeVars
  <2>2. CASE post # None /\ post.kind \in ListPosts
    <3>1. ~ r.latest /\ r.slot = "albums"
      BY <1>1, <2>2 DEF AlbumsReturn, GInv, PostOK, ListSettled
    <3>2. UNCHANGED listCache
      BY <1>1, <3>1 DEF AlbumsReturn, Applies, listVars
    <3> QED
      BY <2>1, <3>2, PostWaits
  <2>3. CASE ~ (post # None /\ post.kind \in ListPosts)
    BY <2>1, <2>3, PostQuiet
  <2> QED
    BY <2>2, <2>3
<1>2. ASSUME NEW r \in requests, NEW got \in Answers(r), MediaReturn(r, got) PROVE PostOK'
  <2>1. Key' = Key /\ UNCHANGED <<post, viewer, pickCoverMode>>
    BY <1>2 DEF MediaReturn, Key, placeVars, modeVars
  <2>2. CASE post # None /\ post.kind \in ListPosts
    <3>1. r.then = "nothing"
      BY <2>2 DEF GInv, PostOK, ListSettled
    <3>2. UNCHANGED listCache /\ requests' \subseteq requests
      BY <1>2, <3>1 DEF MediaReturn, listVars
    <3> QED
      BY <2>1, <3>2, PostWaits
  <2>3. CASE ~ (post # None /\ post.kind \in ListPosts)
    BY <2>1, <2>3, PostQuiet
  <2> QED
    BY <2>2, <2>3
<1>3. ASSUME NEW r \in requests, NEW got \in Answers(r), FoldersReturn(r, got)
      PROVE  PostOK'
  <2>1. /\ Key' = Key /\ UNCHANGED <<post, viewer, pickCoverMode, listCache>>
        /\ requests' \subseteq requests
    BY <1>3 DEF FoldersReturn, Key, placeVars, modeVars, listVars
  <2> QED
    BY <2>1, PostWaits
<1>4. ASSUME NEW a \in Albums, OpenAlbum(a) PROVE PostOK'
  BY <1>4, ApartQuiet, PostQuiet DEF OpenAlbum, Click
<1>5. ASSUME NEW g \in Groups, OpenGroup(g) PROVE PostOK'
  BY <1>5, ApartQuiet, PostQuiet DEF OpenGroup, Click
<1>6. CASE ToggleShowHidden
  BY <1>6, ApartQuiet, PostQuiet DEF ToggleShowHidden, Click
<1>7. CASE ChangeMode
  BY <1>7, ApartQuiet, PostQuiet DEF ChangeMode, Click
<1>8. CASE Reload
  BY <1>8 DEF Reload, PostOK
<1>9. CASE CloseTopmost
  BY <1>9, ApartQuiet, PostQuiet DEF CloseTopmost, Click
<1>10. CASE BackInPicker
  BY <1>10, ApartQuiet, PostQuiet DEF BackInPicker, Click
<1>11. CASE LeaveAlbum
  BY <1>11, ApartQuiet, PostQuiet DEF LeaveAlbum, Click
<1>12. CASE LeaveGroup
  BY <1>12, ApartQuiet, PostQuiet DEF LeaveGroup, Click
<1>13. ASSUME NEW p \in Paths, PickFolder(p) PROVE PostOK'
  BY <1>13, ApartQuiet, PostQuiet DEF PickFolder, Click
<1>14. ASSUME NEW kind \in PostKinds, SendPost(kind) PROVE PostOK'
  <2>1. UNCHANGED <<showHidden, viewer, pickCoverMode, listCache, requests, version>>
    BY <1>14 DEF SendPost, modeVars, listVars, outsideVars
  <2>2. groupStack' = groupStack /\ Key' = Key
    BY <1>14 DEF SendPost, MayPost, Key
  <2>3. post' = [kind |-> kind, of |-> Key, done |-> 0]
    <3>1. CASE kind = "create"
      <4>1. groupStack = <<>> /\ post' = [kind |-> kind, of |-> <<Root, showHidden>>, done |-> 0]
        BY <1>14, <3>1 DEF SendPost, MayPost
      <4> QED
        BY <4>1 DEF Key, KeyOf
    <3>2. CASE kind # "create"
      BY <1>14, <3>2 DEF SendPost
    <3> QED
      BY <3>1, <3>2
  <2>4. kind \in ListPosts => ListSettled
    BY <1>14 DEF SendPost
  <2>5. ListSettled => ListSettled'
    BY <2>1 DEF ListSettled
  <2>6. kind = "hideCurrent" => ~ viewer /\ ~ pickCoverMode
    BY <1>14 DEF SendPost, MayPost
  <2>7. Key \in Keys /\ version["albums"] \in Nat
    BY KeyInKeys DEF GInv, VersionOK, Slots
  <2> HIDE DEF Key
  <2>8. /\ post'.kind = kind /\ post'.of = Key /\ post'.done = 0
        /\ post' \in [kind : PostKinds, of : Keys, done : Nat]
    BY <2>3, <2>7
  <2> QED
    BY <2>1, <2>2, <2>4, <2>5, <2>6, <2>7, <2>8 DEF PostOK
<1>15. CASE PostExecuted
  <2>1. Key' = Key /\ UNCHANGED <<viewer, pickCoverMode, listCache, requests>>
    BY <1>15 DEF PostExecuted, Key, placeVars, modeVars, listVars, loadVars
  <2>2. post # None /\ post' = [post EXCEPT !.done = version'["albums"]]
    BY <1>15 DEF PostExecuted
  <2>3. version["albums"] \in Nat /\ version'["albums"] \in Nat
        /\ version["albums"] <= version'["albums"]
    BY DEF GInv, VersionOK, Slots
  <2>4. post \in [kind : PostKinds, of : Keys, done : Nat]
    BY <2>2 DEF GInv, PostOK
  <2>5. /\ post' \in [kind : PostKinds, of : Keys, done : Nat]
        /\ post'.kind = post.kind /\ post'.of = post.of /\ post'.done = version'["albums"]
    BY <2>2, <2>3, <2>4
  <2>6. ListSettled => ListSettled'
    BY <2>1 DEF ListSettled
  <2>7. \A k \in Keys : listCache[k] # None => listCache[k].version <= version'["albums"]
    <3>1. \A k \in Keys : listCache[k] # None =>
            listCache[k].version \in Nat /\ listCache[k].version <= version["albums"]
      BY DEF GInv, ListOK, Content
    <3> QED
      BY <2>3, <3>1
  <2> HIDE DEF Key
  <2> QED
    BY <2>1, <2>2, <2>3, <2>5, <2>6, <2>7 DEF GInv, PostOK
<1>16. CASE PostReturns /\ ListReturned
  BY <1>16 DEF PostReturns, PostOK
<1>17. CASE PostReturns /\ CoverReturned
  BY <1>17 DEF PostReturns, PostOK
<1>18. CASE PostReturns /\ SortReturned
  BY <1>18 DEF PostReturns, PostOK
<1>19. CASE PostReturns /\ MediaReturned
  BY <1>19 DEF PostReturns, PostOK
<1>20. CASE PostFails
  BY <1>20 DEF PostFails, PostOK
<1>21. CASE ExternalChange
  <2>1. UNCHANGED <<post, viewer, pickCoverMode, listCache, requests>> /\ Key' = Key
    BY <1>21 DEF ExternalChange, Key, placeVars, modeVars, listVars, loadVars
  <2> QED
    BY <2>1, PostWaits
<1>22. CASE ScheduleFilesystemRefresh
  <2>1. UNCHANGED <<post, viewer, pickCoverMode, listCache, requests>> /\ Key' = Key
    BY <1>22 DEF ScheduleFilesystemRefresh, Key, placeVars, modeVars, listVars, loadVars
  <2> QED
    BY <2>1, PostWaits
<1>23. CASE RefreshTimerFires
  BY <1>23, ApartQuiet, PostQuiet DEF RefreshTimerFires, Click
<1>24. CASE UNCHANGED vars
  <2>1. UNCHANGED <<post, viewer, pickCoverMode, listCache, requests>> /\ Key' = Key
    BY <1>24 DEF vars, Key, placeVars, modeVars, listVars, loadVars
  <2> QED
    BY <2>1, PostWaits
<1> QED
  BY <1>1, <1>2, <1>3, <1>4, <1>5, <1>6, <1>7, <1>8, <1>9, <1>10, <1>11, <1>12, <1>13,
     <1>14, <1>15, <1>16, <1>17, <1>18, <1>19, <1>20, <1>21, <1>22, <1>23, <1>24
  DEF Next, RequestEnds, PostReturns

-----------------------------------------------------------------------------
(***************************************************************************)
(* Requests end, or the next one is sent; the rest of a cover post finds   *)
(* the album it came from.                                                 *)
(***************************************************************************)
Stays == \/ currentAlbum' = currentAlbum /\ post' \in {post, None}
         \/ \A r \in requests : r.then \notin Albums

LEMMA RequestsKept ==
  ASSUME GInv, requests' \subseteq requests, UNCHANGED <<listCache, mediaCache>>, Stays,
         \A s \in Slots : version[s] <= version'[s], VersionOK'
  PROVE  RequestsOK'
<1>1. Fresh(requests', version', listCache, mediaCache)
  BY FreshGrows DEF GInv, RequestsOK, VersionOK
<1>2. \A r \in requests' : r.then \in Albums => r.then = currentAlbum' /\ post' = None
  BY DEF GInv, RequestsOK, Stays
<1> QED
  BY <1>1, <1>2 DEF RequestsOK

LEMMA RequestsFetched ==
  ASSUME GInv, NEW slot, NEW of, NEW known, NEW then \in {"nothing", "albums"},
         NEW pending \in SUBSET requests, Fetch(slot, of, known, then, pending), Stays,
         UNCHANGED <<version, listCache, mediaCache>>,
         \/ slot = "albums" /\ of \in Keys
         \/ slot = "media" /\ of \in Albums
         \/ slot = "folders" /\ of \in Paths
  PROVE  RequestsOK'
<1>1. Fresh(pending, version, listCache, mediaCache) /\ version \in [Slots -> Nat]
  BY DEF GInv, RequestsOK, Fresh, VersionOK
<1>2. requests' = Fetched(pending, version, slot, of, then)
  BY DEF Fetch, Fetched
<1>3. Known(slot, of, version, listCache, mediaCache)
  BY DEF GInv, ListOK, MediaOK, Known
<1>4. /\ Fresh(requests', version, listCache, mediaCache)
      /\ \A q \in requests' : q.then \in Albums => q.then = then \/ \E r \in pending : q.then = r.then
  BY <1>1, <1>2, <1>3, FetchFresh
<1>5. then \notin Albums
  BY GalleryAssumption
<1>6. \A r \in requests' : r.then \in Albums => r.then = currentAlbum' /\ post' = None
  BY <1>4, <1>5 DEF GInv, RequestsOK, Stays
<1> QED
  BY <1>4, <1>6 DEF RequestsOK

LEMMA RequestsLoadAlbums ==
  ASSUME GInv, NEW key \in Keys, NEW pending \in SUBSET requests, LoadAlbums(key, pending), Stays,
         UNCHANGED <<version, mediaCache>>
  PROVE  RequestsOK'
BY RequestsFetched DEF LoadAlbums

LEMMA RequestsLoadMedia ==
  ASSUME GInv, NEW a \in Albums, NEW then \in {"nothing", "albums"}, LoadMedia(a, then), Stays,
         UNCHANGED <<version, listCache>>
  PROVE  RequestsOK'
BY RequestsFetched DEF LoadMedia

LEMMA RequestsPick ==
  ASSUME GInv, NEW p \in Paths, OpenFolderPickerPath(p), Stays,
         UNCHANGED <<version, listCache, mediaCache>>
  PROVE  RequestsOK'
BY RequestsFetched DEF OpenFolderPickerPath

LEMMA ClickStays ==
  ASSUME ~ Overlap, Apart
  PROVE  Stays
BY ApartQuiet DEF Stays

LEMMA RequestsStep ==
  ASSUME ~ Overlap, ~ CreateInGroup, GInv, [Next]_vars
  PROVE  RequestsOK'
<1>0. VersionOK' /\ \A s \in Slots : version[s] <= version'[s]
  BY VersionStep
<1> USE <1>0
<1>1. ASSUME NEW r \in requests, NEW got \in Answers(r), AlbumsReturn(r, got)
      PROVE  RequestsOK'
  <2>1. /\ requests' = requests \ {r} /\ UNCHANGED <<mediaCache, version, post>>
        /\ currentAlbum' = currentAlbum \/ (r.then \in Albums /\ currentAlbum' = r.then)
    BY <1>1 DEF AlbumsReturn, mediaVars, outsideVars
  <2>2. currentAlbum' = currentAlbum
    BY <2>1 DEF GInv, RequestsOK
  <2>3. Stays
    BY <2>1, <2>2 DEF Stays
  <2>4. CASE UNCHANGED listCache
    BY <2>1, <2>3, <2>4, RequestsKept
  <2>5. CASE r.latest /\ r.slot = "albums"
    <3>1. \A s \in requests' : s.slot = "albums" => ~ s.latest
      BY <2>1, <2>5 DEF GInv, RequestsOK, Fresh
    <3>2. Fresh(requests, version, listCache, mediaCache) /\ requests' \in SUBSET requests
      BY <2>1 DEF GInv, RequestsOK
    <3>3. Fresh(requests', version, listCache', mediaCache)
      BY <3>1, <3>2, FreshNoList
    <3> QED
      BY <2>1, <2>2, <3>3 DEF GInv, RequestsOK
  <2> QED
    BY <1>1, <2>4, <2>5 DEF AlbumsReturn, Applies, listVars
<1>2. ASSUME NEW r \in requests, NEW got \in Answers(r), MediaReturn(r, got)
      PROVE  RequestsOK'
  <2>1. UNCHANGED <<currentAlbum, version, post>> /\ r.slot = "media"
    BY <1>2 DEF MediaReturn, placeVars, outsideVars
  <2>2. Stays
    BY <2>1 DEF Stays
  <2>3. CASE UNCHANGED mediaCache
    <3>1. CASE r.then = "albums"
      <4>1. LoadAlbums(Key, requests \ {r}) /\ Key \in Keys
        BY <1>2, <3>1, KeyInKeys DEF MediaReturn, GInv
      <4> QED
        BY <2>1, <2>2, <2>3, <4>1, RequestsLoadAlbums
    <3>2. CASE r.then # "albums"
      <4>1. requests' \subseteq requests /\ UNCHANGED listCache
        BY <1>2, <3>2 DEF MediaReturn, listVars
      <4> QED
        BY <2>1, <2>2, <2>3, <4>1, RequestsKept
    <3> QED
      BY <3>1, <3>2
  <2>4. CASE r.latest
    <3>1. \A s \in requests \ {r} : s.slot = "media" => ~ s.latest
      BY <2>1, <2>4 DEF GInv, RequestsOK, Fresh
    <3>2. Fresh(requests, version, listCache, mediaCache) /\ requests \ {r} \in SUBSET requests
      BY DEF GInv, RequestsOK
    <3>3. Fresh(requests \ {r}, version, listCache, mediaCache')
      BY <3>1, <3>2, FreshNoMedia
    <3>4. CASE r.then = "albums"
      <4>1. LoadAlbums(Key, requests \ {r}) /\ Key \in Keys
        BY <1>2, <3>4, KeyInKeys DEF MediaReturn, GInv
      <4>2. /\ UNCHANGED listCache
            /\ requests' = Fetched(requests \ {r}, version, "albums", Key, "nothing")
        BY <4>1 DEF LoadAlbums, Fetch, Fetched
      <4>3. Known("albums", Key, version, listCache, mediaCache')
        BY <4>1 DEF GInv, ListOK, Known
      <4>4. version \in [Slots -> Nat]
        BY DEF GInv, VersionOK
      <4> HIDE DEF Key
      <4>5. /\ Fresh(requests', version, listCache, mediaCache')
            /\ \A q \in requests' : q.then \in Albums =>
                 q.then = "nothing" \/ \E s \in requests \ {r} : q.then = s.then
        <5> DEFINE pending == requests \ {r}
                   of == Key
                   mc == mediaCache'
        <5>1. /\ Fresh(pending, version, listCache, mc)
              /\ requests' = Fetched(pending, version, "albums", of, "nothing")
              /\ Known("albums", of, version, listCache, mc)
          BY <3>3, <4>2, <4>3
        <5> HIDE DEF pending, of, mc
        <5>2. /\ Fresh(requests', version, listCache, mc)
              /\ \A q \in requests' : q.then \in Albums =>
                   q.then = "nothing" \/ \E s \in pending : q.then = s.then
          BY ONLY <4>4, <5>1, FetchFresh
        <5> QED
          BY <5>2 DEF pending, mc
      <4>6. \A q \in requests' : q.then \in Albums => q.then = currentAlbum' /\ post' = None
        BY <2>1, <4>5, GalleryAssumption DEF GInv, RequestsOK
      <4> QED
        BY <2>1, <4>2, <4>5, <4>6 DEF RequestsOK
    <3>5. CASE r.then # "albums"
      <4>1. requests' = requests \ {r} /\ UNCHANGED listCache
        BY <1>2, <3>5 DEF MediaReturn, listVars
      <4> QED
        BY <2>1, <3>3, <4>1 DEF GInv, RequestsOK
    <3> QED
      BY <3>4, <3>5
  <2> QED
    BY <1>2, <2>3, <2>4 DEF MediaReturn, Applies, mediaVars
<1>3. ASSUME NEW r \in requests, NEW got \in Answers(r), FoldersReturn(r, got)
      PROVE  RequestsOK'
  <2>1. UNCHANGED <<listCache, mediaCache>> /\ requests' \subseteq requests
    BY <1>3 DEF FoldersReturn, listVars, mediaVars
  <2>2. Stays
    BY <1>3 DEF FoldersReturn, Stays, placeVars
  <2> QED
    BY <2>1, <2>2, RequestsKept
<1>4. ASSUME NEW a \in Albums, OpenAlbum(a) PROVE RequestsOK'
  <2>1. LoadMedia(a, "nothing") /\ UNCHANGED <<version, listCache>>
    BY <1>4 DEF OpenAlbum, outsideVars, listVars
  <2> QED
    BY <1>4, <2>1, ClickStays, RequestsLoadMedia DEF OpenAlbum, Click
<1>5. ASSUME NEW g \in Groups, OpenGroup(g) PROVE RequestsOK'
  <2>1. LoadAlbums(KeyOf(<<g>>, showHidden), requests) /\ UNCHANGED <<version, mediaCache>>
    BY <1>5 DEF OpenGroup, outsideVars, mediaVars
  <2>2. Stays
    BY <1>5, ClickStays DEF OpenGroup, Click
  <2>3. KeyOf(<<g>>, showHidden) \in Keys
    BY <1>5, KeyTyped DEF OpenGroup, GInv, UserOK, Key
  <2> QED
    BY <2>1, <2>2, <2>3, RequestsLoadAlbums
<1>6. CASE ToggleShowHidden
  <2>1. LoadAlbums(KeyOf(groupStack, ~ showHidden), requests) /\ UNCHANGED <<version, mediaCache>>
    BY <1>6 DEF ToggleShowHidden, outsideVars, mediaVars
  <2>2. Stays
    BY <1>6, ClickStays DEF ToggleShowHidden, Click
  <2>3. KeyOf(groupStack, ~ showHidden) \in Keys
    BY <1>6, KeyTyped DEF ToggleShowHidden, GInv, UserOK, Key
  <2> QED
    BY <2>1, <2>2, <2>3, RequestsLoadAlbums
<1>7. CASE ChangeMode
  <2>1. UNCHANGED <<requests, listCache, mediaCache>>
    BY <1>7 DEF ChangeMode, loadVars, listVars, mediaVars
  <2>2. Stays
    BY <1>7, ClickStays DEF ChangeMode, Click, Stays, placeVars
  <2> QED
    BY <2>1, <2>2, RequestsKept
<1>8. CASE Reload
  <2>1. UNCHANGED <<listCache, mediaCache>>
        /\ requests' = {[slot |-> "albums", of |-> <<Root, FALSE>>, latest |-> TRUE,
                         since |-> version'["albums"], then |-> "nothing"]}
    BY <1>8 DEF Reload
  <2>2. PICK q : requests' = {q} /\ q = [slot |-> "albums", of |-> <<Root, FALSE>>,
                        latest |-> TRUE, since |-> version'["albums"], then |-> "nothing"]
    BY <2>1
  <2>3. q.slot = "albums" /\ q.of = <<Root, FALSE>> /\ q.latest = TRUE
        /\ q.since = version'["albums"] /\ q.then = "nothing"
    BY <2>2
  <2>4. <<Root, FALSE>> \in Keys
    BY DEF Keys
  <2>5. version["albums"] \in Nat /\ version'["albums"] \in Nat
        /\ version["albums"] <= version'["albums"]
    BY DEF GInv, VersionOK, Slots
  <2>6. Request(q)
    BY <2>2, <2>3, <2>4, <2>5 DEF Request
  <2>7. \A k \in Keys : listCache[k] # None =>
          listCache[k].version \in Nat /\ listCache[k].version <= version["albums"]
    BY DEF GInv, ListOK, Content
  <2>8. listCache[q.of] # None => listCache[q.of].version <= q.since
    BY <2>3, <2>4, <2>5, <2>7
  <2>9. q.since <= version'[q.slot] /\ q.slot # "media"
    BY <2>3, <2>5
  <2>10. Fresh({q}, version', listCache, mediaCache)
    BY <2>6, <2>8, <2>9 DEF Fresh
  <2> QED
    BY <2>1, <2>2, <2>3, <2>10, GalleryAssumption DEF RequestsOK
<1>9. CASE CloseTopmost
  <2>1. UNCHANGED <<requests, listCache, mediaCache>>
    BY <1>9 DEF CloseTopmost, loadVars, listVars, mediaVars
  <2>2. Stays
    BY <1>9, ClickStays DEF CloseTopmost, Click, Stays, placeVars
  <2> QED
    BY <2>1, <2>2, RequestsKept
<1>10. CASE BackInPicker
  <2>1. UNCHANGED <<version, listCache, mediaCache>> /\ Apart
    BY <1>10 DEF BackInPicker, outsideVars, listVars, mediaVars
  <2>2. OpenFolderPickerPath(Top) \/ UNCHANGED requests
    BY <1>10 DEF BackInPicker, loadVars
  <2> QED
    BY <2>1, <2>2, ClickStays, RequestsPick, RequestsKept, GalleryAssumption
<1>11. CASE LeaveAlbum
  <2>1. LoadAlbums(Key, requests) /\ UNCHANGED <<version, mediaCache>>
    BY <1>11 DEF LeaveAlbum, outsideVars, mediaVars
  <2>2. Stays
    BY <1>11, ClickStays DEF LeaveAlbum, Click
  <2>3. Key \in Keys
    BY <1>11, KeyTyped DEF LeaveAlbum, GInv, UserOK, Key
  <2> QED
    BY <2>1, <2>2, <2>3, RequestsLoadAlbums
<1>12. CASE LeaveGroup
  <2>1. LoadAlbums(KeyOf(groupStack', showHidden), requests) /\ UNCHANGED <<version, mediaCache>>
    BY <1>12 DEF LeaveGroup, outsideVars, mediaVars
  <2>2. Stays
    BY <1>12, ClickStays DEF LeaveGroup
  <2>3. KeyOf(groupStack', showHidden) \in Keys
    BY UserStep, KeyTyped DEF GInv, UserOK
  <2> QED
    BY <2>1, <2>2, <2>3, RequestsLoadAlbums
<1>13. ASSUME NEW p \in Paths, PickFolder(p) PROVE RequestsOK'
  <2>1. OpenFolderPickerPath(p) /\ UNCHANGED <<version, listCache, mediaCache>>
    BY <1>13 DEF PickFolder, outsideVars, listVars, mediaVars
  <2> QED
    BY <1>13, <2>1, ClickStays, RequestsPick DEF PickFolder, Click
<1>14. ASSUME NEW kind \in PostKinds, SendPost(kind) PROVE RequestsOK'
  <2>1. UNCHANGED <<requests, listCache, mediaCache>>
    BY <1>14 DEF SendPost, loadVars, listVars, mediaVars
  <2>2. Stays
    BY <1>14, ClickStays DEF SendPost, Click, Stays, placeVars
  <2> QED
    BY <2>1, <2>2, RequestsKept
<1>15. CASE PostExecuted
  <2>1. UNCHANGED <<requests, listCache, mediaCache>>
    BY <1>15 DEF PostExecuted, loadVars, listVars, mediaVars
  <2>2. Stays
    BY <1>15 DEF PostExecuted, GInv, RequestsOK, Stays
  <2> QED
    BY <2>1, <2>2, RequestsKept
<1>16. CASE PostReturns /\ ListReturned
  <2>1. /\ \A r \in requests : (r.slot = "albums" => ~ r.latest) /\ r.then = "nothing"
        /\ post' = None
    BY <1>16 DEF PostReturns, ListReturned, ListPosts, GInv, PostOK, ListSettled
  <2>2. Fresh(requests, version, listCache, mediaCache) /\ requests \in SUBSET requests
    BY DEF GInv, RequestsOK
  <2>3. Fresh(requests, version, listCache', mediaCache)
    BY <2>1, <2>2, FreshNoList
  <2>4. UNCHANGED <<requests, version, mediaCache>>
    BY <1>16 DEF PostReturns, ListReturned, outsideVars
  <2> QED
    BY <2>1, <2>3, <2>4, GalleryAssumption DEF RequestsOK
<1>17. CASE PostReturns /\ CoverReturned
  <2>1. /\ \A r \in requests : (r.slot = "albums" => ~ r.latest) /\ r.then = "nothing"
        /\ post' = None
    BY <1>17 DEF PostReturns, CoverReturned, ListPosts, GInv, PostOK, ListSettled
  <2>2. Fresh(requests, version, listCache, mediaCache) /\ requests \in SUBSET requests
    BY DEF GInv, RequestsOK
  <2>3. Fresh(requests, version, listCache', mediaCache)
    BY <2>1, <2>2, FreshNoList
  <2>4. UNCHANGED <<currentAlbum, version, mediaCache>>
    BY <1>17 DEF PostReturns, CoverReturned, outsideVars, placeVars, mediaVars
  <2>5. CASE currentAlbum = None
    <3>1. UNCHANGED requests
      BY <1>17, <2>5 DEF CoverReturned, loadVars
    <3> QED
      BY <2>1, <2>3, <2>4, <3>1, GalleryAssumption DEF RequestsOK
  <2>6. CASE currentAlbum # None
    <3>1. requests' = Fetched(requests, version, "albums", Key, currentAlbum)
      BY <1>17, <2>6 DEF CoverReturned, Fetch, Fetched
    <3>2. listCache'[Key] # None => listCache'[Key].version <= version["albums"]
      <4>1. listCache'[Key] = Payload
        BY <1>17, KeyInKeys DEF CoverReturned, ApplyListPayload, GInv, ListOK
      <4> QED
        BY <1>17, <4>1, PayloadOK DEF PostReturns, CoverReturned, ListPosts
    <3>3. Key \in Keys /\ currentAlbum \in Albums /\ version \in [Slots -> Nat]
      BY <2>6, KeyInKeys DEF GInv, UserOK, VersionOK
    <3> HIDE DEF Key
    <3>4. /\ Fresh(requests', version, listCache', mediaCache)
          /\ \A q \in requests' : q.then \in Albums =>
               q.then = currentAlbum \/ \E r \in requests : q.then = r.then
      <4>1. Known("albums", Key, version, listCache', mediaCache)
        BY <3>2, <3>3 DEF Known
      <4> DEFINE of == Key
                 lc == listCache'
      <4>2. /\ Fresh(requests, version, lc, mediaCache)
            /\ requests' = Fetched(requests, version, "albums", of, currentAlbum)
            /\ Known("albums", of, version, lc, mediaCache)
            /\ currentAlbum \in {"nothing", "albums"} \cup Albums
        BY <2>3, <3>1, <3>3, <4>1
      <4> HIDE DEF of, lc
      <4>3. /\ Fresh(requests', version, lc, mediaCache)
            /\ \A q \in requests' : q.then \in Albums =>
                 q.then = currentAlbum \/ \E r \in requests : q.then = r.then
        BY ONLY <3>3, <4>2, FetchFresh
      <4> QED
        BY <4>3 DEF lc
    <3> QED
      BY <2>1, <2>4, <3>4, GalleryAssumption DEF RequestsOK
  <2> QED
    BY <2>5, <2>6
<1>18. CASE PostReturns /\ SortReturned
  <2>1. LoadAlbums(Key, requests) /\ UNCHANGED <<version, mediaCache>>
    BY <1>18 DEF PostReturns, SortReturned, outsideVars, mediaVars
  <2>2. Stays
    BY <1>18 DEF PostReturns, SortReturned, Stays, placeVars
  <2>3. Key \in Keys
    BY KeyInKeys DEF GInv
  <2> QED
    BY <2>1, <2>2, <2>3, RequestsLoadAlbums
<1>19. CASE PostReturns /\ MediaReturned
  <2>1. UNCHANGED <<version, listCache>> /\ Stays
    BY <1>19 DEF PostReturns, MediaReturned, outsideVars, listVars, Stays, placeVars
  <2>2. \/ UNCHANGED <<requests, mediaCache>>
        \/ currentAlbum # None /\ LoadMedia(currentAlbum, "albums")
        \/ currentAlbum # None /\ LoadMedia(currentAlbum, "nothing")
    BY <1>19 DEF MediaReturned, loadVars, mediaVars
  <2>3. currentAlbum # None => currentAlbum \in Albums
    BY DEF GInv, UserOK
  <2> QED
    BY <2>1, <2>2, <2>3, RequestsKept, RequestsLoadMedia
<1>20. CASE PostFails
  <2>1. UNCHANGED <<requests, listCache, mediaCache>>
    BY <1>20 DEF PostFails, loadVars, listVars, mediaVars
  <2>2. Stays
    BY <1>20, ClickStays DEF PostFails, Click, Stays, placeVars
  <2> QED
    BY <2>1, <2>2, RequestsKept
<1>21. CASE ExternalChange
  <2>1. UNCHANGED <<requests, listCache, mediaCache>>
    BY <1>21 DEF ExternalChange, loadVars, listVars, mediaVars
  <2>2. Stays
    BY <1>21, ClickStays DEF ExternalChange, Click, Stays, placeVars
  <2> QED
    BY <2>1, <2>2, RequestsKept
<1>22. CASE ScheduleFilesystemRefresh
  <2>1. UNCHANGED <<requests, listCache, mediaCache>>
    BY <1>22 DEF ScheduleFilesystemRefresh, loadVars, listVars, mediaVars
  <2>2. Stays
    BY <1>22, ClickStays DEF ScheduleFilesystemRefresh, Click, Stays, placeVars
  <2> QED
    BY <2>1, <2>2, RequestsKept
<1>23. CASE RefreshTimerFires
  <2>1. UNCHANGED <<version, post>> /\ Stays
    BY <1>23, ClickStays DEF RefreshTimerFires
  <2>2. \/ UNCHANGED <<requests, listCache, mediaCache>>
        \/ /\ picker # None /\ OpenFolderPickerPath(picker) /\ UNCHANGED <<listCache, mediaCache>>
        \/ /\ currentAlbum # None /\ LoadMedia(currentAlbum, "nothing") /\ UNCHANGED listCache
        \/ LoadAlbums(Key, requests) /\ UNCHANGED mediaCache
    BY <1>23 DEF RefreshTimerFires, RefreshFromFilesystem, loadVars, listVars, mediaVars
  <2>3. /\ picker # None => picker \in Paths
        /\ currentAlbum # None => currentAlbum \in Albums
        /\ Key \in Keys
    BY KeyInKeys DEF GInv, UserOK
  <2> QED
    BY <2>1, <2>2, <2>3, RequestsKept, RequestsPick, RequestsLoadMedia, RequestsLoadAlbums
<1>24. CASE UNCHANGED vars
  <2>1. UNCHANGED <<requests, listCache, mediaCache>>
    BY <1>24 DEF vars, loadVars, listVars, mediaVars
  <2>2. Stays
    BY <1>24, ClickStays DEF vars, Click, Stays, placeVars
  <2> QED
    BY <2>1, <2>2, RequestsKept
<1> QED
  BY <1>1, <1>2, <1>3, <1>4, <1>5, <1>6, <1>7, <1>8, <1>9, <1>10, <1>11, <1>12, <1>13,
     <1>14, <1>15, <1>16, <1>17, <1>18, <1>19, <1>20, <1>21, <1>22, <1>23, <1>24
  DEF Next, RequestEnds, PostReturns

-----------------------------------------------------------------------------
LEMMA GalleryInvariant ==
  ASSUME ~ Overlap, ~ CreateInGroup
  PROVE  Spec => []GInv
<1>1. Init => GInv
  <2> SUFFICES ASSUME Init PROVE GInv
    OBVIOUS
  <2>1. Key \in Keys /\ UserOK
    BY KeyTyped DEF Init, UserOK, Key
  <2>2. FoldersOK /\ VersionOK /\ PostOK
    BY DEF Init, FoldersOK, VersionOK, PostOK
  <2>3. CountersOK
    <3>1. 0 \in 0 .. MaxInputs /\ 0 \in 0 .. MaxChanges
      BY GalleryAssumption
    <3> QED
      BY <3>1, Zenon DEF Init, CountersOK
  <2>4. ListOK
    <3>1. None \in Content(Keys)
      BY DEF Content
    <3> QED
      BY <3>1 DEF Init, ListOK
  <2>5. MediaOK
    <3>1. None \in Content(Albums)
      BY DEF Content
    <3> QED
      BY <3>1 DEF Init, MediaOK
  <2>6. RequestsOK
    <3>1. PICK q : requests = {q} /\ q = [slot |-> "albums", of |-> Key, latest |-> TRUE,
                                          since |-> 0, then |-> "nothing"]
      BY DEF Init
    <3> HIDE DEF Key
    <3>2. q.slot = "albums" /\ q.of = Key /\ q.latest = TRUE /\ q.since = 0 /\ q.then = "nothing"
      BY <3>1
    <3>3. Request(q)
      BY <2>1, <3>1, <3>2 DEF Request
    <3>4. version["albums"] = 0 /\ listCache[Key] = None
      BY <2>1 DEF Init, Slots
    <3>5. Fresh(requests, version, listCache, mediaCache)
      BY <3>1, <3>2, <3>3, <3>4 DEF Fresh
    <3> QED
      BY <3>1, <3>2, <3>5, GalleryAssumption DEF RequestsOK
  <2> QED
    BY <2>1, <2>2, <2>3, <2>4, <2>5, <2>6 DEF GInv
<1>2. GInv /\ [Next]_vars => GInv'
  BY UserStep, CountersStep, FoldersStep, ListStep, MediaStep, RequestsStep, PostStep,
     VersionStep
  DEF GInv
<1> QED
  BY <1>1, <1>2, PTL DEF Spec

(***************************************************************************)
(* The shape of the state: a slot has one latest request, and lightbox,    *)
(* cover mode and picker are only over the view they belong to, whatever   *)
(* came back in the meantime.                                              *)
(***************************************************************************)
THEOREM TypeCorrect ==
  ASSUME ~ Overlap, ~ CreateInGroup
  PROVE  Spec => []TypeOK
<1>1. GInv => TypeOK
  <2> SUFFICES ASSUME GInv PROVE TypeOK
    OBVIOUS
  <2>1. Key \in Keys
    BY KeyInKeys DEF GInv
  <2>2. albums \in Content(Keys) /\ albumsContextKey \in Keys /\ listCache \in [Keys -> Content(Keys)]
    BY <2>1 DEF GInv, ListOK, Content
  <2>3. media \in Content(Albums) /\ mediaCache \in [Albums -> Content(Albums)]
    BY DEF GInv, MediaOK, Content
  <2>4. /\ \A r \in requests :
             /\ \/ r.slot = "albums" /\ r.of \in Keys
                \/ r.slot = "media" /\ r.of \in Albums
                \/ r.slot = "folders" /\ r.of \in Paths
             /\ r.latest \in BOOLEAN /\ r.since \in 0 .. version[r.slot]
             /\ r.then \in {"nothing", "albums"} \cup Albums
        /\ \A r, s \in requests : r.latest /\ s.latest /\ r.slot = s.slot => r = s
    <3>1. \A r \in requests : r.slot \in Slots /\ version[r.slot] \in Nat
      BY DEF GInv, RequestsOK, Fresh, Request, VersionOK, Slots
    <3> QED
      BY <3>1 DEF GInv, RequestsOK, Fresh, Request
  <2>5. post = None \/ post \in [kind : PostKinds, of : Keys, done : 0 .. version["albums"]]
    <3>1. version["albums"] \in Nat
      BY DEF GInv, VersionOK, Slots
    <3> QED
      BY <3>1 DEF GInv, PostOK
  <2> QED
    BY <2>2, <2>3, <2>4, <2>5
    DEF TypeOK, GInv, UserOK, CountersOK, FoldersOK, MediaOK, VersionOK
<1> QED
  BY <1>1, GalleryInvariant, PTL

(***************************************************************************)
(* What is shown belongs to where the user is: the list to the open group  *)
(* and the hidden switch, the media to the open album, the folders to the  *)
(* picker's path, however late an answer, a refresh or the rest of a post  *)
(* comes.                                                                  *)
(***************************************************************************)
THEOREM ShownOfPlace ==
  ASSUME ~ Overlap, ~ CreateInGroup
  PROVE  Spec => []ViewOfPlace
<1>1. GInv => ViewOfPlace
  BY KeyInKeys DEF GInv, ListOK, MediaOK, FoldersOK, ViewOfPlace
<1> QED
  BY <1>1, GalleryInvariant, PTL

(***************************************************************************)
(* The session storage holds under a place only what was asked for there,  *)
(* and what is shown is what it would show again after a reload.           *)
(***************************************************************************)
THEOREM StorageKeyed ==
  ASSUME ~ Overlap, ~ CreateInGroup
  PROVE  Spec => []CachesKeyed
<1>1. GInv => CachesKeyed
  BY DEF GInv, ListOK, MediaOK, CachesKeyed
<1> QED
  BY <1>1, GalleryInvariant, PTL

(***************************************************************************)
(* What replaces something stored is younger: an answer was asked for when *)
(* that was stored already, and a post was executed after.                 *)
(***************************************************************************)
LEMMA StoredYounger ==
  ASSUME NEW S, NEW c \in [S -> Content(S)], NEW c2, NEW k \in S, NEW x, c2 = [c EXCEPT ![k] = x],
         c[k] # None => c[k].version <= x.version
  PROVE  \A j \in S : NotOlder(c[j], c2[j])
<1>1. \A j \in S : c[j] # None => c[j].version \in Nat
  BY DEF Content
<1>2. \A j \in S : c2[j] = IF j = k THEN x ELSE c[j]
  OBVIOUS
<1>3. NotOlder(c[k], c2[k])
  BY <1>2 DEF NotOlder
<1>4. ASSUME NEW j \in S, j # k PROVE NotOlder(c[j], c2[j])
  BY <1>1, <1>2, <1>4 DEF NotOlder
<1> QED
  BY <1>3, <1>4

LEMMA StoredSame ==
  ASSUME NEW S, NEW c \in [S -> Content(S)], NEW c2, c2 = c
  PROVE  \A j \in S : NotOlder(c[j], c2[j])
BY DEF Content, NotOlder

LEMMA ListsYounger ==
  ASSUME GInv, [Next]_vars
  PROVE  \A k \in Keys : NotOlder(listCache[k], listCache'[k])
<1>0. Key \in Keys /\ listCache \in [Keys -> Content(Keys)]
  BY KeyInKeys DEF GInv, ListOK
<1>1. ASSUME NEW r \in requests, NEW got \in Answers(r), AlbumsReturn(r, got)
      PROVE  \A k \in Keys : NotOlder(listCache[k], listCache'[k])
  <2>1. CASE Applies(r) /\ got # None
    <3>1. /\ listCache' = [listCache EXCEPT ![Key] = got]
          /\ r.latest /\ r.slot = "albums" /\ r.of = Key
      BY <1>1, <2>1 DEF AlbumsReturn, ApplyListPayload, Applies
    <3>2. r.since <= got.version /\ r.since \in Nat /\ got.version \in Nat
      BY <2>1, Answered DEF GInv, RequestsOK, Fresh, Request
    <3>3. listCache[Key] # None => listCache[Key].version <= r.since /\ listCache[Key].version \in Nat
      BY <1>0, <3>1 DEF GInv, RequestsOK, Fresh, Content
    <3>4. listCache[Key] # None => listCache[Key].version <= got.version
      BY <3>2, <3>3
    <3> HIDE DEF Key
    <3> QED
      BY <1>0, <3>1, <3>4, StoredYounger
  <2>2. CASE ~ (Applies(r) /\ got # None)
    BY <1>1, <1>0, <2>2, StoredSame DEF AlbumsReturn, listVars
  <2> QED
    BY <2>1, <2>2
<1>2. ASSUME NEW r \in requests, NEW got \in Answers(r), MediaReturn(r, got)
      PROVE  \A k \in Keys : NotOlder(listCache[k], listCache'[k])
  BY <1>2, <1>0, StoredSame DEF MediaReturn, listVars, LoadAlbums
<1>3. ASSUME NEW r \in requests, NEW got \in Answers(r), FoldersReturn(r, got)
      PROVE  \A k \in Keys : NotOlder(listCache[k], listCache'[k])
  BY <1>3, <1>0, StoredSame DEF FoldersReturn, listVars, LoadAlbums
<1>4. ASSUME NEW a \in Albums, OpenAlbum(a)
      PROVE  \A k \in Keys : NotOlder(listCache[k], listCache'[k])
  BY <1>4, <1>0, StoredSame DEF OpenAlbum, listVars, LoadAlbums
<1>5. ASSUME NEW g \in Groups, OpenGroup(g)
      PROVE  \A k \in Keys : NotOlder(listCache[k], listCache'[k])
  BY <1>5, <1>0, StoredSame DEF OpenGroup, listVars, LoadAlbums
<1>6. CASE ToggleShowHidden
  BY <1>6, <1>0, StoredSame DEF ToggleShowHidden, listVars, LoadAlbums
<1>7. CASE ChangeMode
  BY <1>7, <1>0, StoredSame DEF ChangeMode, listVars, LoadAlbums
<1>8. CASE Reload
  BY <1>8, <1>0, StoredSame DEF Reload, listVars, LoadAlbums
<1>9. CASE CloseTopmost
  BY <1>9, <1>0, StoredSame DEF CloseTopmost, listVars, LoadAlbums
<1>10. CASE BackInPicker
  BY <1>10, <1>0, StoredSame DEF BackInPicker, listVars, LoadAlbums
<1>11. CASE LeaveAlbum
  BY <1>11, <1>0, StoredSame DEF LeaveAlbum, listVars, LoadAlbums
<1>12. CASE LeaveGroup
  BY <1>12, <1>0, StoredSame DEF LeaveGroup, listVars, LoadAlbums
<1>13. ASSUME NEW p \in Paths, PickFolder(p)
       PROVE  \A k \in Keys : NotOlder(listCache[k], listCache'[k])
  BY <1>13, <1>0, StoredSame DEF PickFolder, listVars, LoadAlbums
<1>14. ASSUME NEW kind \in PostKinds, SendPost(kind)
       PROVE  \A k \in Keys : NotOlder(listCache[k], listCache'[k])
  BY <1>14, <1>0, StoredSame DEF SendPost, listVars, LoadAlbums
<1>15. CASE PostExecuted
  BY <1>15, <1>0, StoredSame DEF PostExecuted, listVars, LoadAlbums
<1>16. CASE PostReturns /\ ListReturned
  <2>1. /\ listCache' = [listCache EXCEPT ![Key] = Payload] /\ Payload.version = post.done
        /\ post # None /\ post.done # 0 /\ post.kind \in ListPosts
    BY <1>16 DEF PostReturns, ListReturned, ApplyListPayload, Payload, ListPosts
  <2>2. listCache[Key] # None => listCache[Key].version <= Payload.version
    BY <1>0, <2>1 DEF GInv, PostOK
  <2> HIDE DEF Key
  <2> QED
    BY <1>0, <2>1, <2>2, StoredYounger
<1>17. CASE PostReturns /\ CoverReturned
  <2>1. /\ listCache' = [listCache EXCEPT ![Key] = Payload] /\ Payload.version = post.done
        /\ post # None /\ post.done # 0 /\ post.kind \in ListPosts
    BY <1>17 DEF PostReturns, CoverReturned, ApplyListPayload, Payload, ListPosts
  <2>2. listCache[Key] # None => listCache[Key].version <= Payload.version
    BY <1>0, <2>1 DEF GInv, PostOK
  <2> HIDE DEF Key
  <2> QED
    BY <1>0, <2>1, <2>2, StoredYounger
<1>18. CASE PostReturns /\ SortReturned
  BY <1>18, <1>0, StoredSame DEF SortReturned, listVars, LoadAlbums
<1>19. CASE PostReturns /\ MediaReturned
  BY <1>19, <1>0, StoredSame DEF MediaReturned, listVars, LoadAlbums
<1>20. CASE PostFails
  BY <1>20, <1>0, StoredSame DEF PostFails, listVars, LoadAlbums
<1>21. CASE ExternalChange
  BY <1>21, <1>0, StoredSame DEF ExternalChange, listVars, LoadAlbums
<1>22. CASE ScheduleFilesystemRefresh
  BY <1>22, <1>0, StoredSame DEF ScheduleFilesystemRefresh, listVars, LoadAlbums
<1>23. CASE RefreshTimerFires
  BY <1>23, <1>0, StoredSame
  DEF RefreshTimerFires, RefreshFromFilesystem, listVars, LoadAlbums
<1>24. CASE UNCHANGED vars
  BY <1>24, <1>0, StoredSame DEF vars, listVars, LoadAlbums
<1> QED
  BY <1>1, <1>2, <1>3, <1>4, <1>5, <1>6, <1>7, <1>8, <1>9, <1>10, <1>11, <1>12, <1>13,
     <1>14, <1>15, <1>16, <1>17, <1>18, <1>19, <1>20, <1>21, <1>22, <1>23, <1>24
  DEF Next, RequestEnds, PostReturns

LEMMA MediaYounger ==
  ASSUME GInv, [Next]_vars
  PROVE  \A b \in Albums : NotOlder(mediaCache[b], mediaCache'[b])
<1>0. mediaCache \in [Albums -> Content(Albums)]
  BY DEF GInv, MediaOK
<1>1. ASSUME NEW r \in requests, NEW got \in Answers(r), AlbumsReturn(r, got)
      PROVE  \A b \in Albums : NotOlder(mediaCache[b], mediaCache'[b])
  BY <1>1, <1>0, StoredSame DEF AlbumsReturn, mediaVars, LoadMedia
<1>2. ASSUME NEW r \in requests, NEW got \in Answers(r), MediaReturn(r, got)
      PROVE  \A b \in Albums : NotOlder(mediaCache[b], mediaCache'[b])
  <2>1. CASE Applies(r) /\ got # None
    <3>1. /\ mediaCache' = [mediaCache EXCEPT ![r.of] = got]
          /\ r.latest /\ r.slot = "media"
      BY <1>2, <2>1 DEF MediaReturn, Applies
    <3>2. r.since <= got.version /\ r.since \in Nat /\ got.version \in Nat /\ r.of \in Albums
      BY <2>1, <3>1, Answered DEF GInv, RequestsOK, Fresh, Request
    <3>3. mediaCache[r.of] # None =>
            mediaCache[r.of].version <= r.since /\ mediaCache[r.of].version \in Nat
      BY <1>0, <3>1, <3>2 DEF GInv, RequestsOK, Fresh, Content
    <3>4. mediaCache[r.of] # None => mediaCache[r.of].version <= got.version
      BY <3>2, <3>3
    <3> QED
      BY <1>0, <3>1, <3>2, <3>4, StoredYounger
  <2>2. CASE ~ (Applies(r) /\ got # None)
    BY <1>2, <1>0, <2>2, StoredSame DEF MediaReturn, mediaVars
  <2> QED
    BY <2>1, <2>2
<1>3. ASSUME NEW r \in requests, NEW got \in Answers(r), FoldersReturn(r, got)
      PROVE  \A b \in Albums : NotOlder(mediaCache[b], mediaCache'[b])
  BY <1>3, <1>0, StoredSame DEF FoldersReturn, mediaVars, LoadMedia
<1>4. ASSUME NEW a \in Albums, OpenAlbum(a)
      PROVE  \A b \in Albums : NotOlder(mediaCache[b], mediaCache'[b])
  BY <1>4, <1>0, StoredSame DEF OpenAlbum, mediaVars, LoadMedia
<1>5. ASSUME NEW g \in Groups, OpenGroup(g)
      PROVE  \A b \in Albums : NotOlder(mediaCache[b], mediaCache'[b])
  BY <1>5, <1>0, StoredSame DEF OpenGroup, mediaVars, LoadMedia
<1>6. CASE ToggleShowHidden
  BY <1>6, <1>0, StoredSame DEF ToggleShowHidden, mediaVars, LoadMedia
<1>7. CASE ChangeMode
  BY <1>7, <1>0, StoredSame DEF ChangeMode, mediaVars, LoadMedia
<1>8. CASE Reload
  BY <1>8, <1>0, StoredSame DEF Reload, mediaVars, LoadMedia
<1>9. CASE CloseTopmost
  BY <1>9, <1>0, StoredSame DEF CloseTopmost, mediaVars, LoadMedia
<1>10. CASE BackInPicker
  BY <1>10, <1>0, StoredSame DEF BackInPicker, mediaVars, LoadMedia
<1>11. CASE LeaveAlbum
  BY <1>11, <1>0, StoredSame DEF LeaveAlbum, mediaVars, LoadMedia
<1>12. CASE LeaveGroup
  BY <1>12, <1>0, StoredSame DEF LeaveGroup, mediaVars, LoadMedia
<1>13. ASSUME NEW p \in Paths, PickFolder(p)
       PROVE  \A b \in Albums : NotOlder(mediaCache[b], mediaCache'[b])
  BY <1>13, <1>0, StoredSame DEF PickFolder, mediaVars, LoadMedia
<1>14. ASSUME NEW kind \in PostKinds, SendPost(kind)
       PROVE  \A b \in Albums : NotOlder(mediaCache[b], mediaCache'[b])
  BY <1>14, <1>0, StoredSame DEF SendPost, mediaVars, LoadMedia
<1>15. CASE PostExecuted
  BY <1>15, <1>0, StoredSame DEF PostExecuted, mediaVars, LoadMedia
<1>16. CASE PostReturns /\ ListReturned
  BY <1>16, <1>0, StoredSame DEF ListReturned, mediaVars, LoadMedia
<1>17. CASE PostReturns /\ CoverReturned
  BY <1>17, <1>0, StoredSame DEF CoverReturned, mediaVars, LoadMedia
<1>18. CASE PostReturns /\ SortReturned
  BY <1>18, <1>0, StoredSame DEF SortReturned, mediaVars, LoadMedia
<1>19. CASE PostReturns /\ MediaReturned
  BY <1>19, <1>0, StoredSame DEF MediaReturned, mediaVars, LoadMedia
<1>20. CASE PostFails
  BY <1>20, <1>0, StoredSame DEF PostFails, mediaVars, LoadMedia
<1>21. CASE ExternalChange
  BY <1>21, <1>0, StoredSame DEF ExternalChange, mediaVars, LoadMedia
<1>22. CASE ScheduleFilesystemRefresh
  BY <1>22, <1>0, StoredSame DEF ScheduleFilesystemRefresh, mediaVars, LoadMedia
<1>23. CASE RefreshTimerFires
  BY <1>23, <1>0, StoredSame
  DEF RefreshTimerFires, RefreshFromFilesystem, mediaVars, LoadMedia
<1>24. CASE UNCHANGED vars
  BY <1>24, <1>0, StoredSame DEF vars, mediaVars, LoadMedia
<1> QED
  BY <1>1, <1>2, <1>3, <1>4, <1>5, <1>6, <1>7, <1>8, <1>9, <1>10, <1>11, <1>12, <1>13,
     <1>14, <1>15, <1>16, <1>17, <1>18, <1>19, <1>20, <1>21, <1>22, <1>23, <1>24
  DEF Next, RequestEnds, PostReturns

(***************************************************************************)
(* For one place nothing older follows: neither on the screen nor in the   *)
(* session storage is a newer state of the server replaced by an older one.*)
(***************************************************************************)
THEOREM NothingOlder ==
  ASSUME ~ Overlap, ~ CreateInGroup
  PROVE  Spec => NeverOlder
<1>1. ASSUME GInv, GInv', [Next]_vars
      PROVE  /\ NotOlder(albums, albums') /\ NotOlder(media, media')
             /\ \A k \in Keys : NotOlder(listCache[k], listCache'[k])
             /\ \A a \in Albums : NotOlder(mediaCache[a], mediaCache'[a])
  <2>1. \A k \in Keys : NotOlder(listCache[k], listCache'[k])
    BY <1>1, ListsYounger
  <2>2. \A a \in Albums : NotOlder(mediaCache[a], mediaCache'[a])
    BY <1>1, MediaYounger
  <2>3. NotOlder(albums, albums')
    <3> SUFFICES ASSUME albums # None, albums' # None, albums.of = albums'.of
                 PROVE  albums.version <= albums'.version
      BY DEF NotOlder
    <3>1. Key \in Keys /\ Key' \in Keys
      BY <1>1, KeyTyped DEF GInv, UserOK, Key
    <3>2. albums = listCache[Key] /\ albums.of = Key
      BY <1>1, <3>1 DEF GInv, ListOK
    <3>3. albums' = listCache'[Key'] /\ albums'.of = Key'
      BY <1>1, <3>1 DEF GInv, ListOK
    <3> HIDE DEF Key
    <3> QED
      BY <2>1, <3>1, <3>2, <3>3 DEF NotOlder
  <2>4. NotOlder(media, media')
    <3> SUFFICES ASSUME media # None, media' # None, media.of = media'.of
                 PROVE  media.version <= media'.version
      BY DEF NotOlder
    <3>1. /\ currentAlbum \in Albums /\ currentAlbum' \in Albums
          /\ media = mediaCache[currentAlbum] /\ media' = mediaCache'[currentAlbum']
          /\ media.of = currentAlbum /\ media'.of = currentAlbum'
      BY <1>1 DEF GInv, MediaOK
    <3> QED
      BY <2>2, <3>1 DEF NotOlder
  <2> QED
    BY <2>1, <2>2, <2>3, <2>4
<1>2. GInv /\ GInv' /\ [Next]_vars =>
        [/\ NotOlder(albums, albums') /\ NotOlder(media, media')
         /\ \A k \in Keys : NotOlder(listCache[k], listCache'[k])
         /\ \A a \in Albums : NotOlder(mediaCache[a], mediaCache'[a])]_vars
  BY <1>1
<1> QED
  BY <1>2, GalleryInvariant, PTL DEF Spec, NeverOlder
=============================================================================
