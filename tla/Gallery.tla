------------------------------ MODULE Gallery ------------------------------
(***************************************************************************)
(* The Gallery page (apps/gallery/src/GalleryApp.vue): a list of albums and *)
(* groups, the media of one album, and a folder picker, each loaded by its  *)
(* own kind of request, kept in a view cache of the browser session, changed*)
(* by posts, and refreshed when a Files tab reports a change                *)
(* (apps/gallery/src/files-sync.js).                                        *)
(*                                                                          *)
(* What the server holds is a version of the lists and one of the media; a  *)
(* content is the place it was asked for and a version, and an answer       *)
(* carries a version between that of its sending and that of its arrival.   *)
(* Which albums a list holds, selections of albums, the order of the media, *)
(* columns, names, messages, the steps inside the lightbox, and what drag   *)
(* and drop adds to a post are left out; the session storage has room.      *)
(***************************************************************************)
EXTENDS Naturals, Sequences

CONSTANTS Albums, Groups,    \* ids
          Paths, Top,        \* folders of the picker, Top among them
          Root,              \* the place outside all groups
          None,              \* no album, no picker, no post, an empty view
          Overlap,           \* posts that answer with the list overlap loads and clicks
          CreateInGroup,     \* an album is created while a group is open
          MaxInputs,         \* bound: clicks, but those that go back or change the mode
          MaxChanges         \* bound: changes and wake-ups from outside

ASSUME GalleryAssumption ==
  /\ Top \in Paths
  /\ None \notin Albums \cup Groups \cup Paths \cup {Root}
  /\ Root \notin Groups
  /\ "albums" \notin Albums /\ "nothing" \notin Albums
  /\ Overlap \in BOOLEAN /\ CreateInGroup \in BOOLEAN
  /\ MaxInputs \in Nat /\ MaxChanges \in Nat

VARIABLES
  groupStack, showHidden, currentAlbum,          \* where the user is
  viewer, pickCoverMode, selecting, picker,      \* lightbox, modes, picker's path
  albums, albumsContextKey,                      \* the list, and its place
  media, mediaReadyFor,                          \* the media, and their album
  folders,                                       \* the picker's folders: of which path
  listCache, mediaCache, folderCache,            \* sessionStorage
  requests, post,                                \* what is on its way
  loading, refreshing,                           \* the two spinners
  version,                                       \* the server
  notice, refreshTimer,                          \* a Files tab reports a change
  missed,                                        \* auxiliary: a refresh was given up
  inputs, changes                                \* counters for the bounds

placeVars == <<groupStack, showHidden, currentAlbum>>
modeVars == <<viewer, pickCoverMode, selecting>>
listVars == <<albums, albumsContextKey, listCache>>
mediaVars == <<media, mediaReadyFor, mediaCache>>
pickerVars == <<picker, folders, folderCache>>
loadVars == <<requests, loading, refreshing>>
outsideVars == <<version, notice, refreshTimer, changes>>
vars == <<placeVars, modeVars, listVars, mediaVars, pickerVars, loadVars, post,
          outsideVars, missed, inputs>>

(* A post that answers with the list, one after which the list is loaded,   *)
(* and those after which the media are loaded (deletion stands for moving). *)
ListPosts == {"list", "hideCurrent", "create", "cover"}
PostKinds == ListPosts \cup {"sort", "delete", "favorite"}

(* parentGroupId and albumsCacheKey: the place a list belongs to. *)
Keys == (Groups \cup {Root}) \X BOOLEAN
KeyOf(stack, hidden) == <<IF stack = <<>> THEN Root ELSE stack[Len(stack)], hidden>>
Key == KeyOf(groupStack, showHidden)

Slots == {"albums", "media", "folders"}
Content(S) == [of : S, version : Nat] \cup {None}

(* What changes the files changes the lists too. *)
Changed(slots) == [s \in Slots |-> IF s \in slots THEN version[s] + 1 ELSE version[s]]
ChangedBy(kind) ==
  Changed(IF kind \in {"delete", "favorite"} THEN {"albums", "media"} ELSE {"albums"})

-----------------------------------------------------------------------------
(* Loading *)

(* startRequest: the request before in the slot is aborted, and of it only  *)
(* remains what its caller does next.                                       *)
\* Mutant: the request before goes on.
NotAborted(slot, pending) == pending

Aborted(slot, pending) ==
  {r \in pending : r.slot # slot}
    \cup {[r EXCEPT !.latest = FALSE] : r \in {q \in pending : q.slot = slot /\ q.then # "nothing"}}

(* startRequest and beginFetch. known: there is something to show. *)
Fetch(slot, of, known, then, pending) ==
  /\ requests' = Aborted(slot, pending)
       \cup {[slot |-> slot, of |-> of, latest |-> TRUE, since |-> version[slot], then |-> then]}
  /\ loading' = ~ known
  /\ refreshing' = known

(* loadAlbums at the place key: a list of another place gives way to what   *)
(* the cache has of this one, until the answer comes.                       *)
LoadAlbums(key, pending) ==
  LET shown == IF albumsContextKey = key THEN albums ELSE listCache[key]
  IN /\ albums' = shown
     /\ albumsContextKey' = key
     /\ UNCHANGED listCache
     /\ Fetch("albums", key, shown # None, "nothing", pending)

(* loadMedia: what is there for this album, or its cache, or nothing. *)
LoadMedia(a, then) ==
  LET known == mediaReadyFor = a \/ mediaCache[a] # None
  IN /\ media' = IF mediaReadyFor = a THEN media ELSE mediaCache[a]
     /\ mediaReadyFor' = IF known THEN a ELSE mediaReadyFor
     /\ UNCHANGED mediaCache
     /\ Fetch("media", a, known, then, requests)

(* openFolderPickerPath *)
OpenFolderPickerPath(p) ==
  /\ picker' = p
  /\ folders' = IF p \in folderCache THEN p ELSE None
  /\ UNCHANGED folderCache
  /\ Fetch("folders", p, p \in folderCache, "nothing", requests)

(* applyListPayload: a list is shown, and cached under the user's place. *)
\* Mutant: the list is not written to the session storage.
ApplyListUncached(list, key) ==
  /\ albums' = list
  /\ UNCHANGED listCache

ApplyListPayload(list, key) ==
  /\ albums' = list
  /\ listCache' = [listCache EXCEPT ![key] = list]

(* The answer is applied: nothing was asked since, and the user is still    *)
(* where it was asked for.                                                  *)
\* Mutant: the media are shown without a look at the album that is open.
AppliesAnywhere(r) ==
  /\ r.latest
  /\ r.slot = "albums" => r.of = Key
  /\ r.slot = "folders" => picker # None

Applies(r) ==
  /\ r.latest
  /\ r.slot = "albums" => r.of = Key
  /\ r.slot = "media" => r.of = currentAlbum
  /\ r.slot = "folders" => picker # None

(* endFetch *)
\* Mutant: the spinners are reset only where the answer may be applied.
EndFetchIfApplied(r) ==
  /\ loading' = (loading /\ ~ Applies(r))
  /\ refreshing' = (refreshing /\ ~ Applies(r))

EndFetch(r) ==
  /\ loading' = (loading /\ ~ r.latest)
  /\ refreshing' = (refreshing /\ ~ r.latest)

(* What a request may come back with; None: it failed or was aborted. *)
Answers(r) ==
  {[of |-> r.of, version |-> v] : v \in {n \in r.since .. version[r.slot] : r.latest}} \cup {None}

(* loadAlbums after its await, and what onMediaClick does next when a cover *)
(* was set: it shows that album again if the list still has it.             *)
AlbumsReturn(r, got) ==
  /\ r.slot = "albums"
  /\ IF Applies(r) /\ got # None
       THEN ApplyListPayload(got, Key) /\ albumsContextKey' = r.of
       ELSE UNCHANGED listVars
  /\ requests' = requests \ {r}
  /\ EndFetch(r)
  /\ \/ UNCHANGED currentAlbum
     \/ r.then \in Albums /\ currentAlbum' = r.then
  /\ missed' = (missed \/ (got = None /\ r.latest /\ currentAlbum = None))
  /\ UNCHANGED <<groupStack, showHidden, modeVars, mediaVars, pickerVars, post,
                 outsideVars, inputs>>

(* loadMedia after its await, and the loadAlbums of deleteSelected,         *)
(* promptMoveSelected and favoriteSelected that follows however it ended.   *)
MediaReturn(r, got) ==
  /\ r.slot = "media"
  /\ IF Applies(r) /\ got # None
       THEN /\ media' = got
            /\ mediaReadyFor' = r.of
            /\ mediaCache' = [mediaCache EXCEPT ![r.of] = got]
       ELSE UNCHANGED mediaVars
  /\ IF r.then = "albums"
       THEN LoadAlbums(Key, requests \ {r})
       ELSE /\ requests' = requests \ {r}
            /\ EndFetch(r)
            /\ UNCHANGED listVars
  /\ missed' = (missed \/ (got = None /\ r.latest /\ r.of = currentAlbum))
  /\ UNCHANGED <<placeVars, modeVars, pickerVars, post, outsideVars, inputs>>

(* openFolderPickerPath after its await; foldersRequestPath is the path of  *)
(* the latest request.                                                      *)
FoldersReturn(r, got) ==
  /\ r.slot = "folders"
  /\ IF Applies(r) /\ got # None
       THEN picker' = r.of /\ folders' = r.of /\ folderCache' = folderCache \cup {r.of}
       ELSE UNCHANGED pickerVars
  /\ requests' = requests \ {r}
  /\ EndFetch(r)
  /\ UNCHANGED <<placeVars, modeVars, listVars, mediaVars, post, outsideVars, missed, inputs>>

RequestEnds ==
  \E r \in requests : \E got \in Answers(r) :
    AlbumsReturn(r, got) \/ MediaReturn(r, got) \/ FoldersReturn(r, got)

-----------------------------------------------------------------------------
(* The user *)

(* Unless Overlap, nobody clicks, and no refresh is due, between a post that*)
(* answers with the list and the end of what it starts.                     *)
Apart ==
  \/ Overlap
  \/ ~ \/ post # None /\ post.kind \in ListPosts
       \/ \E r \in requests : r.then \in Albums

Click == inputs < MaxInputs /\ Apart /\ inputs' = inputs + 1

(* Neither lightbox nor picker nor the cover mode covers list and media. *)
Uncovered == ~ viewer /\ picker = None /\ ~ pickCoverMode

(* goBack has nothing to undo before it leaves the album or group. *)
\* Mutant: it looks at the album before the cover mode.
NothingButCover == ~ viewer /\ picker = None /\ ~ selecting

NothingOpen == Uncovered /\ ~ selecting

(* openAlbum: a tile of the list shown. *)
OpenAlbum(a) ==
  /\ Click /\ Uncovered /\ currentAlbum = None /\ albums # None
  /\ currentAlbum' = a
  /\ selecting' = FALSE
  /\ LoadMedia(a, "nothing")
  /\ missed' = FALSE
  /\ UNCHANGED <<groupStack, showHidden, viewer, pickCoverMode, listVars, pickerVars, post,
                 outsideVars>>

(* openAlbum: a tile of a group; there are no groups in groups. *)
OpenGroup(g) ==
  /\ Click /\ Uncovered /\ currentAlbum = None /\ albums # None /\ groupStack = <<>>
  /\ groupStack' = <<g>>
  /\ selecting' = FALSE
  /\ LoadAlbums(KeyOf(<<g>>, showHidden), requests)
  /\ missed' = FALSE
  /\ UNCHANGED <<showHidden, currentAlbum, viewer, pickCoverMode, mediaVars, pickerVars, post,
                 outsideVars>>

ToggleShowHidden ==
  /\ Click /\ Uncovered /\ currentAlbum = None
  /\ showHidden' = ~ showHidden
  /\ LoadAlbums(KeyOf(groupStack, ~ showHidden), requests)
  /\ missed' = FALSE
  /\ UNCHANGED <<groupStack, currentAlbum, modeVars, mediaVars, pickerVars, post, outsideVars>>

(* goBack: it undoes the topmost of what is open. *)
CloseTopmost ==
  /\ Apart
  /\ picker = None
  /\ \/ viewer /\ viewer' = FALSE /\ UNCHANGED <<pickCoverMode, selecting>>
     \/ ~ viewer /\ pickCoverMode /\ pickCoverMode' = FALSE /\ UNCHANGED <<viewer, selecting>>
     \/ /\ ~ viewer /\ ~ pickCoverMode /\ selecting
        /\ selecting' = FALSE
        /\ UNCHANGED <<viewer, pickCoverMode>>
  /\ UNCHANGED <<placeVars, listVars, mediaVars, pickerVars, loadVars, post, outsideVars,
                 missed, inputs>>

(* goBack in the picker: to the parent, or it is closed (closeFolderPicker).*)
BackInPicker ==
  /\ Apart
  /\ picker # None
  /\ IF picker # Top
       THEN OpenFolderPickerPath(Top)
       ELSE picker' = None /\ folders' = None /\ UNCHANGED <<folderCache, loadVars>>
  /\ UNCHANGED <<placeVars, modeVars, listVars, mediaVars, post, outsideVars, missed, inputs>>

LeaveAlbum ==
  /\ Apart /\ NothingOpen /\ currentAlbum # None
  /\ currentAlbum' = None
  /\ media' = None
  /\ LoadAlbums(Key, requests)
  /\ missed' = FALSE
  /\ UNCHANGED <<groupStack, showHidden, modeVars, mediaReadyFor, mediaCache, pickerVars,
                 post, outsideVars, inputs>>

LeaveGroup ==
  /\ Apart /\ NothingOpen /\ currentAlbum = None /\ groupStack # <<>>
  /\ groupStack' = SubSeq(groupStack, 1, Len(groupStack) - 1)
  /\ LoadAlbums(KeyOf(groupStack', showHidden), requests)
  /\ missed' = FALSE
  /\ UNCHANGED <<showHidden, currentAlbum, modeVars, mediaVars, pickerVars, post,
                 outsideVars, inputs>>

(* openViewer with the lightbox of the page, startPickCover, and            *)
(* toggleMediaSelect, after which something is selected.                    *)
ChangeMode ==
  /\ Apart /\ Uncovered /\ currentAlbum # None
  /\ \/ media # None /\ ~ selecting /\ viewer' = TRUE /\ UNCHANGED <<pickCoverMode, selecting>>
     \/ pickCoverMode' = TRUE /\ selecting' = FALSE /\ UNCHANGED viewer
     \/ media # None /\ ~ selecting /\ selecting' = TRUE /\ UNCHANGED <<viewer, pickCoverMode>>
  /\ UNCHANGED <<placeVars, listVars, mediaVars, pickerVars, loadVars, post, outsideVars,
                 missed, inputs>>

(* promptCreateAlbum, and a click on a folder or a crumb. *)
PickFolder(p) ==
  /\ Click /\ currentAlbum = None
  /\ picker = None => p = Top
  /\ OpenFolderPickerPath(p)
  /\ UNCHANGED <<placeVars, modeVars, listVars, mediaVars, post, outsideVars, missed>>

(* The page is loaded anew: only the session storage is left. A post on its *)
(* way reaches the server or not.                                           *)
Reload ==
  /\ Click
  /\ groupStack' = <<>> /\ showHidden' = FALSE /\ currentAlbum' = None
  /\ viewer' = FALSE /\ pickCoverMode' = FALSE /\ selecting' = FALSE
  /\ picker' = None /\ folders' = None
  /\ albums' = listCache[<<Root, FALSE>>] /\ albumsContextKey' = <<Root, FALSE>>
  /\ media' = None /\ mediaReadyFor' = None
  /\ post' = None
  /\ \/ UNCHANGED version
     \/ post # None /\ post.done = 0 /\ version' = ChangedBy(post.kind)
  /\ requests' = {[slot |-> "albums", of |-> <<Root, FALSE>>, latest |-> TRUE,
                   since |-> version'["albums"], then |-> "nothing"]}
  /\ loading' = (albums' = None) /\ refreshing' = (albums' # None)
  /\ refreshTimer' = FALSE
  /\ missed' = FALSE
  /\ UNCHANGED <<listCache, mediaCache, folderCache, notice, changes>>

-----------------------------------------------------------------------------
(* Posts *)

(* Where the buttons of a post are; one post is on its way at a time. *)
MayPost(kind) ==
  /\ ~ viewer
  /\ CASE kind \in {"list", "sort"} -> currentAlbum = None /\ picker = None
       [] kind = "create" -> picker # None /\ (CreateInGroup \/ groupStack = <<>>)
       [] kind = "cover" -> pickCoverMode /\ media # None
       [] kind = "hideCurrent" -> currentAlbum # None /\ ~ pickCoverMode
       [] kind \in {"delete", "favorite"} -> selecting /\ currentAlbum # None

(* No list is being loaded, or will be. *)
ListSettled ==
  \A r \in requests : (r.slot = "albums" => ~ r.latest) /\ r.then = "nothing"

SendPost(kind) ==
  /\ Click /\ post = None /\ MayPost(kind)
  /\ Overlap \/ (kind \in ListPosts => ListSettled)
  /\ IF kind = "create"
       THEN /\ groupStack' = <<>>
            /\ currentAlbum' = None
            /\ refreshing' = TRUE
            /\ post' = [kind |-> kind, of |-> <<Root, showHidden>>, done |-> 0]
       ELSE /\ post' = [kind |-> kind, of |-> Key, done |-> 0]
            /\ UNCHANGED <<groupStack, currentAlbum, refreshing>>
  /\ UNCHANGED <<showHidden, modeVars, listVars, mediaVars, pickerVars, requests, loading,
                 outsideVars, missed>>

PostExecuted ==
  /\ post # None /\ post.done = 0
  /\ version' = ChangedBy(post.kind)
  /\ post' = [post EXCEPT !.done = version'["albums"]]
  /\ UNCHANGED <<placeVars, modeVars, listVars, mediaVars, pickerVars, loadVars, notice,
                 refreshTimer, changes, missed, inputs>>

Payload == [of |-> post.of, version |-> post.done]

(* post(), hideCurrentAlbum, and confirmCreateAlbumHere. *)
ListReturned ==
  /\ post.kind \in {"list", "hideCurrent", "create"}
  /\ ApplyListPayload(Payload, Key)
  /\ UNCHANGED <<groupStack, showHidden, modeVars, albumsContextKey, mediaReadyFor, mediaCache,
                 folderCache, requests, loading>>
  /\ IF post.kind = "hideCurrent"
       THEN currentAlbum' = None /\ media' = None
       ELSE UNCHANGED <<currentAlbum, media>>
  /\ IF post.kind = "create"
       THEN picker' = None /\ folders' = None /\ refreshing' = FALSE
       ELSE UNCHANGED <<picker, folders, refreshing>>
  /\ missed' = (missed /\ currentAlbum' # None)

(* onMediaClick in cover mode: without an album the id cannot be read. *)
CoverReturned ==
  /\ post.kind = "cover"
  /\ ApplyListPayload(Payload, Key)
  /\ pickCoverMode' = FALSE
  /\ IF currentAlbum # None
       THEN /\ albumsContextKey' = Key
            /\ Fetch("albums", Key, TRUE, currentAlbum, requests)
       ELSE UNCHANGED <<albumsContextKey, loadVars>>
  /\ UNCHANGED <<placeVars, viewer, selecting, mediaVars, pickerVars, missed>>

(* onSortChange *)
SortReturned ==
  /\ post.kind = "sort"
  /\ LoadAlbums(Key, requests)
  /\ UNCHANGED <<placeVars, modeVars, mediaVars, pickerVars, missed>>

(* deleteSelected, promptMoveSelected, and favoriteSelected, which loads the*)
(* list only for the favorites (decided here): without an album the media   *)
(* cannot be loaded, and the list is not reached.                           *)
MediaReturned ==
  /\ post.kind \in {"delete", "favorite"}
  /\ selecting' = FALSE
  /\ IF currentAlbum = None
       THEN missed' = TRUE /\ UNCHANGED <<mediaVars, loadVars>>
       ELSE /\ \/ LoadMedia(currentAlbum, "albums")
               \/ post.kind = "favorite" /\ LoadMedia(currentAlbum, "nothing")
            /\ missed' = FALSE
  /\ UNCHANGED <<placeVars, viewer, pickCoverMode, listVars, pickerVars>>

PostReturns ==
  /\ post # None /\ post.done # 0
  /\ post' = None
  /\ ListReturned \/ CoverReturned \/ SortReturned \/ MediaReturned
  /\ UNCHANGED <<outsideVars, inputs>>

(* The post or its answer is lost: a message is shown. *)
PostFails ==
  /\ post # None
  /\ post' = None
  /\ refreshing' = (refreshing /\ post.kind # "create")
  /\ missed' = (missed \/ post.done # 0)
  /\ UNCHANGED <<placeVars, modeVars, listVars, mediaVars, pickerVars, requests, loading,
                 outsideVars, inputs>>

-----------------------------------------------------------------------------
(* Changes from outside *)

(* A file was deleted or moved in a Files tab, which then reports it. *)
ExternalChange ==
  /\ changes < MaxChanges
  /\ changes' = changes + 1
  /\ version' = Changed({"albums", "media"})
  /\ notice' = TRUE
  /\ UNCHANGED <<placeVars, modeVars, listVars, mediaVars, pickerVars, loadVars, post,
                 refreshTimer, missed, inputs>>

(* scheduleFilesystemRefresh, on a report, or because the page is shown. *)
ScheduleFilesystemRefresh ==
  /\ \/ notice /\ notice' = FALSE /\ UNCHANGED changes
     \/ changes < MaxChanges /\ changes' = changes + 1 /\ UNCHANGED notice
  /\ refreshTimer' = TRUE
  /\ UNCHANGED <<placeVars, modeVars, listVars, mediaVars, pickerVars, loadVars, post,
                 version, missed, inputs>>

(* refreshFromFilesystem: only what is on the screen, and not under the     *)
(* lightbox or in cover mode.                                               *)
\* Mutant: the list is refreshed whatever is open.
RefreshListOnly ==
  /\ LoadAlbums(Key, requests)
  /\ missed' = FALSE
  /\ UNCHANGED <<mediaVars, pickerVars>>

RefreshFromFilesystem ==
  IF viewer \/ pickCoverMode
    THEN missed' = TRUE /\ UNCHANGED <<listVars, mediaVars, pickerVars, loadVars>>
  ELSE IF picker # None
    THEN OpenFolderPickerPath(picker) /\ missed' = TRUE /\ UNCHANGED <<listVars, mediaVars>>
  ELSE IF currentAlbum # None
    THEN /\ LoadMedia(currentAlbum, "nothing")
         /\ missed' = FALSE
         /\ UNCHANGED <<listVars, pickerVars>>
    ELSE /\ LoadAlbums(Key, requests)
         /\ missed' = FALSE
         /\ UNCHANGED <<mediaVars, pickerVars>>

RefreshTimerFires ==
  /\ refreshTimer /\ Apart
  /\ refreshTimer' = FALSE
  /\ RefreshFromFilesystem
  /\ UNCHANGED <<placeVars, modeVars, post, version, notice, changes, inputs>>

-----------------------------------------------------------------------------
(* onMounted, with an empty session storage. *)
Init ==
  /\ groupStack = <<>> /\ showHidden = FALSE /\ currentAlbum = None
  /\ viewer = FALSE /\ pickCoverMode = FALSE /\ selecting = FALSE /\ picker = None
  /\ albums = None /\ albumsContextKey = Key
  /\ media = None /\ mediaReadyFor = None /\ folders = None
  /\ listCache = [k \in Keys |-> None]
  /\ mediaCache = [a \in Albums |-> None]
  /\ folderCache = {}
  /\ requests = {[slot |-> "albums", of |-> Key, latest |-> TRUE, since |-> 0,
                  then |-> "nothing"]}
  /\ post = None
  /\ loading = TRUE /\ refreshing = FALSE
  /\ version = [s \in Slots |-> 0] /\ notice = FALSE /\ refreshTimer = FALSE
  /\ missed = FALSE /\ inputs = 0 /\ changes = 0

Next ==
  \/ RequestEnds
  \/ \E a \in Albums : OpenAlbum(a)
  \/ \E g \in Groups : OpenGroup(g)
  \/ ToggleShowHidden \/ ChangeMode \/ Reload
  \/ CloseTopmost \/ BackInPicker \/ LeaveAlbum \/ LeaveGroup
  \/ \E p \in Paths : PickFolder(p)
  \/ \E kind \in PostKinds : SendPost(kind)
  \/ PostExecuted \/ PostReturns \/ PostFails
  \/ ExternalChange \/ ScheduleFilesystemRefresh \/ RefreshTimerFires

Spec == Init /\ [][Next]_vars

(* Requests and posts end, with an answer or an error; a report of another  *)
(* tab is delivered; a timer fires.                                         *)
Fairness ==
  /\ WF_vars(RequestEnds)
  /\ WF_vars(PostReturns \/ PostExecuted \/ PostFails)
  /\ WF_vars(ScheduleFilesystemRefresh)
  /\ WF_vars(RefreshTimerFires)

FairSpec == Spec /\ Fairness

-----------------------------------------------------------------------------
(* The shape of the state; a slot has one latest request, and lightbox,     *)
(* cover mode and picker are only over the view they belong to, whatever    *)
(* came back in the meantime.                                               *)
TypeOK ==
  /\ groupStack \in {<<>>} \cup {<<g>> : g \in Groups}
  /\ showHidden \in BOOLEAN
  /\ currentAlbum \in Albums \cup {None}
  /\ viewer \in BOOLEAN /\ pickCoverMode \in BOOLEAN /\ selecting \in BOOLEAN
  /\ picker \in Paths \cup {None} /\ folders \in Paths \cup {None}
  /\ albums \in Content(Keys) /\ albumsContextKey \in Keys
  /\ media \in Content(Albums) /\ mediaReadyFor \in Albums \cup {None}
  /\ listCache \in [Keys -> Content(Keys)]
  /\ mediaCache \in [Albums -> Content(Albums)]
  /\ folderCache \subseteq Paths
  /\ \A r \in requests :
       /\ \/ r.slot = "albums" /\ r.of \in Keys
          \/ r.slot = "media" /\ r.of \in Albums
          \/ r.slot = "folders" /\ r.of \in Paths
       /\ r.latest \in BOOLEAN /\ r.since \in 0 .. version[r.slot]
       /\ r.then \in {"nothing", "albums"} \cup Albums
  /\ \A r, s \in requests : r.latest /\ s.latest /\ r.slot = s.slot => r = s
  /\ post = None \/ post \in [kind : PostKinds, of : Keys, done : 0 .. version["albums"]]
  /\ loading \in BOOLEAN /\ refreshing \in BOOLEAN
  /\ version \in [Slots -> Nat] /\ notice \in BOOLEAN /\ refreshTimer \in BOOLEAN
  /\ missed \in BOOLEAN
  /\ inputs \in 0 .. MaxInputs /\ changes \in 0 .. MaxChanges
  /\ viewer \/ pickCoverMode => currentAlbum # None
  /\ picker # None => currentAlbum = None

(* What is shown belongs to where the user is: the list to the open group   *)
(* and the hidden switch, the media to the open album, the folders to the   *)
(* picker's path, however late an answer, a refresh or the rest of a post   *)
(* comes (the checks after the awaits of loadAlbums and loadMedia).         *)
ViewOfPlace ==
  /\ albums # None => albums.of = Key
  /\ media # None => media.of = currentAlbum
  /\ folders # None => folders = picker

(* The session storage holds under a place only what was asked for there,   *)
(* and what is shown is what it would show again after a reload.            *)
CachesKeyed ==
  /\ \A k \in Keys : listCache[k] # None => listCache[k].of = k
  /\ \A a \in Albums : mediaCache[a] # None => mediaCache[a].of = a
  /\ albums # None => albums = listCache[albumsContextKey]
  /\ media # None => media = mediaCache[mediaReadyFor]

(* For one place nothing older follows: neither on the screen nor in the    *)
(* session storage is a newer state of the server replaced by an older one  *)
(* (the request numbers of startRequest, and the abort).                    *)
NotOlder(old, new) == old # None /\ new # None /\ old.of = new.of => old.version <= new.version

NeverOlder ==
  [][/\ NotOlder(albums, albums') /\ NotOlder(media, media')
     /\ \A k \in Keys : NotOlder(listCache[k], listCache'[k])
     /\ \A a \in Albums : NotOlder(mediaCache[a], mediaCache'[a])]_vars

(* Changes reach the screen: once the user and the other tabs rest, the     *)
(* view shows the state of the server, unless a refresh was given up: under *)
(* the lightbox, the cover mode or the picker, after an error, or after a   *)
(* deletion whose album was left (scheduleFilesystemRefresh).               *)
UpToDate ==
  IF currentAlbum = None
    THEN albums # None /\ albums.version = version["albums"]
    ELSE media # None /\ media.version = version["media"]

CatchesUp == <>[](UpToDate \/ missed)

(* The spinners stop: loads of the three slots share them, and the last to  *)
(* end clears them, also on an error (endFetch).                            *)
SpinnersStop == <>[](~ loading /\ ~ refreshing)
=============================================================================
