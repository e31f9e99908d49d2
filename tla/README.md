# TLA+ models of the Eclipse help web application's navigation scripts

This project holds the TLA+ models of the browser-side scripts of the Eclipse help
web application (webapp 3.2.0 and 3.2.1). The application is bundled with Directory
Studio under `src/dependencies/eclipse/3.2/plugins/`. The scripts drive the
navigation frames: the table-of-contents tree, the keyword index with its type-in
box, the result and bookmark lists, and the content toolbar.

## 1. Inventory

The scripts run on the single UI event loop of each frame. Each handler runs to
completion. The hard behaviours come from three sources:

- event *sequences* across frames;
- work that completes *asynchronously*: the hidden frame that loads TOC
  fragments, and the 200 ms polling timer of the type-in box;
- DOM walkers whose correctness depends on the DOM's shape and on class names
  written by other handlers.

| Component | Source | State it keeps | Operations | Interacts with |
|---|---|---|---|---|
| TOC tree | `…3.2.1…/advanced/toc.js` | the `className` of each plus/minus IMG, UL and anchor; `oldActive` and `oldActiveClass`; the hidden `dynLoadFrame`'s location | mouse click, double click, the Left, Right, Down and Up arrows, `selectTopic`, `selectTopicById`, `expand`, `collapse`, `expandPathTo` | content frame (calls `selectTopic` to synchronise); `tocFragment.jsp` (fills a lazy UL when it loads); toolbar (`setContentToolbarTitle`) |
| Type-ahead search | `…3.2.1…/advanced/indexTypein.js` | `typein.value` and `typein.previous`, `currentId` | `compare`, `searchPattern`, `intervalHandler` (polled every 200 ms), `keyDownHandler` (Enter, Up, Down), `onloadHandler` | index view (`selectTopicById`, `setTypeinValue`, `selectNextUp/Down`); list frame's `ids` |
| Index view coordinator | `…3.2.1…/advanced/indexView.js` | `typeinFrame`, `listFrame` (set by the children's onload) | `selectTopicById`, `selectNextUp/Down`, `getSelection`, `setTypeinValue`, `doDisplay` | type-in frame, list frame, content frame |
| Index list | `…3.2.0…/advanced/indexList.js` | anchor classes, `oldActive`, `oldActiveClass`, the classes of the plus/minus images and their ULs | click (with expand/collapse), the four arrow keys, `highlightTopic` (appends ` active`), `getNextDown` and `getNextUp` (with their sibling-UL branches), `onloadHandler` | index view |
| Result and bookmark list | `…3.2.0…/advanced/list.js` | row and anchor classes, `active`, `oldActive`, popup menu | click, arrow keys, context menu, `selectTopic`, `selectTopicById` | toolbar (anchor `onclick`) |
| Keyword highlighting | `…3.2.1…/advanced/highlight.js` | the `highlighted` flag, `startTime` | `highlight` (run by `onload` and `onreadystatechange`), plain and timed DOM walks, text splitting | content page DOM |
| Content and navigation toolbar actions | `contentActions.js` (both versions), `navActions.js` | none | back, forward, home, bookmark, resynch, print, setTitle, remove bookmarks | other frames, each call inside `try/catch` |

What makes each component correct, and what the hazards in `PROJECT.json` track:

- **All three lists (TOC, index, results).** Each implements the Selection
  Tracker of spec section 4.3. `setActive` unmarks the old node and marks the
  new one in the same call, and `getActive` is the marked node.
- **TOC tree.** The arrow keys move through the *rendered* topics in document
  order. `selectTopic` leaves its topic rendered and highlighted. A lazy
  container the user expands eventually gets its children.
- **Type-ahead and index.** `searchPattern` returns, and it returns the first
  keyword the typed text is a case-insensitive prefix of. After a poll, the
  list selection matches the typed text. `currentId`, which lets the poll skip
  a selection, names the highlighted keyword. The arrow keys follow the shown
  entries.
- **Result list.** A topic another frame selects is scrolled into the
  window. The popup menu should act on the bookmark that was right-clicked;
  that is a hazard without a run (section 5).
- **Scrolling (all three lists).** Each list keeps its own copy of
  `scrollIntoView`/`getVerticalScroll`. After a handler that moves the
  selection on purpose, the selected node is inside the window, on the page
  as the handler's expand or collapse left it.
- **Keyword highlighting.** The page text survives the walk. Every keyword
  the walk has passed is fully highlighted, even when the deadline cuts the
  walk. Once the page has loaded, the walk runs; `highlight_early_readystate`
  shows a load order in which it never does.

## 2. Plan and status

1. `TocTree` (done): the TOC DOM at element level, all tree handlers, and the
   fragment loader.
2. `TypeAhead` (done): `compare` and the loops of `searchPattern`, checked
   against a reference over every sorted list of up to 4 keywords.
3. `IndexView` (done): composes the type-in frame (polling, keys, onload), the
   coordinator and the index list. The list is modelled flat and as a
   two-level index with sub-entries.
4. `ResultList` (done): the row-id arithmetic of `list.js`, its popup menu
   and its scrolling.
5. `KeywordHighlight` (done): the once-only flag raced by `onload` and
   `onreadystatechange`, the text splitting, and the timed walk under an
   abstract clock.
6. `SelectionTracker` (done): the abstract contract of spec section 4.3.
   `TocTree`, `IndexView` and `ResultList` are each shown to refine it.
7. `PageScroll` (done): the scroll helpers the three lists carry, over a page
   offset that every list module keeps as state.
8. `Outline` (done): the collapsible outline of spec section 8, which
   `TocTree` is shown to refine. The index list's two levels hold no nested
   sub-state, so the outline says nothing there that its own
   `NavigationFollowsVisibleOrder` does not.

## 3. Modules and how they map to the code

`PROJECT.json` "map" names the source lines of every definition.

### SelectionTracker (spec section 4.3)

- This is the abstract contract. It has two variables: `active` (what
  `getActive` returns) and `marked` (the nodes showing the active marker).
- It has one action, `SetActive(n)`, which sets `active' = n` and
  `marked' = {n}`.
- Each list module instantiates it with a refinement mapping:
  - `active` is the list's `oldActive`;
  - `marked` is the set of nodes whose class carries `active`.
- Each list checks `SelectionRefined == Sel!Spec` as a temporal property.
  Every step of the detailed module must be a whole `setActive` or leave the
  selection alone. This rules out a step that marks without unmarking, or
  unmarks the wrong node. It also rules out a marker that is not the
  remembered node.

### Outline (spec sections 2 and 8)

- The abstract outline: a fixed `parent` function and the set `expanded`.
  A node is `Visible` when every ancestor is expanded.
- Its steps are `Expand(n)` and `Collapse(n)`, which change only `n`, and
  `RevealPath(n)`, which adds `n`'s ancestors. Collapsing therefore keeps the
  sub-state below `n`, as spec section 8 requires ("without losing
  previously-expanded sub-state").
- `TocTree` instantiates it with `parent <- par` and `expanded` read from
  the plus/minus images (`imgCls`), and checks `OutlineRefined == Out!Spec`.
  It also checks `DisplayMatchesOutline`: a topic in the DOM is displayed
  (every ancestor UL `expanded`) exactly when the outline read from the
  images says it is visible.

### PageScroll (the `getVerticalScroll` copies)

- Constants `WinH` (`window.innerHeight`) and `DocH` (the page height); the
  list modules keep `pageTop` (`window.pageYOffset`) and instantiate
  `PageScroll` with the height of the page they render. In `TocTree` and
  `IndexView` that height changes with expand and collapse, so they use a
  parameterised instance `PS(docH)` and pass the height after the step.
- `GetVerticalScroll` is the `toc.js`/`indexList.js` version on the Mozilla
  path: the window's bottom is taken one node height above
  `window.innerHeight`. `ScrollIntoView` is `scrollBy` of that amount, and
  `Clamp` the browser stopping at the ends of the page.
- `ListGetVerticalScroll` is the `list.js` version. It measures the row's
  cell, takes the anchor's height as the margin, and scrolls a node below
  the window by `nodeBottom - pageBottom/2`. The fraction is rounded by the
  browser, so both neighbours are results.
- `ScrollToTop` is `scrollToViewTop` and the native `scrollIntoView(true)`.
- `FocusScroll` is what `focus()` does: nothing if the element is shown,
  otherwise any offset that shows it (browsers differ in how far they move).
- Every node is one row high (`offsetHeight` 1, or `RowH` in the result
  list); a hidden node has `offsetTop` and `offsetHeight` 0.

### TocTree (`toc.js`, webapp 3.2.1)

- The tree is modelled as DOM elements `[k, n]`: LI, IMG (plus/minus), A, TXT
  (the link text) and UL for topic `n`, plus BODY and the top UL (`n = 0`).
- `Kids` and `Up` give `childNodes` and `parentNode` as `tocView.jsp` renders
  them. That page is not in this repository, so its shape comes from spec
  sections 3 and 6.
- Topics are numbered in document order. Init picks *every* pre-order outline
  of `N` topics (`Shapes`) and every set of lazy containers.
- The variables are:
  - the classes the script writes (`imgCls`, `ulCls`, `aCls`);
  - `oldActive` and `oldActiveClass`;
  - the keyboard `focus`;
  - `loaded`;
  - `dynLoad`, the fragment the hidden frame is loading;
  - `pageTop`, the page offset. `OffsetTop(n)` counts the displayed topics
    before `n`; a topic is `Shown` when its row is in the window.
- Each walker is a direct translation: `GetChildNode`, `GetDescendantNode`, the
  sibling functions, `GetAnchorNode`, `GetPlusMinus`, `GetNextDown` (its
  climbing loop is `ClimbToSibling`), and `GetNextUp` (its candidate loop is
  `LastBefore`).
- `expand`, `collapse` and `expandPathTo` transform the record
  `[img, ul, dyn]`. `expandPathTo` is a recursive fold over the path.
- Each handler is one action: `MouseClick`, `MouseDblClick`, `KeyRight`,
  `KeyLeft`, `KeyDown`, `KeyUp`, and `SelectTopic`. `SelectTopic` stands for
  both `selectTopic` and `selectTopicById`. `FragmentLoaded` is the browser
  finishing `tocFragment.jsp`, which inserts the children.
- The Right and Left keys and `selectTopic` scroll with `ScrollIntoView`
  after their expand or collapse, on the new layout; a collapse first lets the
  browser pull `pageTop` back into the shorter page (`Reflowed`). The user
  scrolls with `ScrollPage`. Mouse events target only shown rows.
- Where the browser decides, the model is nondeterministic:
  - clicking an image either keeps the focus or moves it to the body;
  - `focus()` on a hidden element does nothing.
- Fairness: only `FragmentLoaded` is weakly fair. A page load in progress
  completes, but the user may stop at any time.

### TypeAhead (`indexTypein.js`, webapp 3.2.1)

- Strings are sequences of UTF-16 code units, and `ToLower` folds `A`–`Z`.
- `CompareFrom` is `compare`'s loop. The binary search loop is `ProbeMatch`,
  `ProbeBelow`, `ProbeAbove` and `Exhausted`. The backward scan is `ScanStep`
  and `ScanStop`. The indices are the code's 0-based `from`, `to` and `i`.
- Inputs are every id list that is injective and sorted case-insensitively
  (spec section 3; the page that builds `ids` is not in this repository), and
  every pattern.
- The reference `FirstMatch` is the spec's contract (section 4.2).
- Fairness: weak fairness on `Next`, because `searchPattern` is a synchronous
  loop inside one handler.

### IndexView (`indexTypein.js` and `indexView.js` 3.2.1, `indexList.js` 3.2.0)

- **The list.** It is the keyword index of spec sections 2 and 3:
  - Anchor `<<k, 0>>` is keyword `k`, with id `Ids[k]`.
  - Anchor `<<k, j>>` is its `j`-th sub-entry. It has no id, and its link
    text is `Labels[<<k, j>>]`.
  - A keyword with sub-entries has a plus/minus image and a UL. `expanded`
    holds the class that `expand` and `collapse` write to both of them.
  - No UL has a UL sibling. The sibling-UL branches of `getNextDown` and
    `getNextUp` are translated all the same, and on this shape they find
    none.
  - The page that renders the index is not in this repository, so this shape
    is an assumption. It follows spec section 2's "a node with no children has
    no expand/collapse affordance".
- **Walkers and helpers.**
  - The list's DOM is modelled at element level, as in `TocTree`: `Kids`
    (`childNodes`), `Up` (`parentNode`) and `ClassName` over records
    `[k, n]` for the body, the ULs, the LIs, the images, the anchors and
    their text.
  - `GetChildNode`, `GetDescendantNode`, `GetNextSibling`, `GetPrevSibling`,
    `GetAnchorNode`, `GetNextDown` and `GetNextUp` translate the walkers of
    `indexList.js` branch by branch. `ClimbToSibling` is `getNextDown`'s
    climb, and `LastBefore` is `getNextUp`'s candidate loops.
  - The walkers read only the classes of the ULs. They take that expand
    state as `exp`, and `NextDownOf`/`NextUpOf` tabulate them once for every
    expand state. `NextDown`/`NextUp` look up the current one.
  - `GetPlusMinus`, `Expand` and `Collapse` are the image helpers.
  - `Highlight` is the list's `highlightTopic`: restore, save, append
    ` active`.
- **Frame variables.**
  - `typeinFrame` and `listFrame` are the parent's frame references.
  - `value`, `previous` and `currentId` belong to the type-in frame.
  - `expanded`, `aCls`, `oldActive` and `oldActiveClass` belong to the list.
  - `listFocus` is the focused anchor of the list frame.
  - `pageTop` is the list frame's page offset. The page has one row per
    rendered entry (`Rendered(exp)`), so the geometry takes the `expanded`
    state it is measured on.
  - `displayed` is the entry whose topic the content frame shows. `doDisplay`
    (`DoDisplay`, from Enter in the box) replaces it with the highlighted
    entry, and a click on an entry's text or Enter on a focused entry
    follows the link.
- **History variable.** `input` records how the text got its value. It is one
  of:
  - `nav`: set by `setTypeinValue`;
  - `typed`: typed and not polled yet;
  - `searched`: polled;
  - `blind`: polled while `listFrame` was unset.
- **Actions.** Each handler is one action, and the coordinator calls it makes
  are inlined:
  - `TypeinLoad` and `ListLoad` (the two onloads, in either order);
  - `Type` (the user edits the box, and no handler runs);
  - `IntervalHandler` (the 200 ms poll);
  - `TypeinEnter` (`setTypeinValue(getSelection())` and `doDisplay`),
    `TypeinUp` and `TypeinDown` (through `selectNextUp/Down` and
    `SelectNext`);
  - `ListClick` (on link text or a plus/minus image);
  - `ListDown`, `ListUp`, `ListRight` and `ListLeft`;
  - `ListEnter`: the list's `keyDownHandler` returns `true` for every key
    but the arrows, and the browser follows the focused link;
  - `ScrollPage`, the user scrolling the list.
- **Scrolling.** `selectTopicById` ends with `scrollToViewTop`
  (`ScrollToViewTop`), `selectNextUp/Down` with the list's `scrollIntoView`,
  the list's onload scrolls its first entry to the top, the list keys scroll
  through `focus()` or `scrollIntoView`, and clicks target shown entries.
- **Fairness.** The onloads and the poll are weakly fair: a loading page
  finishes, and `setInterval` keeps firing. User actions are not fair.

### ResultList (`list.js`, webapp 3.2.0)

- Row `k` is a TR with id `r<k>`. Its anchor has id `a<k>`, with a text and an
  icon. Events target these parts (`RowParts`) or the body.
- `GetTRNode`, `GetNextDown` and `GetNextUp` are the id arithmetic of the
  code.
- `HighlightTopic` unmarks the old row and anchor, marks the new ones, and
  sets `oldActive` and `active`.
- The handlers are:
  - `MouseClick`, which also hides the menu unless the click is on its
    target;
  - `ContextMenu`, which selects through the click handler and shows the
    menu. The handler's own `active = clickedNode` names the anchor
    `highlightTopic` has just stored in `active`, so it is not a separate
    assignment in the model;
  - `KeyDown` and `KeyUp`;
  - `SelectTopic` and `SelectTopicById`, called from other frames.
- `pageTop` is the page offset; row `r` starts at `r * RowH`.
  - `SelectTopic` highlights, scrolls with `list.js`'s own `scrollIntoView`
    and then with the native `scrollIntoView(true)`; the second leaves the
    row at the top, so the model keeps its result.
  - `SelectTopicById` scrolls with `list.js`'s `scrollIntoView` only.
  - The arrow keys move the page through `focus()`; clicks target shown rows;
    `ScrollPage` is the user scrolling.
- The model follows the Mozilla path (`event.target`, `popupMenuTarget`).
- No fairness is assumed: every step is a user or frame event.

### KeywordHighlight (`highlight.js`, webapp 3.2.1)

- The body is the sequence of its text nodes in document order. Each node has
  its text and whether it lies inside a highlighting span. A replacement span
  sits where the text node was, so its pieces take the node's place.
- `Pieces` is the recursive loop of `highlightWordInText`. `IndexOf` is
  `String.indexOf`.
- The handlers are:
  - `Highlight`: the flag, the body check, and the start of the walk;
  - `ReadyStateChange` and `Onload`, which both call `Highlight`;
  - `ParseBody`, the parser reaching `<body>`;
  - `Tick`, the clock passing the deadline.
- The walk is `Visit` (one child, then the deadline check `CheckDeadline`),
  `NextKeyword` and `Finish`.
- The constant `EarlyReadyState` says whether `readystatechange` may fire
  before the body exists.
- Fairness: parsing and onload happen, and a running walk continues. The
  clock need not reach the deadline.

## 4. Runs

| Run | Expect | Checks | Shows |
|---|---|---|---|
| `toc_safety` | pass | `TypeOK`, `NavigationFollowsVisibleOrder`, `DisplayMatchesOutline`, `SelectionRefined`, `OutlineRefined`, `SelectTopicReveals`, `KeyScrollShowsFocus` | The check covers every 4-topic outline and every set of lazy containers, in a window two rows high. The tree refines the Selection Tracker and the outline of spec section 8: a collapse keeps the sub-state below it, `selectTopic` opens only the missing ancestors, and the displayed rows always match the plus/minus images. Down/Up follow the document order of rendered topics while no fragment is pending. `selectTopic` reveals, highlights and scrolls its topic into the window. The Right and Left keys leave the focused topic in the window after they expand or collapse. 9,609 states. |
| `toc_pending_fragment` | violation | `NextDownEnumeratesVisible` (spec section 8) | Expand a lazy container. Before its fragment arrives, Down from it returns null, although the next top-level topic is shown. |
| `toc_superseded_fragment` | violation | `ExpandedEventuallyFilled` | Expand lazy container 1, then lazy container 3. The frame switches to 3's fragment, and 1 stays expanded and empty forever. |
| `typeahead_search` | pass | `TypeOK`, `SearchFindsFirstMatch`, `SearchTerminates` | The check covers every sorted list of up to 4 keywords over `{A, a, b}` of length up to 2, and every pattern of length up to 2. `searchPattern` always returns, and it returns the first case-insensitive prefix match. |
| `index_sync` | pass | `TypeOK`, `SelectionRefined`, `CurrentIdTracksSelection`, `TypedTextSelected` | On the flat index, the check covers both load orders, with typing, polls, clicks and the arrow keys of both frames interleaved. The list refines the Selection Tracker. `currentId` always names the highlighted entry, so the poll's `id != currentId` shortcut never skips a needed selection. Text polled while the list is loaded selects its first match. 3,796 states. |
| `index_load_order` | violation | `TypedTextAlwaysSelected` (comment at `indexTypein.js:100-103`) | The type-in frame loads, and "b" is typed and polled. Then the list loads and highlights "A". "b" is never searched again. |
| `index_tree` | pass | `TypeOK`, `NavigationFollowsVisibleOrder`, `SelectionRefined`, `TypeinSelectionShown` | The index has two keywords with sub-entries, expanded or collapsed at load. The check covers clicks on text and images, all four list keys, the box keys and the poll. The list refines the Selection Tracker. From every shown entry, in every expand state, the element-level `getNextDown`/`getNextUp` give the next/previous shown entry. Every selection the type-in frame makes (poll, Up, Down) is scrolled into the list's two-row window, wherever the user left the page. 166,106 states. |
| `index_tree_stale_currentid` | violation | `CurrentIdTracksSelection` | Click "ab", which expands and focuses it. Press Up in the box, which selects "A" and sets `currentId`. Press Right in the list, which highlights "ab" again. `currentId` still says "A". |
| `highlight_walk` | pass | `TypeOK`, `TextPreserved`, `PassedKeywordsHighlighted` | The check covers small and large pages, with the deadline passing at any point. The text is intact, and every passed keyword is fully highlighted. 112 states. |
| `highlight_early_readystate` | violation | `HighlightRuns` | A `readystatechange` before the body exists sets the flag and returns. `onload` then does nothing, and the page is never highlighted. |
| `result_safety` | pass | `TypeOK`, `SelectionRefined` | Seven rows in a three-row window; clicks, right clicks, arrow keys, user scrolling and syncs from other frames come in any order. The list refines the Selection Tracker. 12,045 states. |
| `result_sync_scroll` | violation | `SyncedRowShown` | Click row 0, let another frame `selectTopic` row 1 (page offset 1), then `selectTopicById` row 3: `scrollBy(0, 4 - 3/2)` moves the page to 4 (or 3), and row 3 is above the window. |

Each property of a passing run has a fault variant in its module. The variants
are:

- `TocTree`: `…_IgnoresUlClass`, `…_SavesClassAfterMark`, `…_AppendsActive`,
  `SelectTopic_ScrollsOnOldLayout`, `KeyRight_NoScroll`, `Collapse_Subtree`
  (collapse closes the whole subtree, as its comment reads),
  `Collapse_ImageOnly` (the UL statement dropped);
- `TypeAhead`: `…_StrictLength`, `…_KeepsProbe`, `…_SkipsTwo`;
- `IndexView`: `…_NoRestore`, `…_KeepsCurrentId`, `…_SearchesPrevious`,
  `GetNextDown_IgnoresUlClass`, `SelectNext_NoScroll`;
- `KeywordHighlight`: `Visit_DoubleStep`, `Visit_SkipsSibling`,
  `Pieces_FromKeyword`;
- `ResultList`: `HighlightTopic_AppendsActive`, `…_KeepsOldAnchor`.

Each variant is a plausible slip in the code, and the property rejects it
(`PROJECT.json` "mutants").

**Bounds.**

- Four topics give all 14 outline shapes, including:
  - nesting two deep, so `expandPathTo` climbs more than one level and
    `getNextDown` climbs out of a subtree;
  - two sibling lazy containers, which the superseded-load case needs;
  - a lazy container with a visible topic after it.
- Lists of four keywords let the binary search probe both halves and then scan
  back more than once. The letters `A` and `a` fold to the same letter, so
  case-equal neighbours and shared prefixes occur.
- The index keywords "A", "ab" and "b" have 0, 2 and 1 sub-entries. This
  covers:
  - a keyword without an image between keywords with one;
  - `getNextUp` walking through two expanded sub-entries;
  - climbing from a last sub-entry to the next keyword, and from the last
    keyword to the end.
- The highlighted page has three text nodes and two keywords, "ab" and "B".
  The walk splits a node more than once, in mixed case, and a node split for
  the first keyword is split again for the second.
- The result list has seven rows in a window of three (`RowH = LinkH = 1`),
  and rows 0 and 2 link to the same topic (a bookmark added twice), so
  `selectTopic`'s first-match rule matters. Seven rows let the page scroll past
  `WinH - LinkH - 2*RowH`, where `list.js`'s halved `pageBottom` starts to
  overshoot.
- The TOC and index windows are two rows high, the least the Mozilla margin
  allows (one row of the window is the margin), so a tree of four topics or
  five entries is taller than its window and every scroll branch (up, down,
  none, clamped) is taken.

## 5. Findings

- **Down arrow stops at a loading container** (`toc.js:50`). `getNextDown`
  returns the first anchor of an expanded UL. While a lazy container's fragment
  is loading, that UL is empty, so the Down arrow finds no next topic. This
  contradicts spec section 8's enumeration property.
- **A second expand loses the first fragment** (`toc.js:236`). All fragments
  load through one hidden `dynLoadFrame`. If the user expands a second lazy
  container before the first fragment arrives, the first stays empty until it
  is collapsed and expanded again. The spec (section 5) says only that a
  superseded load's result is ignored.
- **Text typed before the index list loads is never searched**
  (`indexTypein.js:107`). `intervalHandler` copies `value` to `previous` before
  it calls `searchPattern`, and `searchPattern` returns null while
  `parent.listFrame` is unset. Once the list loads, it highlights its first
  entry, and the typed text is never searched again. Spec section 4.4 allows a
  no-op while a frame is unloaded, but the comment at lines 100-103 promises
  that the list follows the typed value.
- **The index's Right and Left keys leave `currentId` stale**
  (`indexList.js:473`). These keys highlight the focused keyword but, unlike
  every other list handler, never call `parent.setTypeinValue`.
  - The type-in frame's `currentId` keeps naming the keyword it selected.
  - A later poll whose text matches that keyword finds `id == currentId` and
    skips the selection.
  - The list then shows a keyword other than the typed text's match.
- **An early `readystatechange` disables highlighting** (`highlight.js:23`).
  `highlight()` sets the flag before it checks for `document.body`. A
  `readystatechange` that fires before the body exists therefore turns the
  later `onload` call into a no-op.
- **`selectTopicById` in the result list scrolls past its row**
  (`list.js:215`). For a row below the window, `getVerticalScroll` returns
  `nodeBottom - pageBottom/2`, half of an absolute page coordinate rather
  than of the window. The new offset passes the row's top once
  `pageYOffset` exceeds the window height minus the anchor's height and two
  row heights, so the row ends at least partly above the window.
  - In TLC's trace (`result_sync_scroll`), `selectTopic` for row 1 puts the
    page at offset 1, showing rows 1-3 of 7.
  - `selectTopicById` for row 3 then has `pageBottom` = 3 and `nodeBottom` =
    4, and scrolls by 4 - 1.5 = 2.5 rows, to offset 3.5. The top half of
    row 3 is then above the window.
  - The model counts whole rows and keeps both neighbours, offsets 3 and 4.
    The trace shows 4, where the whole row is above the window. `selectTopic`
  escapes only because it follows with the native `scrollIntoView(true)`
  (`list.js:147`).
- **The bookmark menu's target moves while it is open** (`list.js:388`). The
  arrow keys and the other frames' `selectTopic`/`selectTopicById` move
  `active` without hiding the menu. A command chosen from the still-open menu
  then acts on a bookmark other than the one right-clicked. Nothing in the
  spec or the code says the menu should follow the click, so this is kept as a
  hazard rather than a checked property.
- **Left never collapses a keyword beginning with "b"** (`indexList.js:481`).
  The index's Left branch keeps the TOC's bookshelf test, so it returns on
  any anchor whose id starts with `b`. Index anchor ids are the keywords. In
  the model this is `ListLeft`'s guard `~StartsWithB`. It is recorded as a
  hazard and not given a run, because a single key press shows it.

## 6. Not modelled, and why

- Pixel layout beyond one row per node: fonts, wrapped labels, the IE
  `document.body.clientHeight` branch. Every node is one row high.
- A window less than two rows high: the Mozilla margin then leaves no offset
  at which `getVerticalScroll` returns 0 (`ASSUME WinH >= 2`).
- The status line and titles (`mouseMoveHandler`, `showStatus`): pure
  presentation.
- `focusHandler`: it is not registered (`indexList.js:544`, and IE only in
  `list.js`).
- The TOC's bookshelf branches: the IE-only one of the Right key
  (`toc.js:527-536`), and the Left key's test for an id beginning with `b`
  (`toc.js:551-560`), which runs on every browser. The Left key's test
  returns, or calls `loadTOC`, for a bookshelf anchor. That page and
  `loadTOC` are not in this repository. `TocTree` takes the topic anchors of
  a book's tree to have no id beginning with `b`. This is why the TOC tree and
  the index list are marked "partly".
- The toolbar actions (`contentActions.js`, `navActions.js`). Each forwards
  one call to another frame inside `try/catch`, or builds a URL string. The
  callees are `NavFrame.displayTocFor`, `collapseToc`, `toggleShowAll` and
  the `bookmarksView.jsp` functions, and none of them is in this repository.
  `goHome`'s is-home test compares a suffix of the location. It treats a home
  page that carries a `#fragment` or a query as not home, and navigates it
  again. Nothing in this repository observes that.
  - They keep no state of their own.
  - Their one stateful effect, resynchronising the tree, is `SelectTopic`.
  - Their other effects are the browser's own: history, print and the
    document title.
- The empty search keyword in `highlight.js`. The keywords array is written by
  the results page, which is not in this repository. `KeywordHighlight`
  assumes it holds no empty word, which would make `highlightWordInText` loop.
- Browser sniffing (`isMozilla`, `isIE`): the model follows the common path,
  and where they differ, the Mozilla one.
  - Mozilla's extra `a.onclick()` in `highlightTopic` only triggers navigation
    in the content frame.
