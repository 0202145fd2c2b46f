# heigong: a TLA+ model of the pagination engine

heigong turns a Word document or an e-book into pages. `wvWare` converts the
document to html; the engine parses the html into *glyphs* (characters, images,
tables, line breaks), sets them on pages and renders each page into a buffer for
the client. Pages are numbered from 0, and for each page a `.pg` file in a work
directory remembers where the page begins, so that it can be shown again, also by
a later process.

This directory models the parts of heigong in which state, order and failure
matter: the character stream over a converter that is still running, the parser
with the modes its tags switch, the page engine with its files, the page based
engine that renders the pages of an earlier one again, the layout of glyphs on a
page and in the cells of a table, and the tool that cleans the html of e-books.

## 1. The system

### Components

| component | state | operations | correct if |
|---|---|---|---|
| client API (`inc/hg.h`, `lib/hg.cpp`) | handle, mode flags | `HG_Init`, `HG_StartParse`, `HG_GetPage`, `HG_FreePage`, `HG_GetMaxPage`, `HG_Term`, `HG_PB_*` | calls return; NULL exactly beyond the last page; the client can free what the engine allocates |
| engine `May12th` (`lib/MayTwelfth.cpp`) | `convert`, `bgMode`, `slMode` | `Display`, `SerializedDisplay`, `GetPage`, `RenderAll`, `PB_Display`, `MainLoop` | pages tile the document; a page shown again is the same page |
| page manager (`lib/PageManager.cpp`) | `curPageNum`, `maxPageNum`, `numToRender`, `numLastRendered` | `StartPage`, `EndPage`, `RestorePage`, `NextPage`, `PrevPage` | counted pages have complete files; the last page is the last |
| page files (`lib/DocState.cpp`) | one file per page: completion flag, offset, glyphs, attributes | `StoreState`, `AppendState`, `RecoverState` | an interrupted write is recognised; files of adjacent pages meet |
| parser (`lib/DocParser.cpp`) | stream offset, `glyphBuffer`, `resumeProcWord`, `listMode`, `olType`, `headerMode`, `delayedToken`, `glyphAttrib`, `lineAttrib` | `GetNextGlyph`, `fillGlyphStream`, `procLabel`, `procWord`, `ParseTable`, `getTD`, `ShadowDocState`, `RestoreDocState` | no glyph lost or repeated across batches and pages; labels, fonts and styles where the text has them, also after a look back |
| character stream (`lib/DocStream.cpp`) | `fd`, `bgMode`, `file_off`, `bg_off`, `term_off`, `ch_buf` | `OpenFile`, `GetChar`, `UnGetChar`, `SetOffset`, `GetCurOffset`, `CloseFile` | a saved offset leads back to the same byte; the end is told at the end |
| converter (`wvWare`, `tee`, external) | pipe, tmp file | writes bytes to the pipe, then to the file | - |
| page layout and lines (`lib/PageLayout.cpp`, `lib/Line.cpp`) | position, heights, baselines, indent, current line | `GetCharPos`, `GetGraphPos`, `GetTablePos`, `NewLine`, `NewPage`, `Reset`, `DrawFlush` | glyphs on the paper, none over another, each page takes the reader on |
| tables (`lib/Table.cpp`) and their cells (`lib/TableLayout.cpp`) | rows, `rowSplit`; a layout per cell | `Setup`, `Draw`, `UngetSet`, `Dup`, `Deserialize`; `GetCharPos`, `NewLine`, `Reset` | each row on exactly one page; text inside its cell; a restored table like the first |
| images, characters (`lib/Graph.cpp`, `lib/Char.cpp`) | size, position, bitmap | `Setup`, `Draw`, `UngetSet`, `Dup` | as for the layout |
| fonts (`lib/FontsManager.cpp`, `lib/FontsCache.cpp`) | faces, width table, bitmap cache | `PreBuildWidTab`, `GetWidRatio`, `CacheFont` | widths belong to the current size |
| rendering and buffers (`lib/RenderMan.cpp`, `inc/BufferManager.h`) | frame buffer; buffers by address | `Flush`, `Insert`, `GetAttr`, `Delete` | a page has a buffer; every buffer is freed by someone |
| page cache (`inc/PageCache.h`) | - | - | not compiled in |
| drivers (`hgBin.cpp`, `test.cpp`, `prog/hgMaster.cpp`) | - | call the API | - |
| html tools (`htmlpp`, `epub`, `chm`) | the tree of libxml2 | `erase`, `strip`, `wash`, `traverse`; unpacking of books | terminate, keep the text, leave the tree whole |

### Interactions

The client calls the engine; one call runs to its end in the client's thread.
`Display` asks the parser for glyphs, hands each to the layout (`Setup`), and at a
page break or at the end of the text draws the last line, makes the buffer and
lets the page manager finish the page file. The parser reads the stream, which
reads a file, or, in background mode, the pipe of a converter that runs as another
process. The layout's current line is shared: the parser gives it its attributes,
`Setup` adds glyphs to it, page breaks replace it. Page files and the converter's
tmp file outlive the process.

### What is hard here

There are no threads. Order matters all the same:

* the converter and `tee` run beside the engine, and the file follows the pipe;
* a client may ask for pages in any order, and parser, layout, page numbers and
  files must all move together;
* the process may end between the two writes of a page file, and another one
  finds what is left;
* a page break happens in the middle of a batch of glyphs, and what did not fit
  has to come back first on the next page;
* line heights, baselines and page ends are integer arithmetic with a case for
  each kind of glyph;
* tags switch modes that act on text much later, and a page file carries only some
  of these modes to the process that reads it;
* the rows stored in a page file and those the parser still holds share their
  cells, and with them the layouts inside.

`PROJECT.json` lists these as hazards, each at its line with the properties that
watch it.

## 2. The modules

| module | models | how |
|---|---|---|
| `Book` | what `hg.h` promises a reader who turns pages | abstract: what is shown on the page at hand, what was shown at all, how many pages are finished, whether the last one is |
| `Cursor` | what the parser expects of a stream | abstract: a position that reading, pushing back and seeking move |
| `DocStream` | `DocStream` and the converter | one action per branch of `OpenFile`, `GetChar`, `UnGetChar`, `SetOffset`; `TeeOpens`, `TeeToPipe`, `TeeToFile` are the other processes |
| `GlyphStream` | `fillGlyphStream`, `procWord` | pure: `Fill(doc, off, resume)` is the batch a call makes and the parser's new state |
| `PageLayout` | `PageLayout.cpp`, `LayoutManager.h` | pure: each operation maps a layout record to what it returned, the new record and the position handed out |
| `PageEngine` | `May12th`, `PageManager`, `DocState`, the parser's state | extends the two above; one action per step of `Display`, so that a call is a sequence of steps and may die in the middle |
| `Typesetter` | `Setup` of characters, images and tables, `Line`, what is drawn | extends `PageLayout`; one action per outcome of `Setup` |
| `Markup` | `procLabel`, `procWord`, `procTableLabel` and what `DocState` keeps | one action per kind of tag, for text and for table cells; a client takes glyphs, turns pages and looks back |
| `PageBased` | `HG_PB_*`: `PB_Set2Page`, `PB_Display`, files of sub-pages | extends `GlyphStream` and `PageLayout`; first an earlier run writes the page files, then a page based engine reads each page up to its `term_off` |
| `Cells` | `TableLayout`, `Table_Data_Cell`, `Table_Row`, a table over several pages | extends `PageLayout`; setting up a cell is a recursive function over its glyphs, one action per outcome of a row |
| `HtmlClean` | `traverse` and what it calls in `htmlpp.c` | the five pointers of each libxml2 node; one action per kind of node the walk visits, with the stack of its recursion |
| `MCPageEngine`, `MCTypesetter`, `MCMarkup`, `MCPageBased`, `MCCells`, `MCHtmlClean` | - | the documents the runs use |
| `DocStreamProofs`, `PageEngineProofs`, `TypesetterProofs`, `PageBasedProofs`, `CellsProofs`, `HtmlCleanProofs`, `MarkupProofs` | - | theorems, each about the module it is named for |
| `TextLayoutProofs` | - | lemmas on the operations of `PageLayout` and on `Fill` of `GlyphStream`, shared by the proofs about the engine, the page based engine and (the layout's) the typesetter and the cells |

`PageEngine` composes `GlyphStream` and `PageLayout`; it uses a stream offset
where the code uses a `DocStream`, which is sound in the foreground because
`DocStream` is then proved to be a `Cursor`. `PageEngine` in turn implements `Book`
for readers who only turn to the next page. `GlyphStream` and `Markup` are two
views of one parser: the first has the batches, with every tag either a glyph or
nothing, the second what the tags mean. `Typesetter` and `Cells` are two views of a
table in the same way: rows of given heights among text, and the heights that come
out of the cells. Definitions carry the names of the
functions they model where that is possible, and `PROJECT.json` maps each to its
lines. A definition marked "mutant" is a plausible mistake in the next definition;
it is there to check that some property notices it.

### State and code

*DocStream.* A byte is its position in the document, so that a wrong byte is
visible as a wrong number. `hist` is what the parser holds and may push back (last
in, first out: `match`, `getString`, `operator<<`); a seek clears it, as
`RestoreDocState` does. `Background`, `PgBased` say how the stream is opened.
`Lag` bounds how far the file may be behind the pipe and `SeekFrom` says from which
descriptor the client looks back: the two knobs that separate the conditions under
which the background mode is right from those under which it is not.

*PageEngine.* `mode` is "plain" (`StartForeGround`), "fast" (with
`fast_page_sum`), "serial" (`StartForeGroundSerialized`) or "off".
A token of a document stands for one visible character, a blank, a newline (which
breaks the line among words and is a blank between tags), a tag that makes a line
break, or a tag that makes nothing; a glyph is the index of its token.
`pg[p]` is the file of page p: `StoreState` writes it with the flag `done` off,
`AppendState` sets it. `call` holds the client's call and the loop variable of a
forward jump (the recursion of `Display` is a tail call, so no stack is needed).
`content` and `seen` are history: what first renderings drew. `held` and `orphans`
count buffers. `LookBack`, `JumpAhead` and `CountAll` say which calls a client
makes. If `GetPage`'s assertion fails, the process stops: `ReturnPage` is then not
enabled.

*Book.* `ShowsBook` maps `read` to the glyphs drawn by first renderings, `sheet` to
those on the page that is being rendered for the first time, `pages` to
`numToRender`, `ended` to `maxPageNum` being known and `open` to an engine being
alive. A glyph drawn again has no step of `Book` to match it.

*Markup.* A token is a character, a blank, an entity, a newline or a tag. A newline
among words is a break, but it ends neither the run nor the batch, and nothing sets
the attributes of the line behind it (`DocParser.cpp:464`). A glyph carries its token, what it shows, its font, and the style of the line it is set in. `first`
is the first reading, `shown` what was taken since the client looked back. `Hidden`
is the part of the parser's state that `DocState` leaves out; a page file remembers
it only as history, for `ReplaySame`. The parser's functions are flattened into
steps with a program counter `pc`; a table is parsed to its end in one batch, and is
lost if the file ends inside it.

*PageBased.* `mode` "paginate" is the earlier run, "pb" the second engine, "dead" a
process that used the deleted `Eof`. `pg` has the files `<<p>>` of pages and
`<<p, s>>` of sub-pages; `parser.term` is the stream's `term_off`; `parser.held`
says that the last character stays pushed back: `GetChar` answers EOF as soon as
`file_off` has reached `term_off`, even then. `widTab` is the size the static width
table was made for: a later engine of the same process keeps it, and `size` gives
the heights only.

*Cells.* `cells[r][k]` is the layout of a cell with the positions of its glyphs;
`DupRows` is `Dup`, which returns the cell itself with its layout reset; `height` is
what a row keeps while it waits in the parser's buffer. `first` is history: the rows
each page showed when it was rendered.

*Typesetter.* An item is a character, image, table or break with its size. `line`
holds the boxes placed and not yet drawn, `ink` what is drawn; `live` tells a box
whose glyph has been freed. Boxes are moved to the baseline when they are drawn. An
image is an item with the size it has in its file; `Resized` scales it as `Resize`
does, each time it is set up.

*HtmlClean.* Nodes are numbered as they stand in the file, so that the order wanted
in the end is that of the numbers. `node` has the pointers, `live` what
`xmlFreeNode` has not freed, `callers` the `next_node` of each `traverse` that
waits for the walk of a list of children. Where libxml2 follows pointers, through a
list or down a subtree, the model takes the least set of nodes that is closed under
these pointers (`Siblings`, `Below`); and the ancestors of a node, for what the walk
should leave, are told by the order of the file (`MCHtmlClean` checks on every tree
of the run that these are the parents' parents). So nothing in the module is
recursive, and it can be reasoned about.

### Abstractions

* Only sizes and order of glyphs are kept: no encodings, fonts, bitmaps, colours.
* In `PageEngine` characters have one size and paragraphs one indent; `Typesetter`
  has sizes, images and tables, but no indent and left alignment only.
* In `Typesetter` a table row is one box, as high as its highest cell, and its height
  does not depend on how often it was set up; `Cells` shows when that is so.
* In `Markup` one tag stands for those that act alike, a label is one glyph, and a
  font is its size; numbers of items are not counted by the parser but read from the
  html. So an item of a numbered list is one with a value, as wvWare writes it
  (`wvHtml.xml:106`): without, it would have no label. wvWare also gives every `<ol>`
  a type (`:93`), and so do the lists of the run. Between the cells and rows of a table
  the model reads blanks, newlines and ignored tags only. Borders of tables, and line
  heights of paragraphs, are left out.
* In `DocStream` the parser pushes back exactly what it read, last in, first out. The
  scanners do so but for two cases: `match_b` drops the blanks it skipped inside what
  it had matched so far (`DocParser.cpp:948`), and `procTableWord` pushes back an `&`
  whose entity it has read (`:903`). What is pushed back is then fewer bytes than were
  read, or not the last; it is read again before an offset is saved.
* Page files either exist with the contents written or not at all: a torn write
  inside `StoreState` leaves the completion flag off, as the model's `done`.
* Undefined behaviour: `Eof::Dup` returns the glyph itself, so `PostStoreState`
  deletes a glyph the parser still holds. The process may die of it (`Stop` is
  enabled in every step) or not.
* `FinalStoreState` deletes the state whose `term_off` is written next: the value
  is garbage. Plain modes never read it; in the page based mode `DocStream` lets it
  be any offset from the page's start, and `PageBased` takes it as intact.
* `HG_PB_GetReRenderedPage` before the first `HG_PB_SetPage` is not modelled: the page
  number is then uninitialised.

## 3. The runs

Bounds are named constants in the configurations.

| run | asks | bounds and why they are enough |
|---|---|---|
| `Stream_fg` | is the foreground stream a cursor? (`IsCursor`, `TypeOK`) | documents of up to 5 bytes, 3 pushed back: push back beyond a seek, across the end, and to the start |
| `Stream_bg` | what holds in the background whatever the timing? (`NoReadAhead`, `NeverBehind`) | 4 bytes, 2 pushed back, the file up to 2 bytes behind, seeks from both descriptors |
| `Stream_bg_caughtup` | when is the background right, and does a page based stream stay in its page? (`Faithful`, `StaysInPage`, `BgOffIsParsingOffset`, `EndDiscoveredAtEnd`, `SeekNeverRefused`) | 5 bytes; every way to open, every start and `term_off`; no lag, and the client looks back only when it reads the pipe |
| `Engine_forward` | do pages tile the text for a reader who turns pages, across crashes? (`ShowsBook`, `TextKept`, `FilesTile`, `NoOrphans`, `LastPageStays`, `TypeOK`) | three documents of up to 14 tokens and several pages: a batch ends inside a line, at a page break and at a tag; newlines among words and between tags; a document with nothing to show; any number of engines, plain or serialized |
| `Engine_any` | what holds for every client? (`CountedPagesComplete`, `ReplayStarts`, `AssertHolds`, `CallsReturn`) | two documents of three pages; a jump can pass the end, pages can be asked for in any order, counted, and the engine can die anywhere |
| `Engine_again` | is a page shown again the same page? (`SamePage`) | documents of one and two pages, with looking back and with serialized sessions; batches longer than a paragraph, so that no page begins inside one |
| `Page` | does each page show its part, on the paper, nothing over anything? (`PageShowsItsPart`, `NoOverprint`, `OnPaper`, `DrawsLive`, `PagesAdvance`, `TypeOK`) | all texts of up to 8 characters of two sizes and line breaks, three characters to a line and four or five lines to a page; up to 6 items with images and tables of 3 and 4 rows that break after any row, or with images too wide, too high and broken; turning back included |
| `Markup` | do labels, fonts and styles reach the text they belong to, and what does a restored page keep? (`Labelled`, `FontAsWritten`, `StyleAsWritten`, `ReplaySame`, `ReplayKeepsText`, `TypeOK`) | any two of: a paragraph of either style with newlines among its words and before a tag, a bulleted list, one with numbers, each with an empty item, and one with letters, a picture, a table with a list in a cell and newlines behind `<td>` and between cells (but no numbered list behind a lettered one: see below); or one behind a title; and a table that the end of the file cuts. Batches of two, lines of two glyphs, three pages, two looks back |
| `PageBased` | do the sub-pages of a page show that page? (`SubPagesShowPage`, `SubPageAgain`, `TypeOK`) | documents of one to four pages, the same and twice the character size, in the same process and in another, every page and page number in any order, also without a file; batches of three end before, at and behind the end of a page |
| `Cells` | is text in its cell, and is a table the same when it is shown again? (`GlyphsInPlace`, `SameAgain`, `TypeOK`) | three rows of two columns with all texts of up to 3 and 4 glyphs, so that either column makes the row high, lines wrap, and the table breaks before any row, below 0 to 20 units of text |
| `Engine_lookback` | violation: looking back, then on, loses or repeats text | two pages |
| `HtmlClean` | does cleaning end, and leave the right tree? (`TreeIsWhole`, `WalkCleans`) | all trees of up to four nodes below the root, and of five without comments: nested strips with siblings on both sides, erased and empty nodes first, last and alone |

`CHECK_DEADLOCK FALSE` is set everywhere because every system here may stop: a
stream is closed, a document ends, a client makes no further call, or pages reach
their bound. `MaxHeld`, `MaxPage`, `MaxPages`, `MaxLeft` and `MaxPush` bound what a
client does, not what the code does. `MaxLeft` bounds the glyphs left on the line
by earlier pages: nothing ever removes them, so turning back again and again
makes the line grow without bound.

**Fairness.** `FairSpec` assumes weak fairness of the engine's steps: inside a call
the engine's thread keeps running. No fairness is assumed of clients, and the
process may die at any step (which ends the call). `CallsReturn` then says that no
call loops: not a jump past the end, nor the page count. `HtmlClean` assumes weak
fairness of the walk, the only thread of its process.

### Conditions that matter

The passing runs say under which conditions the code is right, and the conditions
are tight. Dropping one makes TLC refute the property; `Engine_lookback`, which
expects a violation, is an example, and the others can be had by changing a
configuration as follows (the property named is checked alone; those that are in no
run are stated in the module).

| change | refuted | because |
|---|---|---|
| `Stream_bg_caughtup` with `SeekFrom = {"pipe", "file"}` | `BgOffIsParsingOffset`, `SeekNeverRefused` | a second look back overwrites `bg_off` (`DocStream.cpp:325`); a page that was rendered may now be ahead of the stream (`:310`) |
| `Stream_bg_caughtup` with `Lag = 1` | `EndDiscoveredAtEnd` | while `tee` has bytes for the pipe that are not in the file yet, the file's current end is taken for the end of the text (`DocStream.cpp:358`) |
| `Stream_bg_caughtup` with `EndIsTheEnd` | `EndIsTheEnd` | after the pipe has ended, `fd` is still the pipe and `fseek` fails (`DocStream.cpp:301,361`) |
| `Stream_bg` with `OpenSucceeds` | `OpenSucceeds` | the tmp file is opened once, and `tee` may not have created it (`DocStream.cpp:88`) |
| `Stream_bg_caughtup` with `PageReadToTermOff` | `PageReadToTermOff` | pushed back bytes at the page end are not read again (`DocStream.cpp:344`) |
| `Engine_forward` with `JumpAhead = TRUE` | `TextKept`, `NoOrphans` | `NextPage()` has nothing to do with the page in work (`MayTwelfth.cpp:168`); buffers of pages on the way are dropped (`:164`) |
| `Engine_forward` with `AskedPage` | `AskedPage` | serialized mode answers a missing page with the start of the text (`PageManager.cpp:117`) |
| `Engine_again` with `PHeight = 8` | `SamePage`, `LastPageStays` | only the first rendering of the first page starts below the extra line spacing of `NewPage` (`MayTwelfth.cpp:37,197`), and a first page that reaches the end when shown again becomes the last (`:241`) |
| `Engine_again` with `WordMax = 1` | `SamePage` | `resumeProcWord` is not saved (`DocParser.cpp:98`) |
| `Engine_again` with `CharSizes = {2, 3}` | `SamePage` | page files do not say for which size they are (`DocState.cpp:54`) |
| `Engine_any` with `Modes = {"fast"}` | `AssertHolds`, `MaxPageIsTotal` | no buffer is made (`RenderMan.cpp:262`); `maxPageNum` is an index (`MayTwelfth.cpp:151`) |
| `Page` with `Documents <- MCDescender` | `NoOverprint` | the height of a line forgets descenders (`PageLayout.cpp:33`) |
| `Page` with `DrawsLive == ~ghost` | `DrawsLive` | at the end of the text the line keeps its freed glyphs (`MayTwelfth.cpp:242`, `Line.cpp:11`) |
| `Page` with `Documents <- MCTableInLine` | `OnPaper`; with `PHeight = 16` `PageShowsItsPart` | a table starts where the line stands (`PageLayout.cpp:224`), and on a new page drops that line (`:217`) |
| `Page` with `Documents <- MCRows` | `PagesAdvance` | `rowSplit` is one less than the rows that found a place, so if only one row fits nothing is drawn, all rows go back, and every further page is blank (`Table.cpp:413`) |
| `Page` with `Documents <- MCFullPage` | `PagesAdvance` | `Resize` leaves an image as high as the page, or makes it so, but a page has room for that less the line spacing (`Graph.cpp:554`, `PageLayout.cpp:113`) |
| `Page` with `Documents <- MCImage` | `NoOverprint` | a wrapping image moves down by its own height (`PageLayout.cpp:160`) |
| `Markup` with `Docs <- MCNumberedAfterLetters` | `Labelled` | `<ol type="1">` leaves `olType` as the list before had it (`DocParser.cpp:303`) |
| `Markup` with `StyledBehindNewlines` | `StyledBehindNewlines` | a newline among words begins a line to which nothing gives the style of the paragraph (`DocParser.cpp:464`): that is done at the begin of a run (`:173`), and a new line has the default (`Line.h:17`) |
| `Markup` with `Docs <- MCCells` | `CellsReadAsText` | in a cell an entity shows as `&`, for want of an `else` (`DocParser.cpp:903`), and the cell's line takes the parser's style, not the cell's (`:689`) |
| `Markup` with `back.same` left out of `ReplaySame` | `ReplaySame` | list mode, header mode, `resumeProcWord` and delayed labels are not in `DocState` (`DocParser.cpp:98`); labels that wait when a client looks back are dropped (`:48`) |
| `PageBased` with `NoOverlap` | `NoOverlap` | `term_off` is where the parser has read to when the page ends, behind glyphs of its buffer that already belong to the next page (`DocParser.cpp:127`) |
| `PageBased` with `SameSubPage` | `SameSubPage` | the last character before `term_off` is pushed back and not read again (`DocStream.cpp:344`) |
| `PageBased` with `LastSubStays` | `LastSubStays` | going back to a sub-page whose own file ends early finds its Eof there (`MayTwelfth.cpp:435`) |
| `PageBased` with `WidthsOfThisEngine` | `WidthsOfThisEngine` | the width table is static, and `insert` replaces no entry (`FontsManager.cpp:118`); `hgBin` runs both engines in one process |
| `PageBased` with `Lives` | `Lives` | `Eof::Dup` (`Glyph.h:79`) |
| `PageBased` with `Indent = 1` | `SubPageAgain` | `firstLine` and the line's indent are not in `DocState` |
| `Cells` with `Tables <- MCMargin` | `SameAgain` | a new cell starts at `TABLE_MARGIN_HORIZONTAL`, a reset one at `TABLE_MARGIN_VERTICAL` (`TableLayout.cpp:10,132`); a row that was set up before keeps the greater of its heights (`Table.cpp:248`) |
| `Cells` with `Tables <- MCCentred` | `SameAgain` | the last line of a cell keeps its glyphs over `Reset` and is shifted twice when it is set up again (`Table.cpp:58`, `TableLayout.cpp:131`); the style of a cell's line is not in the file (`Table.cpp:168`) |
| `Cells` with `Tables <- MCSizes` | `GlyphsInPlace` | the last line of a cell is moved by the baseline of the line before it (`Table.cpp:58`, `Line.cpp:19`) |

## 4. The proofs

The theorems hold for all values of the constants (documents, page geometry,
sizes, bounds) under the named assumptions of the modules, `StreamAssumption`,
`LayoutAssumption`, `EngineAssumption`, `PageBasedAssumption`, `TypesetterAssumption`,
`CellsAssumption`, `HtmlAssumption`, `MarkupAssumption` and `TitleAssumption`.
These give types, and besides: page numbers stay below `NoMax`, which stands for
`MAX_INT32`; images are not empty and tables have rows; documents end with a tag; and the nodes of an html
file are numbered in the order in which they stand in it. `TitleAssumption` says that
wvWare writes the title, and closes it, before anything a page shows: a page that
began inside a title would be shown again with whatever `headerMode` the parser
has by then.

| theorem | states | argument |
|---|---|---|
| `DocStreamProofs!StreamTypes` | `TypeOK` | by action; that the file stays behind the pipe is part of it |
| `DocStreamProofs!NeverReadsAhead` | `NoReadAhead` | `BackgroundInv`: before the stream is open its offsets are 0 (otherwise the first look back could record anything); then a byte from the copy is read only behind `bg_off`, and one from the pipe moves the pipe too |
| `DocStreamProofs!ForegroundIsCursor` | refinement of `Cursor` | `ForegroundInv`: the file's position is `file_off`, and the pushed back bytes and those the parser holds are, in order, the bytes around `CurOffset`; the refinement is not inductive without saying what is on the two stacks. For streams opened in the foreground and not page based |
| `DocStreamProofs!StreamIsNeverBehind` | `NeverBehind` | `AheadInv`, beside `BackgroundInv`: neither the descriptor nor any byte pushed back or held by the parser lies before the offset that counts it |
| `DocStreamProofs!StreamIsFaithful`, `BgOffIsWhereThePipeStands`, `EndIsFoundAtEnd`, `NoSeekIsRefused` | `Faithful`, `BgOffIsParsingOffset`, `EndDiscoveredAtEnd`, `SeekNeverRefused` | `StreamInv`: the two stacks hold exactly the bytes around the reported offset; `Standing`: the pipe is at `bg_off` while the copy is read, and the offsets that were saved lie before it. Without background mode, or if the background is `CaughtUp` |
| `DocStreamProofs!PagesKeepToThemselves` | `StaysInPage` | from `StreamInv`, for every way to open a stream |
| `PageEngineProofs!TypeCorrect` | `TypeOK` | one lemma per layout and parser operation, then per action |
| `PageEngineProofs!CountedPagesAreComplete` | `CountedPagesComplete` | `CompleteInv`: while a page is drawn it is the next to be counted exactly if `Display` holds it for new, and then its file has been started. For every client, mode and crash |
| `PageEngineProofs!GetPageAssertHolds` | `AssertHolds` | `AssertInv`: a forward run stays short of the page asked for, so it gives up only on pages beyond the last one. For engines without fast page sum |
| `PageEngineProofs!TurningPagesLosesNoBuffer` | `NoOrphans` | `TurnInv`: the page drawn is the page asked for. For clients that neither jump nor count |
| `PageEngineProofs!LastPageIsFinal` | `LastPageStays` | `TurnInv` and `ForwardInv`: only the next page is drawn, and none once the last is known. For clients that only turn to the next page |
| `PageEngineProofs!PagesTileText` | `TextKept` | `BookInv`: between two glyphs that are handed out one after the other, in one batch or at the end of one and the begin of the next, lies nothing that is shown; blanks that `procWord` skips lie behind a tag or at the start; `seen` is all that lies before the parser's front, and a page that breaks gives back what it took. For clients that only turn to the next page, whatever dies |
| `PageEngineProofs!ReaderSeesBook` | `ShowsBook`, refinement of `Book` | from `BookInv`: starting a page is `NewSheet`, drawing a glyph `Show`, a page break `FinishPage`, the end `FinishLastPage`; all other steps, and all engines that die, stutter. For the same clients |
| `PageEngineProofs!ShownAgainFromItsBegin` | `ReplayStarts` | `BeginInv`, beside `CompleteInv`: between the front of the parser that a file keeps and the first glyph drawn from it lie only blanks and tags without a glyph, in the first rendering (`FilesBegin`) and in the one at hand (`PageBegins`), whatever `resumeProcWord` was in each. For every client, mode and crash, and across engines |
| `TypesetterProofs!TypesetterTypes` | `TypeOK` | by action; a row that waits in the parser exists, and a table with rows left is never empty |
| `TypesetterProofs!OnlyLiveGlyphsDrawn` | `DrawsLive` | `LiveLine`: until the document ends every box on the line is live, as each end of a page leaves an empty line or ends the document |
| `TypesetterProofs!PagesShowTheirParts` | `PageShowsItsPart` | `PartInv`: what is drawn and what is on the line is exactly what was taken from the parser since the page began, and no table is set up behind a line that holds glyphs. Under `TablesBeginLines` |
| `TypesetterProofs!PagesTakeTheReaderFurther` | `PagesAdvance` | `AdvanceInv`: while nothing was taken since the page began, the layout is that of a blank page, but for the rows of a table it may begin with, and what comes next fits. Under `EverythingFits` |
| `TypesetterProofs!NothingOverprints` | `NoOverprint` | `PlacesInv`: boxes drawn and rows of tables are apart and above the line being set; the glyphs that wait on it stand side by side, left of `x` and within `curMaxHeight`; tables and images find it blank; and the heights of the line fit together, so that the baseline moves no glyph beyond it. Under `LettersStand`, `FiguresBeginLines`, `SpacingGuards` |
| `TypesetterProofs!NothingIsClipped` | `OnPaper` | `PaperInv`, beside `PlacesInv`: `x` and `y` stay in the margins, and a box on the line lies on the paper where it is and where the baseline will put it; `ResizedFits`: a scaled image is no larger than the page. Under the same conditions, `MarginsFit` and `GlyphsFit` |
| `PageBasedProofs!PageBasedTypes` | `TypeOK` | from `IInv`: offsets stay in the document only because a page's `term_off` lies behind its begin, and what is shown is no Eof only because the earlier run leaves none in a file |
| `PageBasedProofs!SubPagesShowTheirPage` | `SubPagesShowPage` | `SubPageInv`, in two halves. `FirstRun`: between the begin of a page and where the parser stands, the page's glyphs and those that wait cover the buffer the page began with and what the document shows from its offset on (`Covers`); so a finished page and the begin of the next one cover all up to its `term_off` (`PageDone`), and no file holds an Eof, as documents end with a tag and the end is only found with nothing left to draw. `SubRun`: restored from that file, the parser reads the same stretch in other batches, and all sub-pages together with what waits cover it (`ReadInv`); once the last is known nothing but an Eof waits. The character that `GetChar` withholds at `term_off` is the last of the stretch, and as a batch ends with the last character it read, this one still waited when the page ended (`EndsIn`): it belongs to the next page, and is not missed. For every client until it restores a sub-page |
| `CellsProofs!CellTypes` | `TypeOK` | `TypesInv`: by action, and no row keeps a place while the page is shown, so that the rows given back begin at one that exists. What a cell's layout is behind k glyphs is a recursive function, and that it is a layout is proved for the least k |
| `CellsProofs!GlyphsKeepToTheirCells` | `GlyphsInPlace` | `BegunInv`: every cell is set from the left, and one whose row is not set up yet is as new or as reset, but for the line it keeps. `CellInv`, behind each glyph of a cell: those set so far are in the column, above the bottom of the line, and left of what comes next or above its line. `PlaceInv`: so are those of the rows that found a place. Under `PlainCells` and `ColumnsApart` |
| `CellsProofs!PagesShowTheSameAgain` | `SameAgain` | `AgainInv`, beside `BegunInv`: the rows with a place form a stack from the top of the page (`Stacked`), each as high as a cell begun at this page's edge makes it. `SetupAlike`: cells begun at one x are set up alike, whatever they held before; `HeightInv`: a height kept from an earlier page is no greater. `FullAlike`: two stacks that begin with one row and have no room for another are equal, so that what a page showed first (`FirstInv`) is what it shows now. Under `PlainCells`, and `MarginIdle` if the table was not in the parser when its first page began |
| `HtmlCleanProofs!WalkedTreeIsWhole` | `TreeIsWhole` | `TreeInv`: beside the five pointers (`Wired`), a parent stands before its children in the file and nothing between them hangs further up (`Ordered`), and the nodes that wait in the callers' list stand behind the current one, each further up than those called after it (`Waiting`): so none of them is below a node that is erased. Unlinking and splicing keep the pointers by cases on the place of a node |
| `HtmlCleanProofs!WalkedIsClean` | `Walked => Clean`, the safety half of `WalkCleans` | `CleanInv`, beside `TreeInv`: what the walk has passed is as it should be in the end, each node hangs below its nearest ancestor that is not freed, and none is freed without cause (`Settled`); what is ahead will be reached, from its sibling or its parent (`Hangs`) |
| `MarkupProofs!MarkupTypes` | `TypeOK` | by action, with `CutInTime`: while words are read their count is within its bound |
| `MarkupProofs!TextHasItsFont` | `FontAsWritten` | `FontInv`: the parser is in a cell, and has the font in force, that the tokens before it say (`CellKnown`, `FontKnown`); every glyph that waits, and every page file, was made so (`GlyphsWritten`, `PagesWritten`). As `headerMode` is in no page file, it needs that no page begins in a title, thus that nothing is made before it is read (`Quiet`). For every client |
| `MarkupProofs!TextHasItsStyle` | `StyleAsWritten` | `StyleInv`, beside `FontInv`: list mode and paragraph style are those the tokens say (`ListKnown`, `LineKnown`); text stands at the end of a batch and in the style in force, and a break ends one or is a newline within its run, so the style cannot change under text that waits (`BatchShape`, `OfRun`); behind the break of a tag the line is in that style and has as many glyphs as were set since (`LineBegun`, `TagBreak`). Behind a newline in the run of the text nothing more than the style or the default is claimed, and nothing more is true |
| `MarkupProofs!ItemsAreLabelled` | `Labelled` | `LabelInv`, beside `StyleInv`: between runs of words `delayedToken` ends in the labels of the items that wait for their text, at the begin of a run the buffer does; a run is cut only where no item waits, so that going on with it drops no label; `olType` is what the last list that set it asked for. Under `ListsSayTheirType` |

**Conditions.** Where a theorem has a condition, it is one that the table in
section 3 shows to be needed or that the code does not secure itself, and the
documents and the geometry of the runs satisfy it.

* `CaughtUp` (`DocStream`): the copy has all that the pipe has delivered, and the
  parser looks back only when it reads the pipe.
* `TablesBeginLines`, `FiguresBeginLines` (`Typesetter`): before a table, and for
  placing also before an image, stands a line break or nothing. A table behind text
  starts where the line stands and drops that line on a new page; an image behind
  text may wrap and move by its own height.
* `EverythingFits`: the margins leave room for every character, image and row on a
  blank page, and for any two rows of a table that follow each other: `rowSplit`
  counts one row too few.
* `LettersStand`: no character hangs below its baseline, as the height of a line
  forgets descenders.
* `SpacingGuards`, `MarginsFit`: spacing and margins are not negative, the page is
  at least `IMAGE_GUARD_SIZE` wide and high, and has room for its first line.
* `ListsSayTheirType` (`Markup`): in a numbered list outside tables the last `<ol>`
  that sets `olType`, one without a type or with a letter, is lettered exactly if the
  list is. An `<ol type="1">` behind a lettered list breaks it, and so does a list
  that is opened in a cell and goes on behind it.
* `PlainCells`, `ColumnsApart`, `MarginIdle` (`Cells`): cells are set from the left,
  each in characters of one bearing that fit its column (a cell in two sizes has
  its last line moved by the wrong baseline, a centred one is shifted twice); the
  columns of a row do not overlap; and a row is no higher in new cells than in reset
  ones, which begin at another x and may wrap differently. `MCSizes`, `MCCentred` and
  `MCMargin` of section 3 each leave out one of them. They hold in all tables of the
  `Cells` run.
* `GlyphsFit`: a character is no higher than the lower margin and it and a table are
  no wider than the paper. The engine asks whether a line begins above the margin,
  not whether it ends there, so characters reach into it. Nothing is asked of images.

**Only model-checked.** `FilesTile` compares what two readings drew, perhaps by
different engines: it needs that both drew the same, which is an induction over the
whole text, and holds for one character size only. `SamePage` holds for the
geometry and the documents of its run, as section 3 tells, and not in general.
`WalkCleans` and `CallsReturn` are liveness under fairness, which is beyond the
proof system used. `ReplaySame` and `ReplayKeepsText` of
`Markup` also compare two readings of one text, and so does `SubPageAgain` of
`PageBased`: it rests on both being laid out alike, glyph by glyph, and does not
hold for every document and indent, as section 3 tells.

## 5. Not modelled

Not modelled: the scanners below `procLabel`, image decoding, font faces, drawing
of pixels, borders of tables, the interactive main loop, the command line drivers,
unpacking of e-books, third-party code. `PROJECT.json` gives the reason for each.

The repository is for the most part code of others: the wv converter, `chm_lib`,
`libzip`, image and font libraries, more than four fifths of its lines. heigong's own
code is the engine in `lib` and `inc` and the small html tools, and it is what these
modules map; the converter appears as the two external processes of `DocStream`,
libxml2 as the tree operations of `HtmlClean`. The rest of the engine's own code is
sequential computation without state that outlives a call: decoding UTF-8 and
images, matching strings, formatting numbers, blending pixels.

Three faults met while reading lie in that rest. A font tag may ask for a size that
the width table lacks (odd sizes from 21 to 35), and the missing entry is indexed
(`FontsManager.cpp:296`). `pre_trim` reads for ever if a file has no `<html` tag, and
leaves the old tail of a file it has shortened, behind a byte 255 (`htmlpp.c:239`).
`FontsCache::elems` keeps a pointer to every character ever set up, as nothing calls
`Evict` (`FontsCache.cpp:71`).

What would come next:

1. the engine over the background stream, composing `PageEngine` with `DocStream`;
2. a proof of `FilesTile` for readers who turn pages at one character size, by an
   account of which layout each glyph met;
3. alignment and indent on the page.
