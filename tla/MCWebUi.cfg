\* Two jobs, two searches, two requests at once, four clicks.
SPECIFICATION Spec
CONSTANTS
  Jobs = {j1, j2}
  Searches = {q1, q2}
  Slots = {s1, s2}
  MaxClicks = 4
  Menus <- SomeMenus
  None = None
SYMMETRY Symmetry
INVARIANTS TypeOK LoadingIsReal JobPageIsFilled DeletedOrRefused SearchShowsLatest
PROPERTY ListsNeverGoBack
\* The user is done, and nothing happens to jobs elsewhere.
CHECK_DEADLOCK FALSE
