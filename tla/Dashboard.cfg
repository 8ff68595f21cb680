\* Two loads, a refresh and a background run, three of the tasks at once.
SPECIFICATION FairSpec
CONSTANTS
  Loads = {l1, l2}
  Refreshes = {r1}
  Background = {b1}
  MaxInFlight = 3
  MaxVersion = 1
  None = None
  Visible <- MCVisible
INVARIANT OneRefreshLoop
PROPERTIES LeftIsQuiet LoadingEnds ListCatchesUp
