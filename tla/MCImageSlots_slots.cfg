CONSTANTS
  Images = {photo, raster}
  Renderable = {photo}
  NoImage = NoImage
  MaxElements = 4
  MaxInFlight = 2
SPECIFICATION Spec
INVARIANTS SlotsAgree
