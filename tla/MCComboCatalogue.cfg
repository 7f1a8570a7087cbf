SPECIFICATION CatalogueSpec
CONSTANTS
  c1 = c1  c2 = c2  c3 = c3  g1 = g1
  p1 = p1  p2 = p2  pg = pg  r1 = r1  r2 = r2
  Combos = {c1, c2, c3}
  Goods = {g1}
  Products = {p1, p2, pg}
  ProductOf <- MCProductOf
  MaxDepth = 2
  Counts = {1}
  CostPrices = {1, 2}
  Editors = {r1, r2}
  Nobody = nobody
SYMMETRY Symmetry
INVARIANTS CombosCanBeSold CostsAddUp
